--------------------------- MODULE DeviceSyncProofs ---------------------------
(* That synchronisation keeps every fact until rows are exported into a      *)
(* document that a failed transaction has left behind (the refinement of     *)
(* ReplicaPromise), that a link's books balance across such failures, and,   *)
(* until a merge or a transaction fails, that the time it was last           *)
(* synchronised means what it says and that quiet links agree: for any       *)
(* devices, links, documents, updates and troubles.                          *)
EXTENDS DeviceSync, TLAPS, SequenceTheorems, FiniteSetTheorems

-----------------------------------------------------------------------------
(* Sequences: what a queue holds, and how many of a kind.                    *)

Matches(m, type, doc) == m.type = type /\ doc \in m.doc

(* What is sent is added at the end. *)
LEMMA AppendRange ==
    ASSUME NEW S, NEW s \in Seq(S), NEW x \in S
    PROVE  /\ Append(s, x) \in Seq(S) /\ Append(s, x) # << >>
           /\ Range(Append(s, x)) = Range(s) \cup {x}
           /\ s # << >> => Head(Append(s, x)) = Head(s)
           /\ s = << >> => Head(Append(s, x)) = x
<1>1. /\ Append(s, x) \in Seq(S)
      /\ Len(Append(s, x)) = Len(s) + 1
      /\ Len(s) \in Nat
      /\ DOMAIN Append(s, x) = 1..(Len(s) + 1)
      /\ DOMAIN s = 1..Len(s)
      /\ \A i \in 1..Len(s) : Append(s, x)[i] = s[i]
      /\ Append(s, x)[Len(s) + 1] = x
    BY AppendProperties, LenProperties
<1>2. Append(s, x) # << >>
    BY <1>1, EmptySeq
<1>3. Range(Append(s, x)) = Range(s) \cup {x}
  <2>1. \A y \in Range(Append(s, x)) : y \in Range(s) \cup {x}
      BY <1>1 DEF Range
  <2>2. \A y \in Range(s) \cup {x} : y \in Range(Append(s, x))
      BY <1>1 DEF Range
  <2>3. QED
      BY <2>1, <2>2
<1>4. Head(Append(s, x)) = Append(s, x)[1]
    OBVIOUS
<1>5. s # << >> => Head(s) = s[1] /\ 1 \in 1..Len(s)
    BY <1>1, EmptySeq
<1>6. QED
    BY <1>1, <1>2, <1>3, <1>4, <1>5

(* What is read is taken from the front. *)
LEMMA TailRange ==
    ASSUME NEW S, NEW s \in Seq(S), s # << >>
    PROVE  /\ Tail(s) \in Seq(S)
           /\ Head(s) \in S /\ Head(s) \in Range(s)
           /\ Range(Tail(s)) \subseteq Range(s)
           /\ s = <<Head(s)>> \o Tail(s)
<1>1. /\ Tail(s) \in Seq(S) /\ Head(s) \in S
      /\ Len(Tail(s)) = Len(s) - 1
      /\ \A i \in 1..Len(Tail(s)) : Tail(s)[i] = s[i + 1]
    BY HeadTailProperties
<1>2. /\ Len(s) \in Nat \ {0} /\ DOMAIN s = 1..Len(s)
      /\ DOMAIN Tail(s) = 1..Len(Tail(s))
    BY <1>1, EmptySeq, LenProperties
<1>3. Head(s) = s[1]
    OBVIOUS
<1>4. Range(Tail(s)) \subseteq Range(s)
    BY <1>1, <1>2 DEF Range
<1>5. Head(s) \in Range(s)
    BY <1>2, <1>3 DEF Range
<1>6. s = <<Head(s)>> \o Tail(s)
  <2>1. <<Head(s)>> \in Seq(S) /\ Len(<<Head(s)>>) = 1 /\ <<Head(s)>>[1] = s[1]
      BY <1>1, <1>3
  <2>2. /\ <<Head(s)>> \o Tail(s) \in Seq(S)
        /\ Len(<<Head(s)>> \o Tail(s)) = 1 + Len(Tail(s))
        /\ \A i \in 1..(1 + Len(Tail(s))) : (<<Head(s)>> \o Tail(s))[i] =
              IF i <= 1 THEN <<Head(s)>>[i] ELSE Tail(s)[i - 1]
      BY <1>1, <2>1, ConcatProperties
  <2>3. Len(<<Head(s)>> \o Tail(s)) = Len(s)
      BY <1>1, <1>2, <2>2
  <2>4. \A i \in 1..Len(<<Head(s)>> \o Tail(s)) : (<<Head(s)>> \o Tail(s))[i] = s[i]
    <3> TAKE i \in 1..Len(<<Head(s)>> \o Tail(s))
    <3>1. CASE i = 1
        BY <3>1, <2>1, <2>2, <1>2
    <3>2. CASE i # 1
      <4>1. i - 1 \in 1..Len(Tail(s)) /\ i \in 1..(1 + Len(Tail(s))) /\ ~(i <= 1)
          BY <3>2, <2>2, <1>1, <1>2
      <4>2. Tail(s)[i - 1] = s[(i - 1) + 1]
          BY <4>1, <1>1
      <4>3. QED
          BY <4>1, <4>2, <2>2
    <3>3. QED
        BY <3>1, <3>2
  <2>5. QED
      BY <2>2, <2>3, <2>4, SeqEqual
<1>7. QED
    BY <1>1, <1>4, <1>5, <1>6

(* One item instead of the first. *)
LEMMA ConsRange ==
    ASSUME NEW S, NEW s \in Seq(S), NEW x \in S
    PROVE  /\ <<x>> \o s \in Seq(S) /\ <<x>> \o s # << >>
           /\ Range(<<x>> \o s) = {x} \cup Range(s)
           /\ Head(<<x>> \o s) = x
<1>1. <<x>> \in Seq(S) /\ Len(<<x>>) = 1 /\ <<x>>[1] = x
    OBVIOUS
<1>2. /\ <<x>> \o s \in Seq(S)
      /\ Len(<<x>> \o s) = 1 + Len(s)
      /\ \A i \in 1..(1 + Len(s)) : (<<x>> \o s)[i] = IF i <= 1 THEN <<x>>[i] ELSE s[i - 1]
    BY <1>1, ConcatProperties
<1>3. /\ Len(s) \in Nat /\ DOMAIN s = 1..Len(s)
      /\ DOMAIN (<<x>> \o s) = 1..(1 + Len(s))
    BY <1>2, LenProperties
<1>4. <<x>> \o s # << >>
    BY <1>2, <1>3, EmptySeq
<1>5. (<<x>> \o s)[1] = x
    BY <1>1, <1>2, <1>3
<1>6. \A i \in 1..Len(s) : (<<x>> \o s)[i + 1] = s[i]
  <2> TAKE i \in 1..Len(s)
  <2>1. i + 1 \in 1..(1 + Len(s)) /\ ~(i + 1 <= 1) /\ (i + 1) - 1 = i
      BY <1>3
  <2>2. QED
      BY <2>1, <1>2
<1>7. \A y \in Range(<<x>> \o s) : y \in {x} \cup Range(s)
  <2> SUFFICES ASSUME NEW i \in 1..(1 + Len(s))
               PROVE  (<<x>> \o s)[i] \in {x} \cup Range(s)
      BY <1>3 DEF Range
  <2>1. CASE i = 1
      BY <2>1, <1>5
  <2>2. CASE i # 1
    <3>1. i - 1 \in 1..Len(s) /\ (i - 1) + 1 = i
        BY <2>2, <1>3
    <3>2. (<<x>> \o s)[(i - 1) + 1] = s[i - 1]
        BY <3>1, <1>6
    <3>3. QED
        BY <3>1, <3>2, <1>3 DEF Range
  <2>3. QED
      BY <2>1, <2>2
<1>8. \A y \in {x} \cup Range(s) : y \in Range(<<x>> \o s)
  <2>1. x \in Range(<<x>> \o s)
      BY <1>3, <1>5 DEF Range
  <2>2. \A i \in 1..Len(s) : s[i] \in Range(<<x>> \o s)
    <3> TAKE i \in 1..Len(s)
    <3>1. i + 1 \in 1..(1 + Len(s))
        BY <1>3
    <3>2. QED
        BY <3>1, <1>3, <1>6 DEF Range
  <2>3. QED
      BY <2>1, <2>2, <1>3 DEF Range
<1>9. Head(<<x>> \o s) = x
    BY <1>2, <1>4, <1>5
<1>10. QED
    BY <1>2, <1>4, <1>7, <1>8, <1>9

(* Nothing is in an empty queue. *)
LEMMA EmptyRange == Range(<< >>) = {} /\ \A S : << >> \in Seq(S)
    BY EmptySeq DEF Range

(* A count is a number, positive exactly when something matches. *)
LEMMA CountType ==
    ASSUME NEW S, NEW s \in Seq(S), NEW t, NEW doc
    PROVE  /\ Count(s, t, doc) \in Nat
           /\ Count(s, t, doc) = 0 <=> \A m \in Range(s) : ~Matches(m, t, doc)
<1> DEFINE P == {i \in DOMAIN s : s[i].type = t /\ doc \in s[i].doc}
<1>1. DOMAIN s = 1..Len(s) /\ Len(s) \in Nat
    BY LenProperties
<1>2. IsFiniteSet(1..Len(s))
    BY <1>1, FS_Interval
<1>3. P \in SUBSET (1..Len(s))
    BY <1>1
<1>4. IsFiniteSet(P)
    BY <1>2, <1>3, FS_Subset
<1>5. Cardinality(P) \in Nat /\ (Cardinality(P) = 0 <=> P = {})
    BY <1>4, FS_CardinalityType, FS_EmptySet
<1>6. P = {} <=> \A m \in Range(s) : ~Matches(m, t, doc)
    BY <1>1 DEF Range, Matches
<1>7. QED
    BY <1>5, <1>6 DEF Count

(* One more at the front counts one more. *)
LEMMA ConsCount ==
    ASSUME NEW S, NEW s \in Seq(S), NEW x \in S, NEW t, NEW doc
    PROVE  Count(<<x>> \o s, t, doc)
             = Count(s, t, doc) + (IF Matches(x, t, doc) THEN 1 ELSE 0)
<1> DEFINE r == <<x>> \o s
           P == {i \in DOMAIN s : s[i].type = t /\ doc \in s[i].doc}
           R == {i \in DOMAIN r : r[i].type = t /\ doc \in r[i].doc}
           R1 == R \ {1}
           f == [i \in P |-> i + 1]
<1>1. <<x>> \in Seq(S) /\ Len(<<x>>) = 1 /\ <<x>>[1] = x
    OBVIOUS
<1>2. /\ r \in Seq(S)
      /\ Len(r) = 1 + Len(s)
      /\ \A i \in 1..(1 + Len(s)) : r[i] = IF i <= 1 THEN <<x>>[i] ELSE s[i - 1]
    BY <1>1, ConcatProperties
<1>3. Len(s) \in Nat /\ DOMAIN s = 1..Len(s) /\ DOMAIN r = 1..(1 + Len(s))
    BY <1>2, LenProperties
<1>4. r[1] = x /\ 1 \in DOMAIN r
    BY <1>1, <1>2, <1>3
<1>5. \A i \in 1..Len(s) : r[i + 1] = s[i] /\ i + 1 \in DOMAIN r /\ i + 1 # 1
  <2> TAKE i \in 1..Len(s)
  <2>1. i + 1 \in 1..(1 + Len(s)) /\ ~(i + 1 <= 1) /\ (i + 1) - 1 = i
      BY <1>3
  <2>2. QED
      BY <2>1, <1>2, <1>3
<1>6. IsFiniteSet(P)
  <2>1. IsFiniteSet(1..Len(s)) /\ P \in SUBSET (1..Len(s))
      BY <1>3, FS_Interval
  <2>2. QED
      BY <2>1, FS_Subset
<1>7. f \in [P -> R1]
    BY <1>3, <1>5
<1>8. \A i, j \in P : f[i] = f[j] => i = j
    BY <1>3
<1>9. \A k \in R1 : \E i \in P : f[i] = k
  <2> TAKE k \in R1
  <2>1. k \in 1..(1 + Len(s)) /\ k # 1
      BY <1>3
  <2>2. k - 1 \in 1..Len(s) /\ (k - 1) + 1 = k
      BY <2>1, <1>3
  <2>3. r[k] = s[k - 1]
      BY <2>2, <1>5
  <2>4. k - 1 \in P /\ f[k - 1] = k
      BY <2>2, <2>3, <1>3
  <2>5. QED
      BY <2>4
<1>10. f \in Bijection(P, R1)
    BY <1>7, <1>8, <1>9 DEF Bijection, Injection, Surjection, IsInjective
<1>11. IsFiniteSet(R1) /\ Cardinality(R1) = Cardinality(P)
    BY <1>10, <1>6, FS_Bijection DEF ExistsBijection
<1>12. Count(r, t, doc) = Cardinality(R) /\ Count(s, t, doc) = Cardinality(P)
    BY DEF Count
<1>13. 1 \in R <=> Matches(x, t, doc)
    BY <1>4 DEF Matches
<1> HIDE DEF P, R, R1, f, r
<1>14. CASE 1 \in R
  <2>1. R = R1 \cup {1} /\ 1 \notin R1
      BY <1>14 DEF R1
  <2>2. Cardinality(R) = Cardinality(R1) + 1
      BY <2>1, <1>11, FS_AddElement
  <2>3. QED
      BY <2>2, <1>11, <1>12, <1>13, <1>14 DEF r
<1>15. CASE 1 \notin R
  <2>1. R = R1
      BY <1>15 DEF R1
  <2>2. Cardinality(P) \in Nat
      BY <1>6, FS_CardinalityType
  <2>3. QED
      BY <2>1, <2>2, <1>11, <1>12, <1>13, <1>15 DEF r
<1>16. QED
    BY <1>14, <1>15

(* One more at the end, too. *)
LEMMA AppendCount ==
    ASSUME NEW S, NEW s \in Seq(S), NEW x \in S, NEW t, NEW doc
    PROVE  Count(Append(s, x), t, doc)
             = Count(s, t, doc) + (IF Matches(x, t, doc) THEN 1 ELSE 0)
<1> DEFINE r == Append(s, x)
           n == Len(s) + 1
           P == {i \in DOMAIN s : s[i].type = t /\ doc \in s[i].doc}
           R == {i \in DOMAIN r : r[i].type = t /\ doc \in r[i].doc}
<1>1. /\ DOMAIN r = 1..n /\ DOMAIN s = 1..Len(s) /\ Len(s) \in Nat
      /\ \A i \in 1..Len(s) : r[i] = s[i]
      /\ r[n] = x
    BY AppendProperties, LenProperties
<1>2. IsFiniteSet(P) /\ n \notin P
  <2>1. IsFiniteSet(1..Len(s)) /\ P \in SUBSET (1..Len(s))
      BY <1>1, FS_Interval
  <2>2. QED
      BY <2>1, <1>1, FS_Subset
<1>3. Count(r, t, doc) = Cardinality(R) /\ Count(s, t, doc) = Cardinality(P)
    BY DEF Count
<1>4. CASE Matches(x, t, doc)
  <2>1. \A i : i \in R <=> i \in P \cup {n}
      BY <1>1, <1>4 DEF Matches
  <2>2. R = P \cup {n}
      BY <2>1
  <2> HIDE DEF P, R, r, n
  <2>3. Cardinality(P \cup {n}) = Cardinality(P) + 1
      BY <1>2, FS_AddElement
  <2>4. QED
      BY <2>2, <2>3, <1>3, <1>4 DEF r
<1>5. CASE ~Matches(x, t, doc)
  <2>1. \A i : i \in R <=> i \in P
      BY <1>1, <1>5 DEF Matches
  <2>2. R = P
      BY <2>1
  <2> HIDE DEF P, R, r, n
  <2>3. Cardinality(P) \in Nat
      BY <1>2, FS_CardinalityType
  <2>4. QED
      BY <2>2, <2>3, <1>3, <1>5 DEF r
<1>6. QED
    BY <1>4, <1>5

(* What is read counts no longer. *)
LEMMA TailCount ==
    ASSUME NEW S, NEW s \in Seq(S), s # << >>, NEW t, NEW doc
    PROVE  Count(s, t, doc)
             = Count(Tail(s), t, doc) + (IF Matches(Head(s), t, doc) THEN 1 ELSE 0)
<1>1. Tail(s) \in Seq(S) /\ Head(s) \in S /\ s = <<Head(s)>> \o Tail(s)
    BY TailRange
<1>2. Count(<<Head(s)>> \o Tail(s), t, doc)
        = Count(Tail(s), t, doc) + (IF Matches(Head(s), t, doc) THEN 1 ELSE 0)
    BY <1>1, ConsCount
<1>3. QED
    BY <1>1, <1>2

(* Nothing counts nothing. *)
LEMMA EmptyCount ==
    ASSUME NEW t, NEW doc
    PROVE  Count(<< >>, t, doc) = 0
<1>1. << >> \in Seq({}) /\ Range(<< >>) = {}
    BY EmptyRange
<1>2. Count(<< >>, t, doc) = 0 <=> \A m \in Range(<< >>) : ~Matches(m, t, doc)
    BY <1>1, CountType
<1>3. QED
    BY <1>1, <1>2

-----------------------------------------------------------------------------
(* What a step does to one queue.                                            *)

One(m, type, doc) == IF Matches(m, type, doc) THEN 1 ELSE 0

Adds(S, s, r, x) ==
    /\ r \in Seq(S) /\ r # << >> /\ x \in S
    /\ Range(r) = Range(s) \cup {x}
    /\ s # << >> => Head(r) = Head(s)
    /\ \A t, doc : Count(r, t, doc) = Count(s, t, doc) + One(x, t, doc)

Takes(S, s, r, x) ==
    /\ r \in Seq(S) /\ s # << >> /\ x = Head(s)
    /\ x \in S /\ x \in Range(s)
    /\ Range(r) \subseteq Range(s) /\ Range(s) \subseteq Range(r) \cup {x}
    /\ \A t, doc : Count(s, t, doc) = Count(r, t, doc) + One(x, t, doc)

Swaps(S, s, r, x, y) ==
    /\ r \in Seq(S) /\ r # << >> /\ x \in S /\ x \in Range(s) /\ y \in Range(r)
    /\ Range(r) \subseteq Range(s) \cup {y} /\ Range(s) \subseteq Range(r) \cup {x}
    /\ \A t, doc : Count(s, t, doc) + One(y, t, doc) = Count(r, t, doc) + One(x, t, doc)

(* The three ways the code treats a queue. *)
LEMMA Adding ==
    ASSUME NEW S, NEW s \in Seq(S), NEW x \in S
    PROVE  Adds(S, s, Append(s, x), x)
<1>1. \A t, doc : Count(Append(s, x), t, doc) = Count(s, t, doc) + One(x, t, doc)
    BY AppendCount DEF One
<1>2. QED
    BY <1>1, AppendRange DEF Adds

(* What reading the head leaves. *)
LEMMA Taking ==
    ASSUME NEW S, NEW s \in Seq(S), s # << >>
    PROVE  Takes(S, s, Tail(s), Head(s))
<1>1. \A t, doc : Count(s, t, doc) = Count(Tail(s), t, doc) + One(Head(s), t, doc)
    BY TailCount DEF One
<1>2. Tail(s) \in Seq(S) /\ Head(s) \in S /\ s = <<Head(s)>> \o Tail(s)
    BY TailRange
<1>3. Range(<<Head(s)>> \o Tail(s)) = {Head(s)} \cup Range(Tail(s))
    BY <1>2, ConsRange
<1>4. QED
    BY <1>1, <1>2, <1>3 DEF Takes

(* What replacing the head leaves. *)
LEMMA Swapping ==
    ASSUME NEW S, NEW s \in Seq(S), s # << >>, NEW y \in S
    PROVE  Swaps(S, s, <<y>> \o Tail(s), Head(s), y)
<1>1. Takes(S, s, Tail(s), Head(s))
    BY Taking
<1>2. Tail(s) \in Seq(S)
    BY <1>1 DEF Takes
<1>3. /\ <<y>> \o Tail(s) \in Seq(S) /\ <<y>> \o Tail(s) # << >>
      /\ Range(<<y>> \o Tail(s)) = {y} \cup Range(Tail(s))
    BY <1>2, ConsRange
<1>4. \A t, doc : Count(<<y>> \o Tail(s), t, doc) = Count(Tail(s), t, doc) + One(y, t, doc)
    BY <1>2, ConsCount DEF One
<1>5. \A t, doc : /\ Count(Tail(s), t, doc) \in Nat
                  /\ One(y, t, doc) \in Nat /\ One(Head(s), t, doc) \in Nat
    BY <1>2, CountType DEF One
<1>6. \A t, doc : Count(s, t, doc) + One(y, t, doc)
                    = Count(<<y>> \o Tail(s), t, doc) + One(Head(s), t, doc)
  <2> TAKE t, doc
  <2>1. Count(s, t, doc) = Count(Tail(s), t, doc) + One(Head(s), t, doc)
      BY <1>1 DEF Takes
  <2>2. Count(<<y>> \o Tail(s), t, doc) = Count(Tail(s), t, doc) + One(y, t, doc)
      BY <1>4
  <2>3. /\ Count(Tail(s), t, doc) \in Nat
        /\ One(y, t, doc) \in Nat /\ One(Head(s), t, doc) \in Nat
      BY <1>5
  <2>4. QED
      BY <2>1, <2>2, <2>3
<1>7. QED
    BY <1>1, <1>3, <1>6 DEF Takes, Swaps

-----------------------------------------------------------------------------
(* Link ends, messages and caches have their types.                          *)

(* The two ends of a link. *)
LEMMA EndsFacts ==
    \A l \in Ends :
        /\ l[1] \in Devices /\ l[2] \in Devices /\ l[1] # l[2]
        /\ l = <<l[1], l[2]>>
        /\ Other(l) \in Ends /\ Other(l) # l
        /\ Other(l)[1] = l[2] /\ Other(l)[2] = l[1]
        /\ Other(Other(l)) = l
        /\ \A k \in Ends : k[1] = l[1] /\ k[2] = l[2] => k = l
<1> TAKE l \in Ends
<1>1. PICK d \in Devices, e \in Devices : l = <<d, e>>
    BY DEF Ends
<1>2. d # e /\ {d, e} \in Pairs
    BY <1>1 DEF Ends
<1>3. {e, d} = {d, e}
    OBVIOUS
<1>4. <<e, d>> \in Ends
    BY <1>2, <1>3 DEF Ends
<1>5. Other(l) = <<e, d>> /\ Other(<<e, d>>) = <<d, e>>
    BY <1>1 DEF Other
<1>6. \A k \in Ends : k[1] = l[1] /\ k[2] = l[2] => k = l
    BY <1>1 DEF Ends
<1>7. QED
    BY <1>1, <1>2, <1>4, <1>5, <1>6

(* What is computed from a store is made of its updates. *)
LEMMA Computed ==
    ASSUME TypeOK, NEW d \in Devices
    PROVE  /\ \A doc : Part(mem[d], doc) \subseteq Updates
           /\ \A doc \in Docs : VersionOf(d, doc) \in SUBSET Updates
           /\ \A docs \in SUBSET Docs, c \in BOOLEAN : Summary(c, d, docs) \in Message
<1>1. \A S, doc : Part(S, doc) \subseteq Updates
    BY DEF Part, Of
<1>2. \A doc \in Docs : VersionOf(d, doc) \in SUBSET Updates
    BY <1>1 DEF VersionOf, TypeOK
<1>3. ASSUME NEW docs \in SUBSET Docs, NEW c \in BOOLEAN
      PROVE  Summary(c, d, docs) \in Message
  <2>1. UNION {VersionOf(d, doc) : doc \in {x \in docs : Present(d, x)}} \in SUBSET Updates
      BY <1>2, <1>3
  <2>2. {doc \in docs : Present(d, doc)} \in SUBSET Docs
      BY <1>3
  <2>3. QED
      BY <1>3, <2>1, <2>2 DEF Summary, Message
<1>4. QED
    BY <1>1, <1>2, <1>3

WantItem(docs) == [NoMessage EXCEPT !.type = "Want", !.doc = docs]

(* Messages and items are well formed, and have the type they are named for. *)
LEMMA Formed ==
    /\ \A doc \in Docs, v \in SUBSET Updates :
         /\ Want(doc, v) \in Message
         /\ Want(doc, v).type = "Want" /\ Want(doc, v).doc = {doc} /\ Want(doc, v).vers = v
         /\ Update(doc, v) \in Message
         /\ Update(doc, v).type = "Update" /\ Update(doc, v).doc = {doc}
         /\ Update(doc, v).vers = v
    /\ RequestSummary \in Message /\ RequestSummary \in Outbound
    /\ RequestSummary.type = "RequestSummary" /\ RequestSummary.vers = {}
    /\ SummaryItem \in Outbound /\ SummaryItem.type = "Complete"
    /\ \A docs \in SUBSET Docs :
         /\ WantItem(docs) \in Outbound
         /\ WantItem(docs).type = "Want" /\ WantItem(docs).doc = docs
         /\ WantItem(docs).vers = {}
    /\ \A m \in Message :
         /\ ServeItem(m) \in Outbound
         /\ ServeItem(m).type = "Serve" /\ ServeItem(m).doc = m.doc
         /\ ServeItem(m).vers = m.vers
    BY DEF Want, Update, Message, Outbound, RequestSummary, SummaryItem, NoMessage, WantItem,
           ServeItem

(* A summary is of what is there. *)
LEMMA SummaryParts ==
    ASSUME NEW c, NEW d, NEW docs
    PROVE  /\ Summary(c, d, docs).type = IF c THEN "Complete" ELSE "Partial"
           /\ Summary(c, d, docs).doc = {doc \in docs : Present(d, doc)}
           /\ Summary(c, d, docs).vers
                = UNION {VersionOf(d, doc) : doc \in {x \in docs : Present(d, x)}}
    BY DEF Summary

(* Its kind. *)
LEMMA SummaryTypes ==
    ASSUME NEW d, NEW docs
    PROVE  /\ Summary(TRUE, d, docs).type = "Complete"
           /\ Summary(FALSE, d, docs).type = "Partial"
    BY DEF Summary

(* Caching versions keeps the digests well formed. *)
LEMMA CacheType ==
    ASSUME TypeOK, NEW d \in Devices, NEW docs \in SUBSET Docs, Cache(d, docs)
    PROVE  /\ digests' \in [Devices -> [Docs -> SUBSET Updates]]
           /\ \A e \in Devices \ {d} : digests'[e] = digests[e]
           /\ \A doc \in Docs : digests'[d][doc] =
                 IF doc \in docs \ Notes THEN VersionOf(d, doc) ELSE digests[d][doc]
<1>1. \A doc \in Docs : VersionOf(d, doc) \in SUBSET Updates
    BY Computed
<1> DEFINE F == [doc \in Docs |-> IF doc \in docs \ Notes THEN VersionOf(d, doc)
                                  ELSE digests[d][doc]]
<1>2. digests' = [digests EXCEPT ![d] = F]
    BY DEF Cache
<1>3. digests \in [Devices -> [Docs -> SUBSET Updates]]
    BY DEF TypeOK
<1>4. F \in [Docs -> SUBSET Updates]
    BY <1>1, <1>3
<1>5. \A doc \in Docs : F[doc] = IF doc \in docs \ Notes THEN VersionOf(d, doc) ELSE digests[d][doc]
    OBVIOUS
<1> HIDE DEF F
<1>6. QED
    BY <1>2, <1>3, <1>4, <1>5

(* Queues and wires are sequences. *)
LEMMA QueueTypes ==
    ASSUME TypeOK, NEW l \in Ends
    PROVE  queue[l] \in Seq(Outbound) /\ wire[l] \in Seq(Message)
    BY DEF TypeOK

-----------------------------------------------------------------------------
(* What each step of a link does to its queues.                              *)

(* A message is sent. *)
LEMMA Sending ==
    ASSUME TypeOK, NEW l \in Ends, NEW m \in Message, Send(l, m)
    PROVE  /\ Adds(Message, wire[l], wire'[l], m)
           /\ wire' \in [Ends -> Seq(Message)]
           /\ \A k \in Ends \ {l} : wire'[k] = wire[k]
<1>1. wire[l] \in Seq(Message) /\ wire \in [Ends -> Seq(Message)]
    BY DEF TypeOK
<1>2. Adds(Message, wire[l], Append(wire[l], m), m)
    BY <1>1, Adding
<1>3. Append(wire[l], m) \in Seq(Message)
    BY <1>2 DEF Adds
<1>4. wire' = [wire EXCEPT ![l] = Append(wire[l], m)]
    BY DEF Send
<1>5. QED
    BY <1>1, <1>2, <1>3, <1>4

(* An item is queued. *)
LEMMA Queueing ==
    ASSUME NEW l \in Ends, NEW q \in [Ends -> Seq(Outbound)], NEW x \in Outbound, NEW r,
           r = [q EXCEPT ![l] = Append(q[l], x)]
    PROVE  /\ Adds(Outbound, q[l], r[l], x)
           /\ r \in [Ends -> Seq(Outbound)]
           /\ \A k \in Ends \ {l} : r[k] = q[k]
<1>1. q[l] \in Seq(Outbound)
    OBVIOUS
<1>2. Adds(Outbound, q[l], Append(q[l], x), x)
    BY <1>1, Adding
<1>3. Append(q[l], x) \in Seq(Outbound)
    BY <1>2 DEF Adds
<1>4. QED
    BY <1>1, <1>2, <1>3

(* A message is read. *)
LEMMA Consuming ==
    ASSUME TypeOK, NEW l \in Ends, wire[Other(l)] # << >>, Consume(l)
    PROVE  /\ Takes(Message, wire[Other(l)], wire'[Other(l)], Incoming(l))
           /\ wire' \in [Ends -> Seq(Message)]
           /\ \A k \in Ends : k # Other(l) => wire'[k] = wire[k]
<1>1. Other(l) \in Ends
    BY EndsFacts
<1>2. wire[Other(l)] \in Seq(Message) /\ wire \in [Ends -> Seq(Message)]
    BY <1>1 DEF TypeOK
<1>3. Takes(Message, wire[Other(l)], Tail(wire[Other(l)]), Head(wire[Other(l)]))
    BY <1>2, Taking
<1>4. Tail(wire[Other(l)]) \in Seq(Message)
    BY <1>3 DEF Takes
<1>5. wire' = [wire EXCEPT ![Other(l)] = Tail(wire[Other(l)])]
    BY DEF Consume
<1>6. QED
    BY <1>1, <1>2, <1>3, <1>4, <1>5 DEF Incoming

(* The writer takes its item. *)
LEMMA Dequeueing ==
    ASSUME TypeOK, NEW l \in Ends, queue[l] # << >>, queue' = [queue EXCEPT ![l] = Tail(@)]
    PROVE  /\ Takes(Outbound, queue[l], queue'[l], Head(queue[l]))
           /\ queue' \in [Ends -> Seq(Outbound)]
           /\ \A k \in Ends \ {l} : queue'[k] = queue[k]
<1>1. queue[l] \in Seq(Outbound) /\ queue \in [Ends -> Seq(Outbound)]
    BY DEF TypeOK
<1>2. Takes(Outbound, queue[l], Tail(queue[l]), Head(queue[l]))
    BY <1>1, Taking
<1>3. Tail(queue[l]) \in Seq(Outbound)
    BY <1>2 DEF Takes
<1>4. queue' = [queue EXCEPT ![l] = Tail(queue[l])]
    OBVIOUS
<1>5. QED
    BY <1>1, <1>2, <1>3, <1>4

(* What is on its way from l[1] to l[2], and what waits there to be sent.    *)
Sent(l) == Range(wire[l])
Queued(l) == Range(queue[l])

(* A Want on the wire, an answer and its item are about one document.        *)
OneDoc(m) == \E doc \in Docs : m.doc = {doc}

Shapes(l) ==
    /\ \A m \in Sent(l) : m.type \in {"Want", "Update"} => OneDoc(m)
    /\ \A m \in Queued(l) : m.type = "Serve" => OneDoc(m)

Rest == <<rows, changes, disk, mem, late, tx, fallen, up, wanted, synced, due, silent, troubles,
          failed, overtaken>>

(* The queues but for the ends l and k are left alone. *)
Only(q, r, S, K) == r \in [Ends -> Seq(S)] /\ \A k \in Ends : k \notin K => r[k] = q[k]

(* What the writer does with the item at the front of its queue. *)
WritesItem(l, item) ==
    \/ /\ item.type = "Complete"
       /\ Adds(Message, wire[l], wire'[l], Summary(TRUE, l[1], Docs))
       /\ Takes(Outbound, queue[l], queue'[l], item)
       /\ Cache(l[1], Docs)
    \/ /\ item.type = "RequestSummary"
       /\ Adds(Message, wire[l], wire'[l], RequestSummary)
       /\ Takes(Outbound, queue[l], queue'[l], item)
       /\ UNCHANGED digests
    \/ /\ item.type = "Want"
       /\ \E doc \in item.doc :
            /\ doc \in Docs
            /\ Adds(Message, wire[l], wire'[l], Want(doc, VersionOf(l[1], doc)))
            /\ Cache(l[1], {doc})
            /\ \/ item.doc = {doc} /\ Takes(Outbound, queue[l], queue'[l], item)
               \/ \E rest \in Outbound :
                    /\ rest.type = "Want" /\ rest.doc = item.doc \ {doc} /\ rest.vers = item.vers
                    /\ Swaps(Outbound, queue[l], queue'[l], item, rest)
    \/ /\ item.type = "Serve"
       /\ \E doc \in Docs :
            /\ item.doc = {doc}
            /\ Adds(Message, wire[l], wire'[l], Update(doc, Part(mem[l[1]], doc) \ item.vers))
       /\ Takes(Outbound, queue[l], queue'[l], item)
       /\ UNCHANGED digests

(* write_loop: the item at the head becomes a message. *)
LEMMA WriteQueuedEffect ==
    ASSUME TypeOK, NEW l \in Ends, Shapes(l), WriteQueued(l)
    PROVE  /\ \E item \in Outbound : item \in Queued(l) /\ WritesItem(l, item)
           /\ Only(wire, wire', Message, {l}) /\ Only(queue, queue', Outbound, {l})
           /\ digests' \in [Devices -> [Docs -> SUBSET Updates]]
           /\ l \in up /\ UNCHANGED <<Rest, dirty>>
<1> DEFINE item == Head(queue[l])
           d == l[1]
<1>1. d \in Devices
    BY EndsFacts
<1>2. /\ queue[l] \in Seq(Outbound) /\ wire[l] \in Seq(Message) /\ queue[l] # << >>
      /\ queue \in [Ends -> Seq(Outbound)]
    BY DEF TypeOK, WriteQueued
<1>3. item \in Outbound /\ item \in Queued(l)
    BY <1>2, TailRange DEF Queued
<1>4. UNCHANGED <<Rest, dirty>> /\ l \in up
    BY DEF WriteQueued, Rest
<1>5. digests \in [Devices -> [Docs -> SUBSET Updates]]
    BY DEF TypeOK
<1> DEFINE Goal == /\ WritesItem(l, item)
                   /\ Only(wire, wire', Message, {l}) /\ Only(queue, queue', Outbound, {l})
                   /\ digests' \in [Devices -> [Docs -> SUBSET Updates]]
<1>6. item.doc \subseteq Docs /\ item.vers \subseteq Updates
    BY <1>3 DEF Outbound
<1>7. ASSUME item.type = "Complete", WriteSummary(l, TRUE, Docs),
             queue' = [queue EXCEPT ![l] = Tail(@)]
      PROVE  Goal
  <2>1. Summary(TRUE, d, Docs) \in Message
      BY <1>1, Computed
  <2>2. Send(l, Summary(TRUE, d, Docs)) /\ Cache(d, Docs)
      BY <1>7 DEF WriteSummary
  <2>3. Only(wire, wire', Message, {l}) /\ Adds(Message, wire[l], wire'[l], Summary(TRUE, d, Docs))
      BY <2>1, <2>2, Sending DEF Only
  <2>4. Only(queue, queue', Outbound, {l}) /\ Takes(Outbound, queue[l], queue'[l], item)
      BY <1>2, <1>7, Dequeueing DEF Only
  <2>5. digests' \in [Devices -> [Docs -> SUBSET Updates]]
      BY <1>1, <2>2, CacheType
  <2>6. QED
      BY <1>7, <2>2, <2>3, <2>4, <2>5 DEF WritesItem
<1>8. ASSUME item.type = "RequestSummary", Send(l, RequestSummary),
             queue' = [queue EXCEPT ![l] = Tail(@)], UNCHANGED digests
      PROVE  Goal
  <2>1. Only(wire, wire', Message, {l}) /\ Adds(Message, wire[l], wire'[l], RequestSummary)
      BY <1>8, Formed, Sending DEF Only
  <2>2. Only(queue, queue', Outbound, {l}) /\ Takes(Outbound, queue[l], queue'[l], item)
      BY <1>2, <1>8, Dequeueing DEF Only
  <2>3. QED
      BY <1>5, <1>8, <2>1, <2>2 DEF WritesItem
<1>9. ASSUME item.type = "Want", NEW doc \in item.doc,
             Send(l, Want(doc, VersionOf(d, doc))), Cache(d, {doc}),
             queue' = [queue EXCEPT ![l] = IF item.doc = {doc} THEN Tail(@)
                          ELSE <<[item EXCEPT !.doc = @ \ {doc}]>> \o Tail(@)]
      PROVE  Goal
  <2>1. doc \in Docs /\ {doc} \in SUBSET Docs
      BY <1>6
  <2>2. Want(doc, VersionOf(d, doc)) \in Message
      BY <1>1, <2>1, Computed, Formed
  <2>3. Only(wire, wire', Message, {l})
        /\ Adds(Message, wire[l], wire'[l], Want(doc, VersionOf(d, doc)))
      BY <1>9, <2>2, Sending DEF Only
  <2>4. digests' \in [Devices -> [Docs -> SUBSET Updates]]
      BY <1>1, <1>9, <2>1, CacheType
  <2>5. CASE item.doc = {doc}
    <3>1. queue' = [queue EXCEPT ![l] = Tail(@)]
        BY <1>9, <2>5
    <3>2. Only(queue, queue', Outbound, {l}) /\ Takes(Outbound, queue[l], queue'[l], item)
        BY <1>2, <3>1, Dequeueing DEF Only
    <3>3. QED
        BY <1>9, <2>1, <2>3, <2>4, <2>5, <3>2 DEF WritesItem
  <2>6. CASE item.doc # {doc}
    <3> DEFINE rest == [item EXCEPT !.doc = @ \ {doc}]
               s == <<rest>> \o Tail(queue[l])
    <3>1. /\ rest \in Outbound /\ rest.type = "Want" /\ rest.doc = item.doc \ {doc}
          /\ rest.vers = item.vers
        BY <1>3, <1>9 DEF Outbound
    <3> HIDE DEF rest
    <3>2. Swaps(Outbound, queue[l], s, item, rest)
        BY <1>2, <3>1, Swapping
    <3>3. s \in Seq(Outbound)
        BY <3>2 DEF Swaps
    <3>4. queue' = [queue EXCEPT ![l] = s]
        BY <1>9, <2>6 DEF rest
    <3> HIDE DEF s
    <3>5. queue'[l] = s /\ Only(queue, queue', Outbound, {l})
        BY <1>2, <3>3, <3>4 DEF Only
    <3>6. QED
        BY <1>9, <2>1, <2>3, <2>4, <3>1, <3>2, <3>5 DEF WritesItem
  <2>7. QED
      BY <2>5, <2>6
<1>10. ASSUME item.type = "Serve", NEW doc \in item.doc,
              Send(l, Update(doc, Part(mem[d], doc) \ item.vers)),
              queue' = [queue EXCEPT ![l] = Tail(@)], UNCHANGED digests
       PROVE  Goal
  <2>1. item.doc = {doc} /\ doc \in Docs
      BY <1>3, <1>6, <1>10 DEF Shapes, OneDoc
  <2>2. Update(doc, Part(mem[d], doc) \ item.vers) \in Message
    <3>1. Part(mem[d], doc) \ item.vers \in SUBSET Updates
        BY <1>1, Computed
    <3>2. QED
        BY <2>1, <3>1, Formed
  <2>3. Only(wire, wire', Message, {l})
        /\ Adds(Message, wire[l], wire'[l], Update(doc, Part(mem[d], doc) \ item.vers))
      BY <1>10, <2>2, Sending DEF Only
  <2>4. Only(queue, queue', Outbound, {l}) /\ Takes(Outbound, queue[l], queue'[l], item)
      BY <1>2, <1>10, Dequeueing DEF Only
  <2>5. QED
      BY <1>5, <1>10, <2>1, <2>3, <2>4 DEF WritesItem
<1>11. Goal
  <2> HIDE DEF Goal
  <2>1. \/ item.type = "Complete" /\ WriteSummary(l, TRUE, Docs)
             /\ queue' = [queue EXCEPT ![l] = Tail(@)]
        \/ item.type = "RequestSummary" /\ Send(l, RequestSummary)
             /\ queue' = [queue EXCEPT ![l] = Tail(@)] /\ UNCHANGED digests
        \/ /\ item.type = "Want"
           /\ \E doc \in item.doc :
                /\ Send(l, Want(doc, VersionOf(d, doc)))
                /\ Cache(d, {doc})
                /\ queue' = [queue EXCEPT ![l] = IF item.doc = {doc} THEN Tail(@)
                               ELSE <<[item EXCEPT !.doc = @ \ {doc}]>> \o Tail(@)]
        \/ /\ item.type = "Serve"
           /\ \E doc \in item.doc : Send(l, Update(doc, Part(mem[d], doc) \ item.vers))
           /\ queue' = [queue EXCEPT ![l] = Tail(@)]
           /\ UNCHANGED digests
      BY DEF WriteQueued
  <2>2. QED
      BY <1>7, <1>8, <1>9, <1>10, <2>1
<1>12. QED
    BY <1>3, <1>4, <1>11

(* write_loop: the dirty set is taken, and what is there of it announced. *)
LEMMA WriteDirtyEffect ==
    ASSUME TypeOK, NEW l \in Ends, WriteDirty(l)
    PROVE  /\ \/ /\ \E doc \in dirty[l] : Present(l[1], doc)
                 /\ Adds(Message, wire[l], wire'[l], Summary(FALSE, l[1], dirty[l]))
                 /\ Cache(l[1], dirty[l])
              \/ ~(\E doc \in dirty[l] : Present(l[1], doc)) /\ UNCHANGED <<wire, digests>>
           /\ Only(wire, wire', Message, {l})
           /\ digests' \in [Devices -> [Docs -> SUBSET Updates]]
           /\ dirty' = [dirty EXCEPT ![l] = {}]
           /\ l \in up /\ UNCHANGED <<Rest, queue>>
<1>1. l[1] \in Devices /\ dirty[l] \in SUBSET Docs
    BY EndsFacts DEF TypeOK
<1>2. dirty' = [dirty EXCEPT ![l] = {}] /\ l \in up /\ UNCHANGED <<Rest, queue>>
    BY DEF WriteDirty, Rest
<1>3. wire \in [Ends -> Seq(Message)] /\ digests \in [Devices -> [Docs -> SUBSET Updates]]
    BY DEF TypeOK
<1>4. CASE \E doc \in dirty[l] : Present(l[1], doc)
  <2>1. Send(l, Summary(FALSE, l[1], dirty[l])) /\ Cache(l[1], dirty[l])
      BY <1>4 DEF WriteDirty, WriteSummary
  <2>2. Summary(FALSE, l[1], dirty[l]) \in Message
      BY <1>1, Computed
  <2>3. Only(wire, wire', Message, {l})
        /\ Adds(Message, wire[l], wire'[l], Summary(FALSE, l[1], dirty[l]))
      BY <2>1, <2>2, Sending DEF Only
  <2>4. digests' \in [Devices -> [Docs -> SUBSET Updates]]
      BY <1>1, <2>1, CacheType
  <2>5. QED
      BY <1>2, <1>4, <2>1, <2>3, <2>4
<1>5. CASE ~(\E doc \in dirty[l] : Present(l[1], doc))
  <2>1. UNCHANGED <<wire, digests>>
      BY <1>5 DEF WriteDirty
  <2>2. QED
      BY <1>2, <1>3, <1>5, <2>1 DEF Only
<1>6. QED
    BY <1>4, <1>5

(* write_loop: the periodic complete summary. *)
LEMMA TickEffect ==
    ASSUME TypeOK, NEW l \in Ends, Tick(l)
    PROVE  /\ Adds(Message, wire[l], wire'[l], Summary(TRUE, l[1], Docs))
           /\ Cache(l[1], Docs)
           /\ Only(wire, wire', Message, {l})
           /\ digests' \in [Devices -> [Docs -> SUBSET Updates]]
           /\ l \in up /\ UNCHANGED <<Rest, queue, dirty>>
<1>1. l[1] \in Devices
    BY EndsFacts
<1>2. Send(l, Summary(TRUE, l[1], Docs)) /\ Cache(l[1], Docs)
    BY DEF Tick, WriteSummary
<1>3. Summary(TRUE, l[1], Docs) \in Message
    BY <1>1, Computed
<1>4. l \in up /\ UNCHANGED <<Rest, queue, dirty>>
    BY DEF Tick, IdleEnd, Rest
<1>5. digests' \in [Devices -> [Docs -> SUBSET Updates]]
    BY <1>1, <1>2, CacheType
<1>6. QED
    BY <1>2, <1>3, <1>4, <1>5, Sending DEF Only

(* The documents of a summary that the reader has differently, and those of  *)
(* them it asks for.                                                         *)
Differing(l, m) ==
    {doc \in m.doc : IF Present(l[1], doc) THEN VersionOf(l[1], doc) # Part(m.vers, doc)
                     ELSE Accepts(l[1], doc)}

New(l, m) == {doc \in Differing(l, m) : wanted[l][doc] = "no"}

Announced(l, m) ==
    UNION {Part(m.vers, doc) : doc \in {x \in m.doc : Present(l[1], x) \/ Accepts(l[1], x)}}

ReadsSummary(l, m) ==
    /\ m.type \in {"Complete", "Partial"}
    /\ Takes(Message, wire[Other(l)], wire'[Other(l)], m)
    /\ \/ New(l, m) = {} /\ queue'[l] = queue[l]
       \/ New(l, m) # {} /\ Adds(Outbound, queue[l], queue'[l], WantItem(New(l, m)))
    /\ \A doc \in Docs : wanted'[l][doc] =
          IF doc \in New(l, m) THEN "asked"
          ELSE IF doc \in Differing(l, m) THEN "stale" ELSE wanted[l][doc]
    /\ \A k \in Ends \ {l} : wanted'[k] = wanted[k] /\ synced'[k] = synced[k] /\ due'[k] = due[k]
    /\ synced'[l] = IF m.type = "Complete" THEN Settled(l, Differing(l, m)) ELSE synced[l]
    /\ due'[l] = IF m.type = "Complete" THEN Announced(l, m) ELSE due[l]
    /\ Cache(l[1], m.doc)

(* read_loop: a summary is compared, and what differs is asked for. *)
LEMMA ReadSummaryEffect ==
    ASSUME TypeOK, NEW l \in Ends, ReadSummary(l)
    PROVE  /\ \E m \in Message : ReadsSummary(l, m)
           /\ Only(wire, wire', Message, {Other(l)}) /\ Only(queue, queue', Outbound, {l})
           /\ digests' \in [Devices -> [Docs -> SUBSET Updates]]
           /\ wanted' \in [Ends -> [Docs -> {"no", "asked", "stale"}]]
           /\ synced' \in [Ends -> BOOLEAN] /\ due' \in [Ends -> SUBSET Updates]
           /\ l \in up
           /\ UNCHANGED <<rows, changes, disk, mem, late, tx, fallen, up, dirty, silent, troubles, failed, overtaken>>
<1> DEFINE m == Incoming(l)
           d == l[1]
<1>1. d \in Devices /\ Other(l) \in Ends
    BY EndsFacts
<1>2. /\ wire[Other(l)] # << >> /\ m.type \in {"Complete", "Partial"} /\ l \in up
      /\ Consume(l)
      /\ UNCHANGED <<rows, changes, disk, mem, late, tx, fallen, up, dirty, silent, troubles, failed, overtaken>>
    BY DEF ReadSummary, Reads, Incoming
<1>3. Takes(Message, wire[Other(l)], wire'[Other(l)], m) /\ Only(wire, wire', Message, {Other(l)})
    BY <1>2, Consuming DEF Only
<1>4. m \in Message /\ m.doc \in SUBSET Docs /\ m.vers \subseteq Updates
    BY <1>3 DEF Takes, Message
<1>5. /\ wanted' = [wanted EXCEPT ![l] = [doc \in Docs |->
                       IF doc \in New(l, m) THEN "asked"
                       ELSE IF doc \in Differing(l, m) THEN "stale" ELSE @[doc]]]
      /\ IF New(l, m) = {} THEN UNCHANGED queue ELSE Enqueue(l, WantItem(New(l, m)))
      /\ Cache(d, m.doc)
      /\ synced' = [synced EXCEPT ![l] =
                      IF m.type = "Complete" THEN Settled(l, Differing(l, m)) ELSE @]
      /\ due' = [due EXCEPT ![l] = IF m.type = "Complete" THEN Announced(l, m) ELSE @]
    BY DEF ReadSummary, Incoming, New, Differing, Announced, WantItem
<1>6. New(l, m) \in SUBSET Docs
    BY <1>4 DEF New, Differing
<1>7. digests' \in [Devices -> [Docs -> SUBSET Updates]]
    BY <1>1, <1>4, <1>5, CacheType
<1>8. queue \in [Ends -> Seq(Outbound)]
    BY DEF TypeOK
<1>9. /\ \/ New(l, m) = {} /\ queue'[l] = queue[l]
         \/ New(l, m) # {} /\ Adds(Outbound, queue[l], queue'[l], WantItem(New(l, m)))
      /\ Only(queue, queue', Outbound, {l})
  <2>1. CASE New(l, m) = {}
      BY <1>5, <1>8, <2>1 DEF Only
  <2>2. CASE New(l, m) # {}
    <3>1. WantItem(New(l, m)) \in Outbound
        BY <1>6, Formed
    <3>2. queue' = [queue EXCEPT ![l] = Append(queue[l], WantItem(New(l, m)))]
        BY <1>5, <2>2 DEF Enqueue
    <3>3. /\ Adds(Outbound, queue[l], queue'[l], WantItem(New(l, m)))
          /\ queue' \in [Ends -> Seq(Outbound)]
          /\ \A k \in Ends \ {l} : queue'[k] = queue[k]
        BY <1>8, <3>1, <3>2, Queueing
    <3>4. QED
        BY <2>2, <3>3 DEF Only
  <2>3. QED
      BY <2>1, <2>2
<1>10. Announced(l, m) \in SUBSET Updates
  <2>1. \A doc : Part(m.vers, doc) \subseteq Updates
      BY <1>4 DEF Part
  <2>2. QED
      BY <2>1 DEF Announced
<1>11. Settled(l, Differing(l, m)) \in BOOLEAN
    BY DEF Settled
<1> HIDE DEF m
<1>12. /\ wanted' \in [Ends -> [Docs -> {"no", "asked", "stale"}]]
       /\ \A doc \in Docs : wanted'[l][doc] =
             IF doc \in New(l, m) THEN "asked"
             ELSE IF doc \in Differing(l, m) THEN "stale" ELSE wanted[l][doc]
       /\ \A k \in Ends \ {l} : wanted'[k] = wanted[k]
    BY <1>5 DEF TypeOK
<1>13. /\ synced' \in [Ends -> BOOLEAN] /\ due' \in [Ends -> SUBSET Updates]
       /\ \A k \in Ends \ {l} : synced'[k] = synced[k] /\ due'[k] = due[k]
       /\ synced'[l] = IF m.type = "Complete" THEN Settled(l, Differing(l, m)) ELSE synced[l]
       /\ due'[l] = IF m.type = "Complete" THEN Announced(l, m) ELSE due[l]
    BY <1>5, <1>10, <1>11 DEF TypeOK
<1>14. ReadsSummary(l, m)
    BY <1>2, <1>3, <1>5, <1>9, <1>12, <1>13 DEF ReadsSummary, m
<1>15. QED
    BY <1>2, <1>3, <1>4, <1>7, <1>9, <1>12, <1>13, <1>14

(* A Want becomes an item of the reader's own writer, and so does a request. *)
ReadsWant(l, m) ==
    /\ Takes(Message, wire[Other(l)], wire'[Other(l)], m)
    /\ \/ m.type = "Want" /\ Adds(Outbound, queue[l], queue'[l], ServeItem(m))
       \/ m.type = "RequestSummary" /\ Adds(Outbound, queue[l], queue'[l], SummaryItem)

(* read_loop: a request is queued to be served. *)
LEMMA ReadWantEffect ==
    ASSUME TypeOK, NEW l \in Ends, ReadWant(l) \/ ReadRequest(l)
    PROVE  /\ \E m \in Message : ReadsWant(l, m)
           /\ Only(wire, wire', Message, {Other(l)}) /\ Only(queue, queue', Outbound, {l})
           /\ l \in up
           /\ UNCHANGED <<store, up, dirty, wanted, synced, due, silent, troubles, failed, overtaken>>
<1> DEFINE m == Incoming(l)
<1>1. Other(l) \in Ends
    BY EndsFacts
<1>2. /\ wire[Other(l)] # << >> /\ l \in up /\ Consume(l)
      /\ UNCHANGED <<store, up, dirty, wanted, synced, due, silent, troubles, failed, overtaken>>
      /\ \/ m.type = "Want" /\ Enqueue(l, ServeItem(m))
         \/ m.type = "RequestSummary" /\ Enqueue(l, SummaryItem)
    BY DEF ReadWant, ReadRequest, Reads, Incoming
<1>3. Takes(Message, wire[Other(l)], wire'[Other(l)], m) /\ Only(wire, wire', Message, {Other(l)})
    BY <1>2, Consuming DEF Only
<1>4. m \in Message
    BY <1>3 DEF Takes
<1>5. queue \in [Ends -> Seq(Outbound)]
    BY DEF TypeOK
<1>6. ASSUME NEW x \in Outbound, Enqueue(l, x)
      PROVE  Adds(Outbound, queue[l], queue'[l], x) /\ Only(queue, queue', Outbound, {l})
  <2>1. queue' = [queue EXCEPT ![l] = Append(queue[l], x)]
      BY <1>6 DEF Enqueue
  <2>2. QED
      BY <1>5, <1>6, <2>1, Queueing DEF Only
<1>7. ServeItem(m) \in Outbound /\ SummaryItem \in Outbound
    BY <1>4, Formed
<1>8. QED
    BY <1>2, <1>3, <1>4, <1>6, <1>7 DEF ReadsWant

(* An answer: the request is over, unless it is repeated. *)
Answers(l, doc, q) ==
    /\ Takes(Message, wire[Other(l)], wire'[Other(l)], Incoming(l))
    /\ wanted'[l][doc] = IF wanted[l][doc] = "stale" THEN "asked" ELSE "no"
    /\ \A x \in Docs : x # doc => wanted'[l][x] = wanted[l][x]
    /\ \A k \in Ends \ {l} : wanted'[k] = wanted[k] /\ synced'[k] = synced[k]
    /\ synced'[l] <=> synced[l] \/ \A x \in Docs : wanted'[l][x] = "no"
    /\ \/ wanted[l][doc] # "stale" /\ queue'[l] = q[l]
       \/ wanted[l][doc] = "stale" /\ Adds(Outbound, q[l], queue'[l], WantItem({doc}))

(* read_loop: an answer ends its request, or repeats it when it is stale. *)
LEMMA AnsweredEffect ==
    ASSUME TypeOK, NEW l \in Ends, NEW doc \in Docs, NEW q \in [Ends -> Seq(Outbound)],
           wire[Other(l)] # << >>, Answered(l, doc, q)
    PROVE  /\ Answers(l, doc, q)
           /\ Only(wire, wire', Message, {Other(l)}) /\ Only(q, queue', Outbound, {l})
           /\ wanted' \in [Ends -> [Docs -> {"no", "asked", "stale"}]]
           /\ synced' \in [Ends -> BOOLEAN]
<1>1. Takes(Message, wire[Other(l)], wire'[Other(l)], Incoming(l))
      /\ Only(wire, wire', Message, {Other(l)})
    BY Consuming, EndsFacts DEF Answered, Only
<1>2. /\ wanted' = [wanted EXCEPT ![l][doc] = IF wanted[l][doc] = "stale" THEN "asked" ELSE "no"]
      /\ synced' = [synced EXCEPT ![l] = @ \/ \A x \in Docs : wanted'[l][x] = "no"]
      /\ queue' = IF wanted[l][doc] = "stale" THEN [q EXCEPT ![l] = Append(@, WantItem({doc}))]
                  ELSE q
    BY DEF Answered, WantItem
<1>3. /\ wanted' \in [Ends -> [Docs -> {"no", "asked", "stale"}]]
      /\ wanted'[l][doc] = IF wanted[l][doc] = "stale" THEN "asked" ELSE "no"
      /\ \A x \in Docs : x # doc => wanted'[l][x] = wanted[l][x]
      /\ \A k \in Ends \ {l} : wanted'[k] = wanted[k]
    BY <1>2 DEF TypeOK
<1> DEFINE done == \A x \in Docs : wanted'[l][x] = "no"
<1>4. synced' = [synced EXCEPT ![l] = synced[l] \/ done]
    BY <1>2
<1>5. (synced[l] \/ done) \in BOOLEAN
    OBVIOUS
<1> HIDE DEF done
<1>6. /\ synced' \in [Ends -> BOOLEAN]
      /\ synced'[l] = (synced[l] \/ done)
      /\ \A k \in Ends \ {l} : synced'[k] = synced[k]
    BY <1>4, <1>5 DEF TypeOK
<1>7. /\ Only(q, queue', Outbound, {l})
      /\ \/ wanted[l][doc] # "stale" /\ queue'[l] = q[l]
         \/ wanted[l][doc] = "stale" /\ Adds(Outbound, q[l], queue'[l], WantItem({doc}))
  <2>1. CASE wanted[l][doc] # "stale"
      BY <1>2, <2>1 DEF Only
  <2>2. CASE wanted[l][doc] = "stale"
    <3>1. WantItem({doc}) \in Outbound
        BY Formed
    <3>2. queue' = [q EXCEPT ![l] = Append(q[l], WantItem({doc}))]
        BY <1>2, <2>2
    <3>3. QED
        BY <2>2, <3>1, <3>2, Queueing DEF Only
  <2>3. QED
      BY <2>1, <2>2
<1>8. QED
    BY <1>1, <1>3, <1>6, <1>7 DEF Answers, done

(* Every link is asked for its summary. *)
LEMMA RefreshedEffect ==
    ASSUME TypeOK, NEW d \in Devices
    PROVE  /\ Refreshed(d) \in [Ends -> Seq(Outbound)]
           /\ \A l \in Ends : IF l \in up /\ l[1] = d
                              THEN Adds(Outbound, queue[l], Refreshed(d)[l], RequestSummary)
                              ELSE Refreshed(d)[l] = queue[l]
<1>1. queue \in [Ends -> Seq(Outbound)] /\ RequestSummary \in Outbound
    BY Formed DEF TypeOK
<1>2. ASSUME NEW l \in Ends
      PROVE  Adds(Outbound, queue[l], Append(queue[l], RequestSummary), RequestSummary)
    BY <1>1, Adding
<1>3. \A l \in Ends : Append(queue[l], RequestSummary) \in Seq(Outbound)
    BY <1>2 DEF Adds
<1>4. QED
    BY <1>1, <1>2, <1>3 DEF Refreshed

-----------------------------------------------------------------------------
(* What a store and its links always are.                                    *)

(* A transaction is of one document; only an import has a reader waiting.     *)
Sound(t) ==
    /\ t.kind = "none" => t = NoTx
    /\ t.kind # "none" => \E doc \in Facts : t.doc = {doc}
    /\ t.kind # "import" => t.from = {} /\ ~t.remote

(* Memory has all that is saved; what else it has will be saved by the        *)
(* transaction, unless one has failed.                                        *)
Stored(d) ==
    /\ disk[d] \subseteq mem[d]
    /\ fallen[d] = NoneFallen
         => mem[d] \subseteq disk[d] \cup (IF tx[d].save THEN tx[d].held ELSE {})
    /\ Sound(tx[d]) /\ \A i \in Slots : Sound(fallen[d][i])

(* The transactions of a device, those that failed included.                  *)
Begun(d) == {tx[d]} \cup {fallen[d][i] : i \in Slots}

(* An import is of the update that its reader has not consumed yet.           *)
Reading(d, t) ==
    \A e \in t.from :
        /\ <<d, e>> \in up
        /\ wire[<<e, d>>] # << >>
        /\ Head(wire[<<e, d>>]).type = "Update"
        /\ Head(wire[<<e, d>>]).doc = t.doc
        /\ Head(wire[<<e, d>>]).vers # {}
        /\ Head(wire[<<e, d>>]).vers \subseteq t.held

(* A reader waits for one import.                                             *)
Alone(d) ==
    /\ \A i \in Slots : tx[d].from \cap fallen[d][i].from = {}
    /\ \A i, j \in Slots : i # j => fallen[d][i].from \cap fallen[d][j].from = {}

Importing(d) == Alone(d) /\ \A t \in Begun(d) : Reading(d, t)

KeepInv ==
    /\ TypeOK
    /\ \A d \in Devices : Stored(d) /\ Importing(d)
    /\ \A l \in Ends : Shapes(l)

(* Nothing has begun where nothing is. *)
LEMMA Nothing ==
    /\ NoTx \in Tx /\ Sound(NoTx) /\ NoTx.kind = "none" /\ NoTx.doc = {} /\ NoTx.from = {}
    /\ NoTx.held = {} /\ NoTx.save = FALSE /\ NoTx.remote = FALSE /\ NoTx.local = FALSE
    /\ NoneFallen \in [Slots -> Tx] /\ \A i \in Slots : NoneFallen[i] = NoTx
    BY DEF NoTx, Tx, Sound, NoneFallen

(* What has begun is a transaction. *)
LEMMA BegunTyped ==
    ASSUME TypeOK, NEW d \in Devices, NEW t \in Begun(d)
    PROVE  t \in Tx /\ t.doc \subseteq Facts /\ t.from \subseteq Devices
<1>1. t \in Tx
    BY DEF Begun, TypeOK
<1>2. QED
    BY <1>1 DEF Tx

(* A step that leaves the store alone keeps what is said of it. *)
LEMMA StoredSame ==
    ASSUME \A d \in Devices : Stored(d), UNCHANGED <<disk, mem, tx, fallen>>
    PROVE  \A d \in Devices : Stored(d)'
    BY DEF Stored

(* An import goes on as long as its update is at the front. *)
LEMMA ImportGoesOn ==
    ASSUME NEW d \in Devices, Importing(d), tx'[d] = tx[d], fallen'[d] = fallen[d],
           \A t \in Begun(d) : \A e \in t.from :
              /\ <<d, e>> \in up'
              /\ wire'[<<e, d>>] # << >> /\ Head(wire'[<<e, d>>]) = Head(wire[<<e, d>>])
    PROVE  Importing(d)'
<1>1. Begun(d)' = Begun(d) /\ Alone(d)'
    BY DEF Begun, Importing, Alone
<1>2. \A t \in Begun(d) : Reading(d, t)'
    BY DEF Importing, Reading
<1>3. QED
    BY <1>1, <1>2 DEF Importing

(* The end an import reads from. *)
LEMMA ImportEnd ==
    ASSUME TypeOK, NEW d \in Devices, Importing(d), NEW t \in Begun(d), NEW e \in t.from
    PROVE  /\ <<d, e>> \in Ends /\ <<e, d>> \in Ends /\ Other(<<d, e>>) = <<e, d>>
           /\ <<d, e>> \in up /\ wire[<<e, d>>] # << >>
<1>1. <<d, e>> \in Ends /\ <<d, e>> \in up /\ wire[<<e, d>>] # << >>
    BY DEF Importing, Reading, TypeOK
<1>2. Other(<<d, e>>) = <<e, d>>
    BY DEF Other
<1>3. QED
    BY <1>1, <1>2, EndsFacts

(* Sending leaves the front of every wire where it is. *)
LEMMA ImportsWhileSending ==
    ASSUME KeepInv, NEW l \in Ends, UNCHANGED <<tx, fallen, up>>, Only(wire, wire', Message, {l}),
           wire'[l] = wire[l] \/ \E m : Adds(Message, wire[l], wire'[l], m)
    PROVE  \A d \in Devices : Importing(d)'
<1> TAKE d \in Devices
<1>1. TypeOK /\ Importing(d)
    BY DEF KeepInv
<1>2. ASSUME NEW t \in Begun(d), NEW e \in t.from
      PROVE  /\ <<d, e>> \in up'
             /\ wire'[<<e, d>>] # << >> /\ Head(wire'[<<e, d>>]) = Head(wire[<<e, d>>])
  <2>1. <<e, d>> \in Ends /\ <<d, e>> \in up /\ wire[<<e, d>>] # << >>
      BY <1>1, ImportEnd
  <2>2. CASE <<e, d>> = l
      BY <2>1, <2>2 DEF Adds
  <2>3. CASE <<e, d>> # l
      BY <2>1, <2>3 DEF Only
  <2>4. QED
      BY <2>2, <2>3
<1>3. QED
    BY <1>1, <1>2, ImportGoesOn

(* Reading anything else than the update of the import does, too. *)
LEMMA ImportsWhileReading ==
    ASSUME KeepInv, NEW l \in Ends, UNCHANGED <<tx, fallen, up>>, NEW d \in Devices,
           Only(wire, wire', Message, {Other(l)}),
           \A t \in Begun(d) :
              l[1] = d /\ l[2] \in t.from
                => Incoming(l).type # "Update" \/ Incoming(l).vers = {} \/ Incoming(l).doc # t.doc
    PROVE  Importing(d)'
<1>1. TypeOK /\ Importing(d)
    BY DEF KeepInv
<1>2. ASSUME NEW t \in Begun(d), NEW e \in t.from
      PROVE  /\ <<d, e>> \in up'
             /\ wire'[<<e, d>>] # << >> /\ Head(wire'[<<e, d>>]) = Head(wire[<<e, d>>])
  <2>1. /\ <<e, d>> \in Ends /\ <<d, e>> \in Ends /\ <<d, e>> \in up /\ wire[<<e, d>>] # << >>
        /\ Other(<<d, e>>) = <<e, d>> /\ Other(<<e, d>>) = <<d, e>>
      BY <1>1, ImportEnd, EndsFacts
  <2>2. CASE <<e, d>> = Other(l)
    <3>1. l = <<d, e>>
        BY <2>1, <2>2, EndsFacts
    <3>2. l[1] = d /\ l[2] = e
        BY <3>1
    <3>3. Incoming(l) = Head(wire[<<e, d>>])
        BY <2>2 DEF Incoming
    <3>4. QED
        BY <1>1, <3>2, <3>3 DEF Importing, Reading
  <2>3. CASE <<e, d>> # Other(l)
      BY <2>1, <2>3 DEF Only
  <2>4. QED
      BY <2>2, <2>3
<1>3. QED
    BY <1>1, <1>2, ImportGoesOn

(* What the writer sends of a document is what memory has of it. *)
Says(l, m) ==
    /\ m.type = "Update" => \E doc \in Docs : m.doc = {doc} /\ m.vers \subseteq Part(mem[l[1]], doc)
    /\ m.type \in {"Want", "Update"} => OneDoc(m)

LEMMA WriterSays ==
    ASSUME TypeOK, NEW l \in Ends, Shapes(l), WriteQueued(l)
    PROVE  \E m \in Message : Adds(Message, wire[l], wire'[l], m) /\ Says(l, m)
<1>1. l[1] \in Devices
    BY EndsFacts
<1>2. PICK item \in Outbound : WritesItem(l, item)
    BY WriteQueuedEffect
<1>3. CASE item.type = "Complete"
  <2>1. Adds(Message, wire[l], wire'[l], Summary(TRUE, l[1], Docs))
      BY <1>2, <1>3 DEF WritesItem
  <2>2. Summary(TRUE, l[1], Docs).type = "Complete"
      BY SummaryParts
  <2>3. QED
      BY <2>1, <2>2 DEF Adds, Says
<1>4. CASE item.type = "RequestSummary"
  <2>1. Adds(Message, wire[l], wire'[l], RequestSummary)
      BY <1>2, <1>4 DEF WritesItem
  <2>2. QED
      BY <2>1, Formed DEF Adds, Says
<1>5. CASE item.type = "Want"
  <2>1. PICK doc \in Docs : Adds(Message, wire[l], wire'[l], Want(doc, VersionOf(l[1], doc)))
      BY <1>2, <1>5 DEF WritesItem
  <2>2. VersionOf(l[1], doc) \in SUBSET Updates
      BY <1>1, Computed
  <2>3. QED
      BY <2>1, <2>2, Formed DEF Adds, OneDoc, Says
<1>6. CASE item.type = "Serve"
  <2>1. PICK doc \in Docs : Adds(Message, wire[l], wire'[l],
                                 Update(doc, Part(mem[l[1]], doc) \ item.vers))
      BY <1>2, <1>6 DEF WritesItem
  <2>2. Part(mem[l[1]], doc) \ item.vers \in SUBSET Updates
      BY <1>1, Computed
  <2> DEFINE m == Update(doc, Part(mem[l[1]], doc) \ item.vers)
  <2>3. /\ m.type = "Update" /\ m.doc = {doc}
        /\ m.vers = Part(mem[l[1]], doc) \ item.vers
      BY <2>2, Formed
  <2>4. m \in Message /\ Adds(Message, wire[l], wire'[l], m)
      BY <2>1 DEF Adds
  <2> HIDE DEF m
  <2>5. QED
      BY <2>3, <2>4 DEF OneDoc, Says
<1>7. QED
    BY <1>2, <1>3, <1>4, <1>5, <1>6 DEF WritesItem

(* The writer keeps all of it. *)
LEMMA KeepWriteQueued ==
    ASSUME KeepInv, NEW l \in Ends, WriteQueued(l)
    PROVE  KeepInv'
<1>1. TypeOK /\ Shapes(l) /\ l[1] \in Devices
    BY EndsFacts DEF KeepInv
<1>2. PICK item \in Outbound : item \in Queued(l) /\ WritesItem(l, item)
    BY <1>1, WriteQueuedEffect
<1>3. /\ Only(wire, wire', Message, {l}) /\ Only(queue, queue', Outbound, {l})
      /\ digests' \in [Devices -> [Docs -> SUBSET Updates]]
      /\ l \in up /\ UNCHANGED <<Rest, dirty>>
    BY <1>1, WriteQueuedEffect
<1>4. TypeOK'
    BY <1>1, <1>3 DEF TypeOK, Only, Rest
<1>7. PICK m \in Message : /\ Adds(Message, wire[l], wire'[l], m)
                           /\ m.type \in {"Want", "Update"} => OneDoc(m)
    BY <1>1, WriterSays DEF Says
<1>8. Sent(l)' = Sent(l) \cup {m} /\ \A k \in Ends \ {l} : Sent(k)' = Sent(k)
    BY <1>3, <1>7 DEF Sent, Adds, Only
<1>9. \A x \in Queued(l)' : x.type = "Serve" => x \in Queued(l)
    BY <1>2 DEF WritesItem, Takes, Swaps, Queued
<1>10. \A k \in Ends \ {l} : Queued(k)' = Queued(k)
    BY <1>3 DEF Queued, Only
<1>12. \A k \in Ends : Shapes(k)'
  <2> TAKE k \in Ends
  <2>1. Shapes(k)
      BY DEF KeepInv
  <2>2. QED
      BY <2>1, <1>7, <1>8, <1>9, <1>10 DEF Shapes, OneDoc
<1>13. \A d \in Devices : Importing(d)'
    BY <1>3, <1>7, ImportsWhileSending DEF Rest
<1>14. \A d \in Devices : Stored(d)'
    BY <1>3, StoredSame DEF KeepInv, Rest
<1>15. QED
    BY <1>4, <1>12, <1>13, <1>14 DEF KeepInv

(* Announcing keeps it: a summary carries no update. *)
LEMMA KeepAnnouncing ==
    ASSUME KeepInv, NEW l \in Ends, WriteDirty(l) \/ Tick(l)
    PROVE  KeepInv'
<1>1. TypeOK
    BY DEF KeepInv
<1>2. /\ \/ wire' = wire
         \/ \E c \in BOOLEAN : \E docs : Adds(Message, wire[l], wire'[l], Summary(c, l[1], docs))
      /\ Only(wire, wire', Message, {l})
      /\ digests' \in [Devices -> [Docs -> SUBSET Updates]]
      /\ dirty' \in [Ends -> SUBSET Docs] /\ \A k \in Ends : dirty'[k] \subseteq dirty[k]
      /\ l \in up /\ UNCHANGED <<Rest, queue>>
  <2>1. CASE WriteDirty(l)
    <3>1. dirty' = [dirty EXCEPT ![l] = {}] /\ dirty \in [Ends -> SUBSET Docs]
        BY <1>1, <2>1, WriteDirtyEffect DEF TypeOK
    <3>2. dirty' \in [Ends -> SUBSET Docs] /\ \A k \in Ends : dirty'[k] \subseteq dirty[k]
        BY <3>1
    <3>3. QED
        BY <1>1, <2>1, <3>2, WriteDirtyEffect
  <2>2. CASE Tick(l)
    <3>1. dirty' = dirty /\ dirty \in [Ends -> SUBSET Docs]
        BY <1>1, <2>2, TickEffect DEF TypeOK
    <3>2. QED
        BY <1>1, <2>2, <3>1, TickEffect
  <2>3. QED
      BY <2>1, <2>2
<1>3. TypeOK'
    BY <1>1, <1>2 DEF TypeOK, Only, Rest
<1>5. \A k \in Ends : \A x \in Sent(k)' : x.type \in {"Want", "Update"} => x \in Sent(k)
  <2>1. CASE wire' = wire
      BY <2>1 DEF Sent
  <2>2. CASE \E c \in BOOLEAN : \E docs : Adds(Message, wire[l], wire'[l], Summary(c, l[1], docs))
    <3>1. PICK c, docs : c \in BOOLEAN /\ Adds(Message, wire[l], wire'[l], Summary(c, l[1], docs))
        BY <2>2
    <3>2. Summary(c, l[1], docs).type \in {"Complete", "Partial"}
        BY SummaryParts
    <3>3. QED
        BY <1>2, <3>1, <3>2 DEF Sent, Adds, Only
  <2>3. QED
      BY <1>2, <2>1, <2>2
<1>6. \A k \in Ends : Queued(k)' = Queued(k)
    BY <1>2 DEF Queued
<1>8. \A k \in Ends : Shapes(k)'
  <2> TAKE k \in Ends
  <2>1. Shapes(k)
      BY DEF KeepInv
  <2>2. QED
      BY <2>1, <1>5, <1>6 DEF Shapes, OneDoc
<1>9. \A d \in Devices : Importing(d)'
    BY <1>2, ImportsWhileSending DEF Rest
<1>10. \A d \in Devices : Stored(d)'
    BY <1>2, StoredSame DEF KeepInv, Rest
<1>11. QED
    BY <1>3, <1>8, <1>9, <1>10 DEF KeepInv

(* Reading what is no update keeps it. *)
LEMMA KeepReadOther ==
    ASSUME KeepInv, NEW l \in Ends, ReadSummary(l) \/ ReadWant(l) \/ ReadRequest(l)
    PROVE  KeepInv'
<1>1. TypeOK /\ Other(l) \in Ends /\ Other(l) # l /\ Shapes(l) /\ Shapes(Other(l))
    BY EndsFacts DEF KeepInv
<1>2. /\ \E m \in Message :
           /\ Takes(Message, wire[Other(l)], wire'[Other(l)], m)
           /\ m.type \in {"Complete", "Partial", "Want", "RequestSummary"}
           /\ \/ queue'[l] = queue[l]
              \/ \E x \in Outbound : /\ Adds(Outbound, queue[l], queue'[l], x)
                                     /\ x.type = "Serve" => m.type = "Want" /\ x.doc = m.doc
      /\ Only(wire, wire', Message, {Other(l)}) /\ Only(queue, queue', Outbound, {l})
      /\ digests' \in [Devices -> [Docs -> SUBSET Updates]]
      /\ wanted' \in [Ends -> [Docs -> {"no", "asked", "stale"}]]
      /\ synced' \in [Ends -> BOOLEAN] /\ due' \in [Ends -> SUBSET Updates]
      /\ l \in up
      /\ UNCHANGED <<rows, changes, disk, mem, late, tx, fallen, up, dirty, silent, troubles, failed, overtaken>>
  <2>1. CASE ReadSummary(l)
    <3>1. PICK m \in Message : ReadsSummary(l, m)
        BY <1>1, <2>1, ReadSummaryEffect
    <3>2. New(l, m) \in SUBSET Docs
        BY <3>1 DEF New, Differing, Message
    <3>3. WantItem(New(l, m)) \in Outbound /\ WantItem(New(l, m)).type = "Want"
        BY <3>2, Formed
    <3>4. /\ Takes(Message, wire[Other(l)], wire'[Other(l)], m)
          /\ m.type \in {"Complete", "Partial"}
          /\ \/ queue'[l] = queue[l]
             \/ Adds(Outbound, queue[l], queue'[l], WantItem(New(l, m)))
        BY <3>1 DEF ReadsSummary
    <3>5. QED
        BY <1>1, <2>1, <3>3, <3>4, ReadSummaryEffect
  <2>2. CASE ReadWant(l) \/ ReadRequest(l)
    <3>1. PICK m \in Message : ReadsWant(l, m)
        BY <1>1, <2>2, ReadWantEffect
    <3>2. /\ ServeItem(m) \in Outbound /\ ServeItem(m).doc = m.doc
          /\ SummaryItem \in Outbound /\ SummaryItem.type = "Complete"
        BY Formed
    <3>3. /\ Takes(Message, wire[Other(l)], wire'[Other(l)], m)
          /\ \/ m.type = "Want" /\ Adds(Outbound, queue[l], queue'[l], ServeItem(m))
             \/ m.type = "RequestSummary" /\ Adds(Outbound, queue[l], queue'[l], SummaryItem)
        BY <3>1 DEF ReadsWant
    <3>4. /\ Only(wire, wire', Message, {Other(l)}) /\ Only(queue, queue', Outbound, {l})
          /\ l \in up
          /\ UNCHANGED <<store, up, dirty, wanted, synced, due, silent, troubles, failed, overtaken>>
        BY <1>1, <2>2, ReadWantEffect
    <3>5. UNCHANGED <<digests, wanted, synced, due>>
        BY <3>4 DEF store
    <3>6. QED
        BY <1>1, <3>2, <3>3, <3>4, <3>5 DEF TypeOK, store
  <2>3. QED
      BY <2>1, <2>2
<1>3. PICK m \in Message :
        /\ Takes(Message, wire[Other(l)], wire'[Other(l)], m)
        /\ m.type \in {"Complete", "Partial", "Want", "RequestSummary"}
        /\ \/ queue'[l] = queue[l]
           \/ \E x \in Outbound : /\ Adds(Outbound, queue[l], queue'[l], x)
                                  /\ x.type = "Serve" => m.type = "Want" /\ x.doc = m.doc
    BY <1>2
<1>4. Other(l) \in up
    BY <1>1, <1>3 DEF TypeOK, Takes
<1>5. TypeOK'
    BY <1>1, <1>2, <1>4 DEF TypeOK, Only
<1>7. \A k \in Ends : Sent(k)' \subseteq Sent(k)
    BY <1>1, <1>2, <1>3 DEF Sent, Takes, Only
<1>8. m \in Sent(Other(l))
    BY <1>3 DEF Takes, Sent
<1>10. ASSUME NEW k \in Ends
       PROVE  Shapes(k)'
  <2>1. Shapes(k)
      BY DEF KeepInv
  <2>2. \A x \in Queued(k)' : x.type = "Serve" => OneDoc(x)
    <3>1. CASE k # l \/ queue'[l] = queue[l]
      <4>1. queue'[k] = queue[k]
          BY <1>2, <3>1 DEF Only
      <4>2. QED
          BY <2>1, <4>1 DEF Shapes, Queued
    <3>2. CASE k = l /\ queue'[l] # queue[l]
      <4>1. PICK x \in Outbound : /\ Adds(Outbound, queue[l], queue'[l], x)
                                  /\ x.type = "Serve" => m.type = "Want" /\ x.doc = m.doc
          BY <1>3, <3>2
      <4>2. x.type = "Serve" => OneDoc(x)
          BY <1>1, <1>8, <4>1 DEF Shapes, OneDoc
      <4>3. QED
          BY <2>1, <3>2, <4>1, <4>2 DEF Shapes, Queued, Adds
    <3>3. QED
        BY <3>1, <3>2
  <2>3. QED
      BY <1>7, <2>1, <2>2 DEF Shapes, OneDoc
<1>11. Incoming(l) = m
    BY <1>3 DEF Takes, Incoming
<1>12. \A d \in Devices : Importing(d)'
  <2> TAKE d \in Devices
  <2>1. Incoming(l).type # "Update" /\ UNCHANGED <<tx, fallen, up>>
      BY <1>2, <1>3, <1>11
  <2>2. QED
      BY <1>2, <2>1, ImportsWhileReading
<1>13. \A d \in Devices : Stored(d)'
    BY <1>2, StoredSame DEF KeepInv
<1>14. QED
    BY <1>5, <1>10, <1>12, <1>13 DEF KeepInv

(* An answer is consumed: what is on the wire gets less, and no item is an    *)
(* answer's.                                                                  *)
LEMMA AnswerLinks ==
    ASSUME KeepInv, NEW l \in Ends, NEW doc \in Docs, NEW q \in [Ends -> Seq(Outbound)],
           wire[Other(l)] # << >>, l \in up, Answered(l, doc, q),
           \A k \in Ends \ up : q[k] = << >>,
           \A k \in Ends : \A x \in Range(q[k]) : x.type = "Serve" => x \in Queued(k)
    PROVE  /\ queue' \in [Ends -> Seq(Outbound)] /\ wire' \in [Ends -> Seq(Message)]
           /\ wanted' \in [Ends -> [Docs -> {"no", "asked", "stale"}]]
           /\ synced' \in [Ends -> BOOLEAN]
           /\ \A k \in Ends \ up : queue'[k] = << >> /\ wire'[k] = << >>
           /\ \A k \in Ends : Sent(k)' \subseteq Sent(k) /\ Shapes(k)'
           /\ Other(l) \in Ends /\ Incoming(l) \in Sent(Other(l)) /\ Incoming(l) \in Message
           /\ Only(wire, wire', Message, {Other(l)})
<1>1. TypeOK /\ Other(l) \in Ends /\ Other(l) # l
    BY EndsFacts DEF KeepInv
<1>2. /\ Answers(l, doc, q)
      /\ Only(wire, wire', Message, {Other(l)}) /\ Only(q, queue', Outbound, {l})
      /\ wanted' \in [Ends -> [Docs -> {"no", "asked", "stale"}]]
      /\ synced' \in [Ends -> BOOLEAN]
    BY <1>1, AnsweredEffect
<1>3. Takes(Message, wire[Other(l)], wire'[Other(l)], Incoming(l))
    BY <1>2 DEF Answers
<1>4. Other(l) \in up
    BY <1>1 DEF TypeOK
<1>5. \A k \in Ends \ up : queue'[k] = << >> /\ wire'[k] = << >>
    BY <1>1, <1>2, <1>4 DEF Only, TypeOK
<1>6. \A k \in Ends : Sent(k)' \subseteq Sent(k)
    BY <1>1, <1>2, <1>3 DEF Sent, Takes, Only
<1>7. \A k \in Ends : \A x \in Queued(k)' : x.type = "Serve" => x \in Queued(k)
  <2>1. WantItem({doc}).type = "Want"
      BY Formed
  <2>2. QED
      BY <1>2, <2>1 DEF Answers, Adds, Only, Queued
<1>8. \A k \in Ends : Shapes(k)'
    BY <1>6, <1>7 DEF Shapes, OneDoc, KeepInv
<1>9. QED
    BY <1>1, <1>2, <1>3, <1>5, <1>6, <1>8 DEF Only, Takes, Sent

(* An empty answer keeps it. *)
LEMMA KeepReadEmpty ==
    ASSUME KeepInv, NEW l \in Ends, ReadEmpty(l)
    PROVE  KeepInv'
<1>1. TypeOK /\ Other(l) \in Ends
    BY EndsFacts DEF KeepInv
<1>2. PICK doc \in Incoming(l).doc : Answered(l, doc, queue)
    BY DEF ReadEmpty
<1>3. /\ wire[Other(l)] # << >> /\ l \in up /\ Incoming(l).vers = {}
      /\ UNCHANGED <<rows, changes, disk, mem, digests, late, tx, fallen, up, dirty, due, silent, troubles, failed, overtaken>>
    BY DEF ReadEmpty, Reads, store
<1>4. Incoming(l) \in Message
    BY <1>1, <1>3, TailRange DEF Incoming, TypeOK
<1>5. doc \in Docs
    BY <1>2, <1>4 DEF Message
<1>6. queue \in [Ends -> Seq(Outbound)] /\ \A k \in Ends \ up : queue[k] = << >>
    BY <1>1 DEF TypeOK
<1>7. /\ queue' \in [Ends -> Seq(Outbound)] /\ wire' \in [Ends -> Seq(Message)]
      /\ wanted' \in [Ends -> [Docs -> {"no", "asked", "stale"}]]
      /\ synced' \in [Ends -> BOOLEAN]
      /\ \A k \in Ends \ up : queue'[k] = << >> /\ wire'[k] = << >>
      /\ \A k \in Ends : Sent(k)' \subseteq Sent(k) /\ Shapes(k)'
      /\ Only(wire, wire', Message, {Other(l)})
    BY <1>2, <1>3, <1>5, <1>6, AnswerLinks DEF Queued
<1>8. TypeOK'
    BY <1>1, <1>3, <1>7 DEF TypeOK
<1>11. \A d \in Devices : Importing(d)'
  <2> TAKE d \in Devices
  <2>1. UNCHANGED <<tx, fallen, up>>
      BY <1>3
  <2>2. QED
      BY <1>3, <1>7, <2>1, ImportsWhileReading
<1>12. \A d \in Devices : Stored(d)'
    BY <1>3, StoredSame DEF KeepInv
<1>13. QED
    BY <1>7, <1>8, <1>11, <1>12 DEF KeepInv

-----------------------------------------------------------------------------
(* The steps of a store.                                                     *)

(* The store of a device is left alone. *)
Same(e) ==
    /\ rows'[e] = rows[e] /\ changes'[e] = changes[e] /\ disk'[e] = disk[e]
    /\ mem'[e] = mem[e] /\ tx'[e] = tx[e] /\ fallen'[e] = fallen[e]

(* A step of one device keeps the invariant when it keeps that device's part  *)
(* of it and touches no wire to another.                                      *)
LEMMA KeepStore ==
    ASSUME KeepInv, NEW d \in Devices, TypeOK',
           \A e \in Devices \ {d} : Same(e),
           Stored(d)', Importing(d)',
           up' = up, \A k \in Ends : k[2] # d => wire'[k] = wire[k],
           \A k \in Ends : Shapes(k)'
    PROVE  KeepInv'
<1>1. TypeOK
    BY DEF KeepInv
<1>2. ASSUME NEW e \in Devices \ {d}
      PROVE  Stored(e)' /\ Importing(e)'
  <2>1. Same(e) /\ Stored(e) /\ Importing(e)
      BY <1>2 DEF KeepInv
  <2>2. Stored(e)'
      BY <2>1 DEF Stored, Same
  <2>3. ASSUME NEW t \in Begun(e), NEW x \in t.from
        PROVE  /\ <<e, x>> \in up'
               /\ wire'[<<x, e>>] # << >> /\ Head(wire'[<<x, e>>]) = Head(wire[<<x, e>>])
    <3>1. <<x, e>> \in Ends /\ <<e, x>> \in up /\ wire[<<x, e>>] # << >>
        BY <1>1, <2>1, ImportEnd
    <3>2. wire'[<<x, e>>] = wire[<<x, e>>]
        BY <1>2, <3>1
    <3>3. QED
        BY <3>1, <3>2
  <2>4. Importing(e)'
      BY <2>1, <2>3, ImportGoesOn DEF Same
  <2>5. QED
      BY <2>2, <2>4
<1>3. QED
    BY <1>2 DEF KeepInv

(* The same, when no link is touched. *)
LEMMA KeepStoreOnly ==
    ASSUME KeepInv, NEW d \in Devices, TypeOK',
           \A e \in Devices \ {d} : Same(e),
           Stored(d)', Importing(d)',
           UNCHANGED <<up, wire, queue>>
    PROVE  KeepInv'
<1>1. \A k \in Ends : Shapes(k)'
    BY DEF Sent, Shapes, Queued, OneDoc, KeepInv
<1>2. QED
    BY <1>1, KeepStore

(* What is saved and what is in memory are the same but for a transaction. *)
LEMMA Saved ==
    ASSUME KeepInv, NEW d \in Devices, \A e \in Devices \ {d} : Same(e), Stored(d)'
    PROVE  \A e \in Devices : tx'[e] = NoTx /\ fallen'[e] = NoneFallen => mem'[e] = disk'[e]
<1>1. \A e \in Devices : tx[e] = NoTx /\ fallen[e] = NoneFallen => mem[e] = disk[e]
    BY DEF KeepInv, TypeOK
<1>2. tx'[d] = NoTx /\ fallen'[d] = NoneFallen => mem'[d] = disk'[d]
    BY Nothing DEF Stored
<1>3. QED
    BY <1>1, <1>2 DEF Same

(* An import goes on when nothing happens to it. *)
LEMMA ImportsStay ==
    ASSUME NEW d \in Devices, Importing(d), tx'[d] = tx[d], fallen'[d] = fallen[d],
           UNCHANGED <<up, wire>>
    PROVE  Importing(d)'
<1>1. Begun(d)' = Begun(d) /\ Alone(d)'
    BY DEF Begun, Importing, Alone
<1>2. \A t \in Begun(d) : Reading(d, t)'
    BY DEF Importing, Reading
<1>3. QED
    BY <1>1, <1>2 DEF Importing

(* Another transaction takes the gate, for a reader that has none. *)
LEMMA ImportsBegin ==
    ASSUME NEW d \in Devices, Importing(d), NEW t, tx'[d] = t, fallen'[d] = fallen[d],
           UNCHANGED <<up, wire>>, Reading(d, t),
           \A i \in Slots : t.from \cap fallen[d][i].from = {}
    PROVE  Importing(d)'
<1>1. Alone(d)'
    BY DEF Importing, Alone
<1>2. \A s \in Begun(d)' : s = t \/ s \in Begun(d)
    BY DEF Begun
<1>3. \A s \in Begun(d)' : Reading(d, s)
    BY <1>2 DEF Importing
<1>4. \A s \in Begun(d)' : Reading(d, s)'
    BY <1>3 DEF Reading
<1>5. QED
    BY <1>1, <1>4 DEF Importing

(* The documents told to a link are documents, and a link that is down has    *)
(* none of them.                                                              *)
LEMMA FanOutType ==
    ASSUME TypeOK, NEW d \in Devices, NEW docs \in SUBSET Docs, NEW except
    PROVE  /\ FanOut(d, docs, except) \in [Ends -> SUBSET Docs]
           /\ \A l \in Ends \ up : FanOut(d, docs, except)[l] = {}
    BY DEF FanOut, TypeOK

(* An edit keeps it: a note goes to memory and to the disk.                   *)
LEMMA KeepLocalEdit ==
    ASSUME KeepInv, SyncAssumption, NEW u \in Updates, LocalEdit(u)
    PROVE  KeepInv'
<1> DEFINE d == Maker[u]
           doc == DocOf[u]
<1>1. TypeOK /\ Stored(d) /\ Importing(d) /\ d \in Devices /\ doc \in Docs
    BY DEF KeepInv, SyncAssumption
<1>2. /\ rows' = [rows EXCEPT ![d] = @ \cup {u}]
      /\ IF doc \in Notes
         THEN /\ mem' = [mem EXCEPT ![d] = @ \cup {u}]
              /\ disk' = [disk EXCEPT ![d] = @ \cup {u}]
              /\ dirty' = FanOut(d, {doc}, {})
              /\ UNCHANGED changes
         ELSE changes' = [changes EXCEPT ![d] = @ \cup {doc}] /\ UNCHANGED <<mem, disk, dirty>>
      /\ UNCHANGED <<digests, late, tx, fallen, up, queue, wanted, wire, synced, due, silent,
                     troubles, failed, overtaken>>
    BY DEF LocalEdit
<1>3. doc \in Notes \/ doc \in Facts
    BY <1>1 DEF Facts
<1> HIDE DEF d, doc
<1>4. /\ rows' \in [Devices -> SUBSET Updates] /\ changes' \in [Devices -> SUBSET Facts]
      /\ disk' \in [Devices -> SUBSET Updates] /\ mem' \in [Devices -> SUBSET Updates]
      /\ dirty' \in [Ends -> SUBSET Docs] /\ \A l \in Ends \ up : dirty'[l] = {}
  <2>1. {doc} \in SUBSET Docs
      BY <1>1
  <2>2. /\ FanOut(d, {doc}, {}) \in [Ends -> SUBSET Docs]
        /\ \A l \in Ends \ up : FanOut(d, {doc}, {})[l] = {}
      BY <1>1, <2>1, FanOutType
  <2>3. rows' \in [Devices -> SUBSET Updates]
      BY <1>1, <1>2 DEF TypeOK
  <2>4. CASE doc \in Notes
    <3>1. mem' = [mem EXCEPT ![d] = @ \cup {u}] /\ disk' = [disk EXCEPT ![d] = @ \cup {u}]
          /\ dirty' = FanOut(d, {doc}, {}) /\ UNCHANGED changes
        BY <1>2, <2>4
    <3>2. QED
        BY <1>1, <2>2, <2>3, <3>1 DEF TypeOK
  <2>5. CASE doc \in Facts
    <3>1. changes' = [changes EXCEPT ![d] = @ \cup {doc}] /\ UNCHANGED <<mem, disk, dirty>>
        BY <1>2, <2>5 DEF Facts
    <3>2. QED
        BY <1>1, <2>3, <2>5, <3>1 DEF TypeOK
  <2>6. QED
      BY <1>3, <2>4, <2>5
<1>5. \A e \in Devices \ {d} : Same(e)
    BY <1>1, <1>2 DEF Same, TypeOK
<1>6. \/ mem'[d] = mem[d] \cup {u} /\ disk'[d] = disk[d] \cup {u}
      \/ mem'[d] = mem[d] /\ disk'[d] = disk[d]
    BY <1>1, <1>2 DEF TypeOK
<1>7. Stored(d)'
    BY <1>1, <1>2, <1>6 DEF Stored
<1>8. TypeOK'
  <2>1. \A e \in Devices : tx'[e] = NoTx /\ fallen'[e] = NoneFallen => mem'[e] = disk'[e]
      BY <1>1, <1>5, <1>7, Saved
  <2>2. QED
      BY <1>1, <1>2, <1>4, <2>1 DEF TypeOK
<1>9. Importing(d)'
    BY <1>1, <1>2, ImportsStay
<1>10. QED
    BY <1>1, <1>2, <1>5, <1>7, <1>8, <1>9, KeepStoreOnly

(* What an export writes is updates. *)
LEMMA WrittenType ==
    ASSUME TypeOK, NEW d \in Devices, NEW doc
    PROVE  /\ Written(d, doc) \in SUBSET Updates /\ Pending(d, doc) \in SUBSET Updates
           /\ Part(mem[d], doc) \in SUBSET Updates /\ Part(disk[d], doc) \in SUBSET Updates
<1>1. Reversals \subseteq Updates
    BY SyncAssumption DEF SyncAssumption
<1>2. rows[d] \subseteq Updates
    BY DEF TypeOK
<1>3. QED
    BY <1>1, <1>2 DEF Written, Pending, Part, Of

(* An export takes what it writes into memory. *)
LEMMA KeepBeginExport ==
    ASSUME KeepInv, NEW d \in Devices, NEW doc \in Facts, BeginExport(d, doc)
    PROVE  KeepInv'
<1> DEFINE held == Part(mem[d], doc) \cup Written(d, doc)
           t == [NoTx EXCEPT !.kind = "export", !.doc = {doc}, !.held = held,
                             !.save = held # Part(mem[d], doc)]
<1>1. TypeOK /\ Stored(d) /\ Importing(d)
    BY DEF KeepInv
<1>2. /\ tx[d] = NoTx
      /\ mem' = [mem EXCEPT ![d] = @ \cup held]
      /\ tx' = [tx EXCEPT ![d] = t]
      /\ overtaken' = (overtaken \/ Unsaved(d, doc))
      /\ UNCHANGED <<rows, changes, disk, digests, late, fallen, links, silent, troubles, failed>>
    BY DEF BeginExport
<1>3. UNCHANGED <<up, queue, dirty, wanted, wire, synced, due>>
    BY <1>2 DEF links
<1>4. held \in SUBSET Updates
    BY <1>1, WrittenType
<1>5. /\ t \in Tx /\ t.kind = "export" /\ t.doc = {doc} /\ t.from = {} /\ t.held = held
      /\ ~t.remote /\ t.save = (held # Part(mem[d], doc))
    BY <1>4 DEF Tx, NoTx
<1>6. Sound(t) /\ t # NoTx
    BY <1>5, Nothing DEF Sound
<1>7. ~t.save => held \subseteq mem[d]
    BY <1>5 DEF Part
<1> HIDE DEF t, held
<1>8. mem'[d] = mem[d] \cup held /\ tx'[d] = t
    BY <1>1, <1>2 DEF TypeOK
<1>9. \A e \in Devices \ {d} : Same(e)
    BY <1>1, <1>2 DEF Same, TypeOK
<1>10. Stored(d)'
    BY <1>1, <1>2, <1>5, <1>6, <1>7, <1>8, Nothing DEF Stored
<1>11. TypeOK'
  <2>1. \A e \in Devices : tx'[e] = NoTx /\ fallen'[e] = NoneFallen => mem'[e] = disk'[e]
      BY <1>9, <1>10, Saved
  <2>2. mem' \in [Devices -> SUBSET Updates] /\ tx' \in [Devices -> Tx]
      BY <1>1, <1>2, <1>4, <1>5 DEF TypeOK
  <2>3. overtaken' \in BOOLEAN
      BY <1>2
  <2>4. QED
      BY <1>1, <1>2, <1>3, <2>1, <2>2, <2>3 DEF TypeOK
<1>12. Importing(d)'
  <2>1. Reading(d, t) /\ \A i \in Slots : t.from \cap fallen[d][i].from = {}
      BY <1>5 DEF Reading
  <2>2. QED
      BY <1>1, <1>2, <1>3, <1>8, <2>1, ImportsBegin
<1>13. QED
    BY <1>3, <1>9, <1>10, <1>11, <1>12, KeepStoreOnly

(* Saving: disk and memory get what the transaction holds.                    *)
LEMMA SaveEffect ==
    ASSUME KeepInv, NEW d \in Devices, Save(d), tx' = [tx EXCEPT ![d] = NoTx], UNCHANGED fallen
    PROVE  /\ disk' \in [Devices -> SUBSET Updates] /\ mem' \in [Devices -> SUBSET Updates]
           /\ digests' \in [Devices -> [Docs -> SUBSET Updates]] /\ tx' \in [Devices -> Tx]
           /\ tx'[d] = NoTx /\ Stored(d)' /\ (fallen[d] = NoneFallen => mem'[d] = disk'[d])
           /\ \A e \in Devices \ {d} : /\ mem'[e] = mem[e] /\ disk'[e] = disk[e]
                                       /\ tx'[e] = tx[e] /\ digests'[e] = digests[e]
           /\ \/ /\ tx[d].save /\ mem'[d] = mem[d] \cup tx[d].held
                 /\ disk'[d] = disk[d] \cup tx[d].held
                 /\ \A doc \in Docs : digests'[d][doc] =
                                        IF doc \in tx[d].doc THEN {} ELSE digests[d][doc]
              \/ ~tx[d].save /\ mem'[d] = mem[d] /\ disk'[d] = disk[d] /\ digests'[d] = digests[d]
<1>1. TypeOK /\ Stored(d) /\ tx[d].held \subseteq Updates
  <2>1. TypeOK /\ Stored(d) /\ tx[d] \in Tx
      BY DEF KeepInv, TypeOK
  <2>2. QED
      BY <2>1 DEF Tx
<1>2. CASE tx[d].save
  <2>1. /\ disk' = [disk EXCEPT ![d] = @ \cup tx[d].held]
        /\ mem' = [mem EXCEPT ![d] = @ \cup tx[d].held]
        /\ digests' = [digests EXCEPT ![d] =
                         [doc \in Docs |-> IF doc \in tx[d].doc THEN {} ELSE @[doc]]]
      BY <1>2 DEF Save
  <2>2. /\ disk' \in [Devices -> SUBSET Updates] /\ mem' \in [Devices -> SUBSET Updates]
        /\ tx' \in [Devices -> Tx] /\ tx'[d] = NoTx
        /\ mem'[d] = mem[d] \cup tx[d].held /\ disk'[d] = disk[d] \cup tx[d].held
        /\ \A e \in Devices \ {d} : mem'[e] = mem[e] /\ disk'[e] = disk[e] /\ tx'[e] = tx[e]
      BY <1>1, <2>1, Nothing DEF TypeOK
  <2>3. /\ digests' \in [Devices -> [Docs -> SUBSET Updates]]
        /\ \A e \in Devices \ {d} : digests'[e] = digests[e]
        /\ \A doc \in Docs : digests'[d][doc] = IF doc \in tx[d].doc THEN {} ELSE digests[d][doc]
      BY <1>1, <2>1 DEF TypeOK
  <2>4. Stored(d)' /\ (fallen[d] = NoneFallen => mem'[d] = disk'[d])
      BY <1>1, <1>2, <2>2, Nothing DEF Stored
  <2>5. QED
      BY <1>2, <2>2, <2>3, <2>4
<1>3. CASE ~tx[d].save
  <2>1. UNCHANGED <<disk, mem, digests>>
      BY <1>3 DEF Save
  <2>2. tx' \in [Devices -> Tx] /\ tx'[d] = NoTx /\ \A e \in Devices \ {d} : tx'[e] = tx[e]
      BY <1>1, Nothing DEF TypeOK
  <2>3. Stored(d)' /\ (fallen[d] = NoneFallen => mem'[d] = disk'[d])
      BY <1>1, <1>3, <2>1, <2>2, Nothing DEF Stored
  <2>4. QED
      BY <1>1, <1>3, <2>1, <2>2, <2>3 DEF TypeOK
<1>4. QED
    BY <1>2, <1>3

(* The commit saves what the export holds. *)
LEMMA KeepCommitExport ==
    ASSUME KeepInv, NEW d \in Devices, CommitExport(d)
    PROVE  KeepInv'
<1>1. TypeOK /\ Stored(d) /\ Importing(d)
    BY DEF KeepInv
<1>2. /\ changes' = [changes EXCEPT ![d] = @ \ tx[d].doc]
      /\ Save(d)
      /\ dirty' = FanOut(d, IF tx[d].save THEN tx[d].doc ELSE {}, {})
      /\ tx' = [tx EXCEPT ![d] = NoTx]
      /\ UNCHANGED <<rows, late, fallen, up, queue, wanted, wire, synced, due, silent, troubles,
                     failed, overtaken>>
    BY DEF CommitExport
<1>3. /\ disk' \in [Devices -> SUBSET Updates] /\ mem' \in [Devices -> SUBSET Updates]
      /\ digests' \in [Devices -> [Docs -> SUBSET Updates]] /\ tx' \in [Devices -> Tx]
      /\ tx'[d] = NoTx /\ Stored(d)'
      /\ \A e \in Devices \ {d} : mem'[e] = mem[e] /\ disk'[e] = disk[e] /\ tx'[e] = tx[e]
    BY <1>2, SaveEffect
<1>4. dirty' \in [Ends -> SUBSET Docs] /\ \A l \in Ends \ up : dirty'[l] = {}
  <2>1. tx[d].doc \subseteq Docs
      BY <1>1, BegunTyped DEF Begun, Facts
  <2>2. (IF tx[d].save THEN tx[d].doc ELSE {}) \in SUBSET Docs
      BY <2>1
  <2>3. QED
      BY <1>1, <1>2, <2>2, FanOutType
<1>5. \A e \in Devices \ {d} : Same(e)
    BY <1>1, <1>2, <1>3 DEF Same, TypeOK
<1>6. TypeOK'
  <2>1. \A e \in Devices : tx'[e] = NoTx /\ fallen'[e] = NoneFallen => mem'[e] = disk'[e]
      BY <1>3, <1>5, Saved
  <2>2. changes' \in [Devices -> SUBSET Facts]
      BY <1>1, <1>2 DEF TypeOK
  <2>3. QED
      BY <1>1, <1>2, <1>3, <1>4, <2>1, <2>2 DEF TypeOK
<1>7. Importing(d)'
  <2>1. Reading(d, NoTx) /\ \A i \in Slots : NoTx.from \cap fallen[d][i].from = {}
      BY Nothing DEF Reading
  <2>2. QED
      BY <1>1, <1>2, <1>3, <2>1, ImportsBegin
<1>8. QED
    BY <1>2, <1>3, <1>5, <1>6, <1>7, KeepStoreOnly

(* A bounded number of troubles, each with its slot. *)
LEMMA TroubleType ==
    ASSUME TypeOK, SyncAssumption, NEW kind, Trouble(kind)
    PROVE  troubles' \in 0..MaxTroubles /\ troubles' \in Slots
    BY DEF TypeOK, SyncAssumption, Trouble, Slots

(* A transaction that is rolled back falls as it is. *)
LEMMA KeepRollBack ==
    ASSUME KeepInv, SyncAssumption, NEW d \in Devices, RollBack(d)
    PROVE  KeepInv'
<1>1. TypeOK /\ Stored(d) /\ Importing(d) /\ tx[d] \in Tx
    BY DEF KeepInv, TypeOK
<1> DEFINE n == troubles'
<1>2. /\ tx[d] # NoTx /\ failed' = TRUE /\ Trouble("fail")
      /\ fallen' = [fallen EXCEPT ![d][n] = tx[d]]
      /\ tx' = [tx EXCEPT ![d] = NoTx]
      /\ UNCHANGED <<rows, changes, disk, mem, digests, late, links, silent, overtaken>>
    BY DEF RollBack
<1>3. UNCHANGED <<up, queue, dirty, wanted, wire, synced, due>>
    BY <1>2 DEF links
<1>4. n \in 0..MaxTroubles /\ n \in Slots
    BY <1>1, <1>2, TroubleType
<1> HIDE DEF n
<1>5. /\ fallen' \in [Devices -> [Slots -> Tx]] /\ tx' \in [Devices -> Tx]
      /\ tx'[d] = NoTx /\ fallen'[d] = [fallen[d] EXCEPT ![n] = tx[d]]
      /\ fallen'[d][n] = tx[d] /\ \A i \in Slots \ {n} : fallen'[d][i] = fallen[d][i]
      /\ \A e \in Devices \ {d} : tx'[e] = tx[e] /\ fallen'[e] = fallen[e]
    BY <1>1, <1>2, <1>4, Nothing DEF TypeOK
<1>6. \A e \in Devices \ {d} : Same(e)
    BY <1>2, <1>5 DEF Same
<1>7. Stored(d)'
  <2>1. fallen'[d] # NoneFallen
      BY <1>2, <1>4, <1>5, Nothing
  <2>2. \A i \in Slots : Sound(fallen'[d][i])
      BY <1>1, <1>5 DEF Stored
  <2>3. QED
      BY <1>1, <1>2, <1>5, <2>1, <2>2, Nothing DEF Stored
<1>8. TypeOK'
  <2>1. \A e \in Devices : tx'[e] = NoTx /\ fallen'[e] = NoneFallen => mem'[e] = disk'[e]
      BY <1>6, <1>7, Saved
  <2>2. QED
      BY <1>1, <1>2, <1>3, <1>4, <1>5, <2>1 DEF TypeOK, n
<1>9. Importing(d)'
  <2>1. Alone(d)'
    <3>1. \A i \in Slots : tx'[d].from \cap fallen'[d][i].from = {}
        BY <1>5, Nothing
    <3>2. \A i, j \in Slots : i # j => fallen'[d][i].from \cap fallen'[d][j].from = {}
        BY <1>1, <1>5 DEF Importing, Alone
    <3>3. QED
        BY <3>1, <3>2 DEF Alone
  <2>2. \A s \in Begun(d)' : s = NoTx \/ s \in Begun(d)
      BY <1>5 DEF Begun
  <2>3. \A s \in Begun(d)' : Reading(d, s)
      BY <1>1, <2>2, Nothing DEF Importing, Reading
  <2>4. \A s \in Begun(d)' : Reading(d, s)'
      BY <1>3, <2>3 DEF Reading
  <2>5. QED
      BY <2>1, <2>4 DEF Importing
<1>10. QED
    BY <1>3, <1>6, <1>7, <1>8, <1>9, KeepStoreOnly

(* A version is read and cached. *)
LEMMA KeepVersions ==
    ASSUME KeepInv, SyncAssumption, NEW d \in Devices, NEW doc \in Facts,
           ReadVersion(d, doc) \/ CacheVersion(d, doc)
    PROVE  KeepInv'
<1>1. TypeOK /\ Stored(d) /\ Importing(d) /\ doc \in Docs
    BY DEF KeepInv, Facts
<1>2. /\ UNCHANGED <<rows, changes, disk, mem, tx, fallen, links>>
      /\ failed' = failed /\ overtaken' = overtaken
    BY DEF ReadVersion, CacheVersion
<1>3. UNCHANGED <<up, queue, dirty, wanted, wire, synced, due>>
    BY <1>2 DEF links
<1>4. /\ late' \in [Devices -> [Docs -> SUBSET Updates]]
      /\ digests' \in [Devices -> [Docs -> SUBSET Updates]]
      /\ silent' \subseteq Devices \X Docs /\ troubles' \in 0..MaxTroubles
  <2>1. CASE ReadVersion(d, doc)
    <3>1. Part(mem[d], doc) \subseteq Updates
        BY DEF Part, Of
    <3>2. troubles' \in 0..MaxTroubles
        BY <1>1, <2>1, TroubleType DEF ReadVersion
    <3>3. QED
        BY <1>1, <2>1, <3>1, <3>2 DEF ReadVersion, TypeOK
  <2>2. CASE CacheVersion(d, doc)
    <3>1. UNCHANGED troubles
        BY <2>2 DEF CacheVersion
    <3>2. silent' \subseteq Devices \X Docs
        BY <1>1, <2>2 DEF CacheVersion, TypeOK
    <3>3. QED
        BY <1>1, <2>2, <3>1, <3>2 DEF CacheVersion, TypeOK
  <2>3. QED
      BY <2>1, <2>2
<1>5. TypeOK'
    BY <1>1, <1>2, <1>3, <1>4 DEF TypeOK
<1>6. Stored(d)' /\ \A e \in Devices \ {d} : Same(e)
    BY <1>1, <1>2 DEF Stored, Same
<1>7. Importing(d)'
    BY <1>1, <1>2, <1>3, ImportsStay
<1>8. QED
    BY <1>3, <1>5, <1>6, <1>7, KeepStoreOnly

(* An import puts what waits to be exported and the update into the document. *)
LEMMA KeepBeginImport ==
    ASSUME KeepInv, NEW l \in Ends, BeginImport(l)
    PROVE  KeepInv'
<1> DEFINE d == l[1]
           m == Incoming(l)
<1>1. /\ TypeOK /\ Stored(d) /\ Importing(d) /\ d \in Devices /\ Other(l) \in Ends
      /\ Shapes(Other(l)) /\ Other(l) = <<l[2], l[1]>> /\ <<d, l[2]>> = l /\ l[2] \in Devices
    BY EndsFacts DEF KeepInv, Other
<1>2. /\ wire[Other(l)] # << >> /\ m.type = "Update" /\ m.vers # {} /\ l \in up /\ tx[d] = NoTx
      /\ \A i \in Slots : l[2] \notin fallen[d][i].from
      /\ UNCHANGED <<rows, changes, disk, digests, late, fallen, links, silent, troubles, failed>>
    BY DEF BeginImport, Reads, Incoming
<1>3. UNCHANGED <<up, queue, dirty, wanted, wire, synced, due>>
    BY <1>2 DEF links
<1>4. m \in Message /\ m \in Sent(Other(l))
    BY <1>1, <1>2, TailRange DEF Incoming, TypeOK, Sent
<1>5. m.vers \subseteq Updates /\ OneDoc(m)
    BY <1>1, <1>2, <1>4 DEF Message, Shapes
<1>6. PICK doc \in m.doc \cap Facts :
         LET exported == Part(mem[d], doc) \cup Pending(d, doc)
         IN /\ \E base \in Found(d, doc, exported) :
                 LET held == base \cup m.vers
                     remote == ~(m.vers \subseteq base)
                 IN /\ mem' = [mem EXCEPT ![d] = (@ \ Of(doc)) \cup held]
                    /\ tx' = [tx EXCEPT ![d] =
                         [kind |-> "import", doc |-> {doc}, from |-> {l[2]},
                          local |-> doc \in changes[d], remote |-> remote, held |-> held,
                          save |-> remote \/ exported # Part(mem[d], doc)]]
            /\ overtaken' = (overtaken \/ (doc \in changes[d] /\ Unsaved(d, doc)))
    BY DEF BeginImport
<1> DEFINE exported == Part(mem[d], doc) \cup Pending(d, doc)
<1>7. PICK base \in Found(d, doc, exported) :
         /\ mem' = [mem EXCEPT ![d] = (@ \ Of(doc)) \cup (base \cup m.vers)]
         /\ tx' = [tx EXCEPT ![d] =
              [kind |-> "import", doc |-> {doc}, from |-> {l[2]},
               local |-> doc \in changes[d], remote |-> ~(m.vers \subseteq base),
               held |-> base \cup m.vers,
               save |-> ~(m.vers \subseteq base) \/ exported # Part(mem[d], doc)]]
    BY <1>6
<1> DEFINE held == base \cup m.vers
           t == [kind |-> "import", doc |-> {doc}, from |-> {l[2]},
                 local |-> doc \in changes[d], remote |-> ~(m.vers \subseteq base), held |-> held,
                 save |-> ~(m.vers \subseteq base) \/ exported # Part(mem[d], doc)]
<1>8. base \in SUBSET Updates /\ Part(disk[d], doc) \subseteq base
      /\ (fallen[d] = NoneFallen => base = exported)
  <2>1. exported \in SUBSET Updates /\ Part(disk[d], doc) \in SUBSET Updates
      BY <1>1, WrittenType
  <2>2. Part(disk[d], doc) \subseteq exported
      BY <1>1 DEF Stored, Part
  <2>3. base = exported \/ (base = Part(disk[d], doc) /\ fallen[d] # NoneFallen)
      BY <1>7 DEF Found
  <2>4. QED
      BY <2>1, <2>2, <2>3
<1>9. /\ t \in Tx /\ t.kind = "import" /\ t.doc = {doc} /\ t.from = {l[2]} /\ t.held = held
      /\ t.save = (~(m.vers \subseteq base) \/ exported # Part(mem[d], doc))
    BY <1>1, <1>5, <1>6, <1>8 DEF Tx
<1>10. Sound(t) /\ t # NoTx
    BY <1>6, <1>9, Nothing DEF Sound
<1>11. tx' = [tx EXCEPT ![d] = t] /\ mem' = [mem EXCEPT ![d] = (@ \ Of(doc)) \cup held]
    BY <1>7
<1>12. m.doc = {doc}
    BY <1>5, <1>6 DEF OneDoc
<1>13. fallen[d] = NoneFallen /\ ~t.save => held = Part(mem[d], doc)
    BY <1>8, <1>9
<1>14. fallen[d] = NoneFallen => Part(mem[d], doc) \subseteq held
    BY <1>8
<1>15. m.vers \subseteq held /\ held \in SUBSET Updates /\ Part(disk[d], doc) \subseteq held
    BY <1>5, <1>8
<1>16. overtaken' \in BOOLEAN
    BY <1>1, <1>6 DEF TypeOK
<1> HIDE DEF t, m, held, exported
<1>17. mem'[d] = (mem[d] \ Of(doc)) \cup held /\ tx'[d] = t
       /\ mem' \in [Devices -> SUBSET Updates] /\ tx' \in [Devices -> Tx]
       /\ \A e \in Devices \ {d} : mem'[e] = mem[e] /\ tx'[e] = tx[e]
    BY <1>1, <1>9, <1>11, <1>15 DEF TypeOK
<1>18. \A e \in Devices \ {d} : Same(e)
    BY <1>2, <1>17 DEF Same
<1>19. Stored(d)'
  <2>1. disk[d] \subseteq mem'[d]
      BY <1>1, <1>15, <1>17 DEF Stored, Part
  <2>2. ASSUME fallen[d] = NoneFallen
        PROVE  mem'[d] \subseteq disk[d] \cup (IF t.save THEN t.held ELSE {})
    <3>1. mem[d] \subseteq disk[d]
        BY <1>1, <1>2, <2>2, Nothing DEF Stored
    <3>2. CASE t.save
        BY <1>9, <1>17, <3>1, <3>2
    <3>3. CASE ~t.save
        BY <1>13, <1>17, <2>2, <3>1, <3>3 DEF Part
    <3>4. QED
        BY <3>2, <3>3
  <2>3. QED
      BY <1>1, <1>2, <1>10, <1>17, <2>1, <2>2 DEF Stored
<1>20. TypeOK'
  <2>1. \A e \in Devices : tx'[e] = NoTx /\ fallen'[e] = NoneFallen => mem'[e] = disk'[e]
      BY <1>1, <1>18, <1>19, Saved
  <2>2. QED
      BY <1>1, <1>2, <1>3, <1>16, <1>17, <2>1 DEF TypeOK
<1>21. Importing(d)'
  <2>1. Head(wire[<<l[2], d>>]) = m
      BY <1>1 DEF m, Incoming
  <2>2. Reading(d, t)
      BY <1>1, <1>2, <1>9, <1>12, <1>15, <2>1 DEF Reading
  <2>3. \A i \in Slots : t.from \cap fallen[d][i].from = {}
      BY <1>2, <1>9
  <2>4. QED
      BY <1>1, <1>2, <1>3, <1>17, <2>2, <2>3, ImportsBegin
<1>22. QED
    BY <1>1, <1>3, <1>18, <1>19, <1>20, <1>21, KeepStoreOnly

(* A request for a summary changes no answer, and no end that is down.        *)
LEMMA RefreshedLinks ==
    ASSUME TypeOK, NEW d \in Devices, NEW q, q = queue \/ q = Refreshed(d)
    PROVE  /\ q \in [Ends -> Seq(Outbound)]
           /\ \A k \in Ends \ up : q[k] = << >>
           /\ \A k \in Ends : \A x \in Range(q[k]) : x.type = "Serve" => x \in Queued(k)
<1>1. /\ Refreshed(d) \in [Ends -> Seq(Outbound)]
      /\ \A l \in Ends : IF l \in up /\ l[1] = d
                         THEN Adds(Outbound, queue[l], Refreshed(d)[l], RequestSummary)
                         ELSE Refreshed(d)[l] = queue[l]
    BY RefreshedEffect
<1>2. queue \in [Ends -> Seq(Outbound)] /\ \A k \in Ends \ up : queue[k] = << >>
    BY DEF TypeOK
<1>3. RequestSummary.type = "RequestSummary"
    BY Formed
<1>4. CASE q = queue
    BY <1>2, <1>4 DEF Queued
<1>5. CASE q = Refreshed(d)
  <2>1. \A k \in Ends \ up : q[k] = << >>
      BY <1>1, <1>2, <1>5
  <2>2. \A k \in Ends : \A x \in Range(q[k]) : x.type = "Serve" => x \in Queued(k)
      BY <1>1, <1>3, <1>5 DEF Adds, Queued
  <2>3. QED
      BY <1>1, <1>5, <2>1, <2>2
<1>6. QED
    BY <1>4, <1>5

(* A note is merged into the open document, or refused, or lost.              *)
LEMMA KeepReadNote ==
    ASSUME KeepInv, SyncAssumption, NEW l \in Ends, ReadNote(l)
    PROVE  KeepInv'
<1> DEFINE d == l[1]
           m == Incoming(l)
<1>1. /\ TypeOK /\ Stored(d) /\ d \in Devices /\ Other(l) \in Ends /\ Shapes(Other(l))
      /\ Importing(d) /\ Other(l)[2] = d
    BY EndsFacts DEF KeepInv
<1>2. PICK doc \in m.doc \cap Notes :
        /\ Answered(l, doc, queue)
        /\ \/ /\ mem' = [mem EXCEPT ![d] = @ \cup m.vers]
              /\ disk' = [disk EXCEPT ![d] = @ \cup m.vers]
              /\ rows' = [rows EXCEPT ![d] = @ \cup m.vers]
              /\ dirty' = IF m.vers \subseteq mem[d] THEN dirty ELSE FanOut(d, {doc}, {l[2]})
              /\ UNCHANGED <<troubles, failed>>
           \/ UNCHANGED <<mem, disk, rows, dirty, troubles, failed>>
           \/ Trouble("fail") /\ failed' = TRUE /\ UNCHANGED <<mem, disk, rows, dirty>>
    BY DEF ReadNote
<1>3. /\ wire[Other(l)] # << >> /\ l \in up /\ m.type = "Update"
      /\ UNCHANGED <<changes, digests, late, tx, fallen, up, due, silent, overtaken>>
    BY DEF ReadNote, Reads, Incoming
<1>4. m \in Message /\ m \in Sent(Other(l))
    BY <1>1, <1>3, TailRange DEF Incoming, TypeOK, Sent
<1>5. doc \in Docs /\ doc \notin Facts /\ m.vers \subseteq Updates
    BY <1>2, <1>4 DEF Message, Facts
<1>6. queue \in [Ends -> Seq(Outbound)] /\ \A k \in Ends \ up : queue[k] = << >>
    BY <1>1 DEF TypeOK
<1>7. /\ queue' \in [Ends -> Seq(Outbound)] /\ wire' \in [Ends -> Seq(Message)]
      /\ wanted' \in [Ends -> [Docs -> {"no", "asked", "stale"}]]
      /\ synced' \in [Ends -> BOOLEAN]
      /\ \A k \in Ends \ up : queue'[k] = << >> /\ wire'[k] = << >>
      /\ \A k \in Ends : Shapes(k)'
      /\ Only(wire, wire', Message, {Other(l)})
    BY <1>2, <1>3, <1>5, <1>6, AnswerLinks DEF Queued
<1> HIDE DEF d, m
<1>8. \/ /\ mem' = [mem EXCEPT ![d] = @ \cup m.vers]
         /\ disk' = [disk EXCEPT ![d] = @ \cup m.vers]
         /\ rows' = [rows EXCEPT ![d] = @ \cup m.vers]
      \/ UNCHANGED <<mem, disk, rows>>
    BY <1>2
<1>9. dirty' \in [Ends -> SUBSET Docs] /\ \A k \in Ends \ up : dirty'[k] = {}
  <2>1. {doc} \in SUBSET Docs
      BY <1>5
  <2>2. /\ FanOut(d, {doc}, {l[2]}) \in [Ends -> SUBSET Docs]
        /\ \A k \in Ends \ up : FanOut(d, {doc}, {l[2]})[k] = {}
      BY <1>1, <2>1, FanOutType
  <2>3. dirty \in [Ends -> SUBSET Docs] /\ \A k \in Ends \ up : dirty[k] = {}
      BY <1>1 DEF TypeOK
  <2>4. dirty' = dirty \/ dirty' = FanOut(d, {doc}, {l[2]})
      BY <1>2
  <2>5. QED
      BY <2>2, <2>3, <2>4
<1>10. troubles' \in 0..MaxTroubles /\ failed' \in BOOLEAN
    BY <1>1, <1>2, TroubleType DEF TypeOK
<1>11. /\ \A e \in Devices \ {d} : Same(e)
       /\ \/ mem'[d] = mem[d] /\ disk'[d] = disk[d]
          \/ mem'[d] = mem[d] \cup m.vers /\ disk'[d] = disk[d] \cup m.vers
       /\ rows' \in [Devices -> SUBSET Updates] /\ disk' \in [Devices -> SUBSET Updates]
       /\ mem' \in [Devices -> SUBSET Updates]
  <2>1. CASE UNCHANGED <<mem, disk, rows>>
      BY <1>1, <1>3, <2>1 DEF Same, TypeOK
  <2>2. CASE /\ mem' = [mem EXCEPT ![d] = @ \cup m.vers]
             /\ disk' = [disk EXCEPT ![d] = @ \cup m.vers]
             /\ rows' = [rows EXCEPT ![d] = @ \cup m.vers]
      BY <1>1, <1>3, <1>5, <2>2 DEF Same, TypeOK
  <2>3. QED
      BY <1>8, <2>1, <2>2
<1>12. Stored(d)'
    BY <1>1, <1>3, <1>11 DEF Stored
<1>13. TypeOK'
  <2>1. \A e \in Devices : tx'[e] = NoTx /\ fallen'[e] = NoneFallen => mem'[e] = disk'[e]
      BY <1>1, <1>11, <1>12, Saved
  <2>2. QED
      BY <1>1, <1>3, <1>7, <1>9, <1>10, <1>11, <2>1 DEF TypeOK
<1>14. Importing(d)'
  <2>1. OneDoc(m)
      BY <1>1, <1>3, <1>4 DEF Shapes
  <2>2. m.doc = {doc}
      BY <1>2, <2>1 DEF OneDoc, m
  <2>3. \A t \in Begun(d) : m.doc # t.doc
      BY <1>1, <1>5, <2>2, BegunTyped
  <2>4. QED
      BY <1>1, <1>3, <1>7, <2>3, ImportsWhileReading DEF m, d
<1>15. \A k \in Ends : k[2] # d => wire'[k] = wire[k]
    BY <1>1, <1>7 DEF Only
<1>16. QED
    BY <1>1, <1>3, <1>7, <1>11, <1>12, <1>13, <1>14, <1>15, KeepStore

(* The end of a transaction: its reader consumes the update, if it is still    *)
(* there, and no other import was of that.                                    *)
LEMMA ImportOver ==
    ASSUME KeepInv, NEW d \in Devices, NEW t \in Begun(d), NEW doc \in t.doc,
           NEW q, q = queue \/ q = Refreshed(d), UNCHANGED up,
           \/ t.from = {} /\ queue' = q /\ UNCHANGED <<wire, wanted, synced>>
           \/ \E e \in t.from : Answered(<<d, e>>, doc, q)
    PROVE  /\ doc \in Facts /\ t.doc = {doc}
           /\ queue' \in [Ends -> Seq(Outbound)] /\ wire' \in [Ends -> Seq(Message)]
           /\ wanted' \in [Ends -> [Docs -> {"no", "asked", "stale"}]]
           /\ synced' \in [Ends -> BOOLEAN]
           /\ \A k \in Ends \ up : queue'[k] = << >> /\ wire'[k] = << >>
           /\ \A k \in Ends : Sent(k)' \subseteq Sent(k) /\ Shapes(k)'
           /\ \A k \in Ends : k[2] # d => wire'[k] = wire[k]
           /\ \A s \in Begun(d) : s.from \cap t.from = {} => Reading(d, s)'
<1>1. TypeOK /\ Stored(d) /\ Importing(d)
    BY DEF KeepInv
<1>2. doc \in Facts /\ t.doc = {doc} /\ doc \in Docs
  <2>1. Sound(t)
      BY <1>1 DEF Stored, Begun
  <2>2. QED
      BY <2>1, Nothing DEF Sound, Facts
<1>3. /\ q \in [Ends -> Seq(Outbound)]
      /\ \A k \in Ends \ up : q[k] = << >>
      /\ \A k \in Ends : \A x \in Range(q[k]) : x.type = "Serve" => x \in Queued(k)
    BY <1>1, RefreshedLinks
<1>4. CASE queue' = q /\ UNCHANGED <<wire, wanted, synced>>
  <2>1. \A k \in Ends : Sent(k)' = Sent(k)
      BY <1>4 DEF Sent
  <2>2. \A k \in Ends : \A x \in Queued(k)' : x.type = "Serve" => x \in Queued(k)
      BY <1>3, <1>4 DEF Queued
  <2>3. \A k \in Ends : Shapes(k)'
      BY <2>1, <2>2 DEF Shapes, OneDoc, KeepInv
  <2>4. \A s \in Begun(d) : Reading(d, s)'
      BY <1>1, <1>4 DEF Importing, Reading
  <2>5. QED
      BY <1>1, <1>2, <1>3, <1>4, <2>1, <2>3, <2>4 DEF TypeOK
<1>5. ASSUME NEW e \in t.from, Answered(<<d, e>>, doc, q)
      PROVE  /\ queue' \in [Ends -> Seq(Outbound)] /\ wire' \in [Ends -> Seq(Message)]
             /\ wanted' \in [Ends -> [Docs -> {"no", "asked", "stale"}]]
             /\ synced' \in [Ends -> BOOLEAN]
             /\ \A k \in Ends \ up : queue'[k] = << >> /\ wire'[k] = << >>
             /\ \A k \in Ends : Sent(k)' \subseteq Sent(k) /\ Shapes(k)'
             /\ \A k \in Ends : k[2] # d => wire'[k] = wire[k]
             /\ \A s \in Begun(d) : s.from \cap t.from = {} => Reading(d, s)'
  <2>1. <<d, e>> \in Ends /\ <<d, e>> \in up /\ wire[Other(<<d, e>>)] # << >>
        /\ Other(<<d, e>>) = <<e, d>>
      BY <1>1, <1>5, ImportEnd
  <2>2. /\ queue' \in [Ends -> Seq(Outbound)] /\ wire' \in [Ends -> Seq(Message)]
        /\ wanted' \in [Ends -> [Docs -> {"no", "asked", "stale"}]]
        /\ synced' \in [Ends -> BOOLEAN]
        /\ \A k \in Ends \ up : queue'[k] = << >> /\ wire'[k] = << >>
        /\ \A k \in Ends : Sent(k)' \subseteq Sent(k) /\ Shapes(k)'
        /\ Only(wire, wire', Message, {<<e, d>>})
      BY <1>2, <1>3, <1>5, <2>1, AnswerLinks
  <2>3. \A k \in Ends : k # <<e, d>> => wire'[k] = wire[k]
      BY <2>2 DEF Only
  <2>4. \A k \in Ends : k[2] # d => wire'[k] = wire[k]
    <3>1. <<e, d>>[2] = d
        OBVIOUS
    <3>2. QED
        BY <2>3, <3>1
  <2>5. ASSUME NEW s \in Begun(d), s.from \cap t.from = {}
        PROVE  Reading(d, s)'
    <3>1. ASSUME NEW x \in s.from
          PROVE  wire'[<<x, d>>] = wire[<<x, d>>]
      <4>1. <<x, d>> \in Ends /\ x # e
          BY <1>1, <1>5, <2>5, <3>1, ImportEnd
      <4>2. <<x, d>> # <<e, d>>
          BY <4>1
      <4>3. QED
          BY <2>3, <4>1, <4>2
    <3>2. QED
        BY <1>1, <3>1 DEF Importing, Reading
  <2>6. QED
      BY <2>2, <2>4, <2>5
<1>6. QED
    BY <1>2, <1>4, <1>5

(* What an import does to the rows and to its links. *)
LEMMA KeepCommitImport ==
    ASSUME KeepInv, NEW d \in Devices, CommitImport(d)
    PROVE  KeepInv'
<1>1. TypeOK /\ Stored(d) /\ Importing(d) /\ tx[d] \in Begun(d) /\ tx[d] \in Tx
    BY DEF KeepInv, CommitImport, Begun, TypeOK
<1>2. /\ Save(d) /\ tx' = [tx EXCEPT ![d] = NoTx]
      /\ UNCHANGED <<late, fallen, up, due, troubles, failed, overtaken>>
    BY DEF CommitImport
<1>3. PICK doc \in tx[d].doc :
        LET created == tx[d].remote /\ Part(rows[d], doc) = {}
            refreshed == IF created THEN Refreshed(d) ELSE queue
        IN /\ rows' = IF tx[d].remote
                      THEN [rows EXCEPT ![d] = (@ \ Of(doc)) \cup Shown(tx[d].held)] ELSE rows
           /\ changes' = [changes EXCEPT ![d] =
                            IF tx[d].local \/ tx[d].remote THEN @ \ {doc} ELSE @]
           /\ silent' = IF tx[d].local \/ (tx[d].remote /\ tx[d].from = {})
                        THEN silent \cup {<<d, doc>>} ELSE silent
           /\ \/ /\ tx[d].from = {}
                 /\ queue' = refreshed
                 /\ UNCHANGED <<wire, wanted, synced, dirty>>
              \/ \E e \in tx[d].from :
                 /\ Answered(<<d, e>>, doc, refreshed)
                 /\ dirty' = FanOut(d, IF tx[d].remote THEN {doc} ELSE {}, {e})
    BY DEF CommitImport
<1> DEFINE q == IF tx[d].remote /\ Part(rows[d], doc) = {} THEN Refreshed(d) ELSE queue
<1>4. q = queue \/ q = Refreshed(d)
    OBVIOUS
<1>5. \/ tx[d].from = {} /\ queue' = q /\ UNCHANGED <<wire, wanted, synced>>
      \/ \E e \in tx[d].from : Answered(<<d, e>>, doc, q)
    BY <1>3
<1> HIDE DEF q
<1>6. /\ doc \in Facts
      /\ queue' \in [Ends -> Seq(Outbound)] /\ wire' \in [Ends -> Seq(Message)]
      /\ wanted' \in [Ends -> [Docs -> {"no", "asked", "stale"}]]
      /\ synced' \in [Ends -> BOOLEAN]
      /\ \A k \in Ends \ up : queue'[k] = << >> /\ wire'[k] = << >>
      /\ \A k \in Ends : Shapes(k)'
      /\ \A k \in Ends : k[2] # d => wire'[k] = wire[k]
      /\ \A s \in Begun(d) : s.from \cap tx[d].from = {} => Reading(d, s)'
    BY <1>1, <1>2, <1>4, <1>5, ImportOver
<1>7. dirty' = dirty \/ \E docs \in SUBSET Docs : \E E : dirty' = FanOut(d, docs, E)
  <2>1. (IF tx[d].remote THEN {doc} ELSE {}) \in SUBSET Docs
      BY <1>6 DEF Facts
  <2>2. QED
      BY <1>3, <2>1
<1>8. dirty' \in [Ends -> SUBSET Docs] /\ \A k \in Ends \ up : dirty'[k] = {}
  <2>1. dirty \in [Ends -> SUBSET Docs] /\ \A k \in Ends \ up : dirty[k] = {}
      BY <1>1 DEF TypeOK
  <2>2. QED
      BY <1>1, <1>7, <2>1, FanOutType
<1>9. /\ disk' \in [Devices -> SUBSET Updates] /\ mem' \in [Devices -> SUBSET Updates]
      /\ digests' \in [Devices -> [Docs -> SUBSET Updates]] /\ tx' \in [Devices -> Tx]
      /\ tx'[d] = NoTx /\ Stored(d)'
      /\ \A e \in Devices \ {d} : mem'[e] = mem[e] /\ disk'[e] = disk[e] /\ tx'[e] = tx[e]
    BY <1>2, SaveEffect
<1>10. /\ rows' \in [Devices -> SUBSET Updates] /\ changes' \in [Devices -> SUBSET Facts]
       /\ silent' \subseteq Devices \X Docs
  <2>1. Shown(tx[d].held) \subseteq Updates
      BY <1>1 DEF Shown, Tx
  <2>2. rows' \in [Devices -> SUBSET Updates]
      BY <1>1, <1>3, <2>1 DEF TypeOK
  <2>3. changes' \in [Devices -> SUBSET Facts]
      BY <1>1, <1>3 DEF TypeOK
  <2>4. silent' \subseteq Devices \X Docs
    <3>1. silent' = silent \/ silent' = silent \cup {<<d, doc>>}
        BY <1>3
    <3>2. silent \subseteq Devices \X Docs /\ doc \in Docs
        BY <1>1, <1>6 DEF TypeOK, Facts
    <3>3. QED
        BY <3>1, <3>2
  <2>5. QED
      BY <2>2, <2>3, <2>4
<1>11. \A e \in Devices \ {d} : Same(e)
    BY <1>1, <1>2, <1>3, <1>9 DEF Same, TypeOK
<1>12. TypeOK'
  <2>1. \A e \in Devices : tx'[e] = NoTx /\ fallen'[e] = NoneFallen => mem'[e] = disk'[e]
      BY <1>9, <1>11, Saved
  <2>2. QED
      BY <1>1, <1>2, <1>6, <1>8, <1>9, <1>10, <2>1 DEF TypeOK
<1>13. Importing(d)'
  <2>1. Alone(d)'
      BY <1>1, <1>2, <1>9, Nothing DEF Importing, Alone
  <2>2. \A s \in Begun(d)' : s = NoTx \/ (s \in Begun(d) /\ s.from \cap tx[d].from = {})
      BY <1>1, <1>2, <1>9 DEF Begun, Importing, Alone
  <2>3. Reading(d, NoTx)'
      BY Nothing DEF Reading
  <2>4. QED
      BY <1>6, <2>1, <2>2, <2>3 DEF Importing
<1>14. QED
    BY <1>2, <1>6, <1>9, <1>11, <1>12, <1>13, KeepStore

(* A failure is over when the cache is dropped, and is answered for. *)
LEMMA KeepEndFailure ==
    ASSUME KeepInv, NEW d \in Devices, EndFailure(d)
    PROVE  KeepInv'
<1>1. TypeOK /\ Stored(d) /\ Importing(d)
    BY DEF KeepInv
<1>2. PICK n \in Slots :
        /\ fallen[d][n] # NoTx
        /\ DropCache(d)
        /\ fallen' = [fallen EXCEPT ![d][n] = NoTx]
        /\ \/ fallen[d][n].from = {} /\ UNCHANGED <<wire, wanted, queue, synced>>
           \/ \E e \in fallen[d][n].from, doc \in fallen[d][n].doc : Answered(<<d, e>>, doc, queue)
        /\ UNCHANGED <<rows, changes, disk, late, tx, up, dirty, due, silent, troubles, failed,
                       overtaken>>
    BY DEF EndFailure
<1> DEFINE t == fallen[d][n]
<1>3. t \in Begun(d) /\ t # NoTx /\ Sound(t)
    BY <1>1, <1>2 DEF Begun, Stored
<1>4. PICK doc \in t.doc : \/ t.from = {} /\ queue' = queue /\ UNCHANGED <<wire, wanted, synced>>
                           \/ \E e \in t.from : Answered(<<d, e>>, doc, queue)
    BY <1>2, <1>3 DEF Sound
<1>5. /\ queue' \in [Ends -> Seq(Outbound)] /\ wire' \in [Ends -> Seq(Message)]
      /\ wanted' \in [Ends -> [Docs -> {"no", "asked", "stale"}]]
      /\ synced' \in [Ends -> BOOLEAN]
      /\ \A k \in Ends \ up : queue'[k] = << >> /\ wire'[k] = << >>
      /\ \A k \in Ends : Shapes(k)'
      /\ \A k \in Ends : k[2] # d => wire'[k] = wire[k]
      /\ \A s \in Begun(d) : s.from \cap t.from = {} => Reading(d, s)'
  <2> HIDE DEF t
  <2>1. up' = up
      BY <1>2
  <2>2. QED
      BY <1>3, <1>4, <2>1, ImportOver
<1>6. /\ digests' = [digests EXCEPT ![d] = [x \in Docs |-> {}]]
      /\ mem' = [mem EXCEPT ![d] = disk[d]]
    BY <1>2 DEF DropCache
<1>7. /\ digests' \in [Devices -> [Docs -> SUBSET Updates]]
      /\ mem' \in [Devices -> SUBSET Updates] /\ mem'[d] = disk[d]
      /\ \A e \in Devices \ {d} : mem'[e] = mem[e]
    BY <1>1, <1>6 DEF TypeOK
<1>8. /\ fallen' \in [Devices -> [Slots -> Tx]] /\ fallen'[d][n] = NoTx
      /\ \A i \in Slots \ {n} : fallen'[d][i] = fallen[d][i]
      /\ \A e \in Devices \ {d} : fallen'[e] = fallen[e]
    BY <1>1, <1>2, Nothing DEF TypeOK
<1>9. \A e \in Devices \ {d} : Same(e)
    BY <1>2, <1>7, <1>8 DEF Same
<1>10. Stored(d)'
  <2>1. \A i \in Slots : Sound(fallen'[d][i])
      BY <1>1, <1>8, Nothing DEF Stored
  <2>2. QED
      BY <1>1, <1>2, <1>7, <2>1 DEF Stored
<1>11. TypeOK'
  <2>1. \A e \in Devices : tx'[e] = NoTx /\ fallen'[e] = NoneFallen => mem'[e] = disk'[e]
      BY <1>9, <1>10, Saved
  <2>2. QED
      BY <1>1, <1>2, <1>5, <1>7, <1>8, <2>1 DEF TypeOK
<1>12. Importing(d)'
  <2>1. Alone(d)'
      BY <1>1, <1>2, <1>8, Nothing DEF Importing, Alone
  <2>2. \A s \in Begun(d)' : s = NoTx \/ (s \in Begun(d) /\ s.from \cap t.from = {})
      BY <1>1, <1>2, <1>8 DEF Begun, Importing, Alone
  <2>3. Reading(d, NoTx)'
      BY Nothing DEF Reading
  <2>4. QED
      BY <1>5, <2>1, <2>2, <2>3 DEF Importing
<1>13. QED
    BY <1>2, <1>5, <1>9, <1>10, <1>11, <1>12, KeepStore

-----------------------------------------------------------------------------
(* Links come and go, and devices start again.                               *)

(* Both ends of a new link have their summary queued, and nothing else.       *)
LEMMA KeepConnect ==
    ASSUME KeepInv, NEW p \in Pairs, Connect(p)
    PROVE  KeepInv'
<1>1. TypeOK
    BY DEF KeepInv
<1>2. /\ up' = up \cup EndsOfPair(p)
      /\ queue' = [l \in Ends |-> IF l \in EndsOfPair(p) THEN <<SummaryItem>> ELSE queue[l]]
      /\ UNCHANGED <<rows, changes, disk, mem, digests, late, tx, fallen, dirty, wanted, wire,
                     synced, due, silent, troubles, failed, overtaken>>
    BY DEF Connect, store
<1>3. EndsOfPair(p) \subseteq Ends
    BY DEF EndsOfPair
<1>4. SummaryItem \in Outbound /\ SummaryItem.type = "Complete"
    BY Formed
<1>5. <<SummaryItem>> \in Seq(Outbound)
    BY <1>4
<1>6. TypeOK'
    BY <1>1, <1>2, <1>3, <1>5 DEF TypeOK
<1>7. \A x \in Range(<<SummaryItem>>) : x = SummaryItem
    BY DEF Range
<1>8. \A k \in Ends : Shapes(k)'
  <2> TAKE k \in Ends
  <2>1. Sent(k)' = Sent(k) /\ Shapes(k)
      BY <1>2 DEF Sent, KeepInv
  <2>2. \A x \in Queued(k)' : x.type = "Serve" => x \in Queued(k)
      BY <1>2, <1>4, <1>7 DEF Queued
  <2>3. QED
      BY <2>1, <2>2 DEF Shapes, OneDoc
<1>9. \A d \in Devices : Stored(d)'
    BY <1>2, StoredSame DEF KeepInv
<1>10. \A d \in Devices : Importing(d)'
  <2> TAKE d \in Devices
  <2>1. Importing(d)
      BY DEF KeepInv
  <2>2. \A t \in Begun(d) : \A e \in t.from : <<d, e>> \in up' /\ wire[<<e, d>>] # << >>
      BY <1>1, <1>2, <2>1, ImportEnd
  <2>3. QED
      BY <1>2, <2>1, <2>2, ImportGoesOn
<1>11. QED
    BY <1>6, <1>8, <1>9, <1>10 DEF KeepInv

(* No reader waits where there is no transaction.                             *)
LEMMA NobodyWaits ==
    ASSUME NEW t, t = [NoTx EXCEPT !.from = {}]
    PROVE  t = NoTx
    BY DEF NoTx

(* A transaction goes on when its reader is gone. *)
LEMMA OrphanedFacts ==
    ASSUME NEW t \in Tx, Sound(t), NEW e, NEW ends
    PROVE  LET o == Orphaned(t, e, ends) IN
           /\ o \in Tx /\ Sound(o) /\ o.kind = t.kind /\ o.doc = t.doc /\ o.held = t.held
           /\ o.save = t.save /\ o.local = t.local /\ o.remote = t.remote
           /\ o.from = {x \in t.from : <<e, x>> \notin ends}
           /\ (o = NoTx <=> t = NoTx)
<1> DEFINE o == Orphaned(t, e, ends)
           left == {x \in t.from : <<e, x>> \notin ends}
<1>1. o = [t EXCEPT !.from = left]
    BY DEF Orphaned
<1>2. left \in SUBSET Devices /\ (t.from = {} => left = {})
    BY DEF Tx
<1>3. t = NoTx => left = {}
    BY Nothing
<1> HIDE DEF left, o
<1>4. t = NoTx => o = NoTx
  <2>1. \A s : s = [NoTx EXCEPT !.from = {}] => s = NoTx
      BY NobodyWaits
  <2>2. QED
      BY <1>1, <1>3, <2>1
<1>5. /\ o \in Tx /\ o.kind = t.kind /\ o.doc = t.doc /\ o.held = t.held
      /\ o.save = t.save /\ o.local = t.local /\ o.remote = t.remote /\ o.from = left
    BY <1>1, <1>2 DEF Tx
<1>6. o = NoTx => t = NoTx
    BY <1>5, Nothing DEF Sound
<1>7. Sound(o)
    BY <1>2, <1>4, <1>5 DEF Sound
<1>8. QED
    BY <1>4, <1>5, <1>6, <1>7 DEF left, o

(* Links close at both ends, and the devices in gone start again from what is *)
(* saved.                                                                     *)
LEMMA KeepClosing ==
    ASSUME KeepInv, NEW ends \in SUBSET Ends, \A l \in ends : Other(l) \in ends, Close(ends),
           NEW gone \in SUBSET Devices,
           tx' = [e \in Devices |-> IF e \in gone THEN NoTx ELSE Orphaned(tx[e], e, ends)],
           fallen' = [e \in Devices |-> IF e \in gone THEN NoneFallen ELSE OrphanedFallen(e, ends)],
           mem' = [e \in Devices |-> IF e \in gone THEN disk[e] ELSE mem[e]],
           digests' \in [Devices -> [Docs -> SUBSET Updates]],
           late' \in [Devices -> [Docs -> SUBSET Updates]],
           troubles' \in 0..MaxTroubles,
           UNCHANGED <<rows, changes, disk, silent, failed, overtaken>>
    PROVE  KeepInv'
<1>1. TypeOK
    BY DEF KeepInv
<1>2. /\ up' = up \ ends
      /\ queue' = [l \in Ends |-> IF l \in ends THEN << >> ELSE queue[l]]
      /\ dirty' = [l \in Ends |-> IF l \in ends THEN {} ELSE dirty[l]]
      /\ wanted' = [l \in Ends |-> IF l \in ends THEN [doc \in Docs |-> "no"] ELSE wanted[l]]
      /\ wire' = [l \in Ends |-> IF l \in ends THEN << >> ELSE wire[l]]
      /\ synced' = [l \in Ends |-> IF l \in ends THEN FALSE ELSE synced[l]]
      /\ due' = [l \in Ends |-> IF l \in ends THEN {} ELSE due[l]]
    BY DEF Close
<1> DEFINE Left(t, e, o) ==
              /\ o \in Tx /\ Sound(o) /\ o.doc = t.doc /\ o.held = t.held /\ o.save = t.save
              /\ o.from = {x \in t.from : <<e, x>> \notin ends} /\ (o = NoTx <=> t = NoTx)
<1>3. \A e \in Devices : \A t \in Begun(e) : Left(t, e, Orphaned(t, e, ends))
  <2> TAKE e \in Devices
  <2> TAKE t \in Begun(e)
  <2>1. t \in Tx /\ Sound(t)
      BY <1>1, BegunTyped DEF KeepInv, Stored, Begun
  <2>2. QED
      BY <2>1, OrphanedFacts
<1>4. ASSUME NEW e \in Devices \ gone
      PROVE  /\ Left(tx[e], e, tx'[e]) /\ mem'[e] = mem[e]
             /\ \A i \in Slots : Left(fallen[e][i], e, fallen'[e][i])
             /\ fallen'[e] \in [Slots -> Tx]
  <2>1. tx[e] \in Begun(e) /\ \A i \in Slots : fallen[e][i] \in Begun(e)
      BY DEF Begun
  <2>2. /\ tx'[e] = Orphaned(tx[e], e, ends) /\ mem'[e] = mem[e]
        /\ fallen'[e] = [i \in Slots |-> Orphaned(fallen[e][i], e, ends)]
      BY <1>4 DEF OrphanedFallen
  <2> HIDE DEF Left
  <2>3. /\ Left(tx[e], e, tx'[e])
        /\ \A i \in Slots : Left(fallen[e][i], e, fallen'[e][i])
      BY <1>3, <2>1, <2>2
  <2>4. \A i \in Slots : Orphaned(fallen[e][i], e, ends) \in Tx
      BY <1>3, <2>1 DEF Left
  <2>5. QED
      BY <2>2, <2>3, <2>4
<1>5. \A e \in gone : tx'[e] = NoTx /\ fallen'[e] = NoneFallen /\ mem'[e] = disk[e]
    OBVIOUS
<1>6. /\ up' \subseteq Ends /\ wanted' \in [Ends -> [Docs -> {"no", "asked", "stale"}]]
      /\ synced' \in [Ends -> BOOLEAN] /\ due' \in [Ends -> SUBSET Updates]
      /\ dirty' \in [Ends -> SUBSET Docs]
    BY <1>1, <1>2 DEF TypeOK
<1>7. queue' \in [Ends -> Seq(Outbound)] /\ wire' \in [Ends -> Seq(Message)]
    BY <1>1, <1>2, EmptyRange DEF TypeOK
<1>8. \A l \in Ends \ up' : queue'[l] = << >> /\ wire'[l] = << >> /\ dirty'[l] = {}
    BY <1>1, <1>2 DEF TypeOK
<1>9. tx' \in [Devices -> Tx] /\ fallen' \in [Devices -> [Slots -> Tx]]
      /\ mem' \in [Devices -> SUBSET Updates]
  <2>1. \A e \in Devices : tx'[e] \in Tx /\ fallen'[e] \in [Slots -> Tx]
      BY <1>4, <1>5, Nothing
  <2>2. mem' \in [Devices -> SUBSET Updates]
      BY <1>1 DEF TypeOK
  <2>3. QED
      BY <2>1, <2>2
<1>10. \A e \in Devices : Stored(e)'
  <2> TAKE e \in Devices
  <2>1. Stored(e)
      BY DEF KeepInv
  <2>2. CASE e \in gone
      BY <1>5, <2>2, Nothing DEF Stored
  <2>3. CASE e \notin gone
    <3>1. /\ Sound(tx'[e]) /\ \A i \in Slots : Sound(fallen'[e][i])
          /\ mem'[e] = mem[e] /\ tx'[e].held = tx[e].held /\ tx'[e].save = tx[e].save
        BY <1>4, <2>3
    <3>2. fallen'[e] = NoneFallen => fallen[e] = NoneFallen
      <4>1. \A i \in Slots : fallen'[e][i] = NoTx => fallen[e][i] = NoTx
          BY <1>4, <2>3
      <4>2. fallen[e] \in [Slots -> Tx]
          BY <1>1 DEF TypeOK
      <4>3. QED
          BY <4>1, <4>2 DEF NoneFallen
    <3>3. QED
        BY <2>1, <3>1, <3>2 DEF Stored
  <2>4. QED
      BY <2>2, <2>3
<1>11. TypeOK'
  <2>1. \A e \in Devices : tx'[e] = NoTx /\ fallen'[e] = NoneFallen => mem'[e] = disk'[e]
      BY <1>10, Nothing DEF Stored
  <2>2. QED
      BY <1>1, <1>6, <1>7, <1>8, <1>9, <2>1 DEF TypeOK
<1>12. \A k \in Ends : Sent(k)' \subseteq Sent(k) /\ Queued(k)' \subseteq Queued(k)
    BY <1>2, EmptyRange DEF Sent, Queued
<1>13. \A k \in Ends : Shapes(k)'
    BY <1>12 DEF Shapes, OneDoc, KeepInv
<1>14. \A e \in Devices : Importing(e)'
  <2> TAKE e \in Devices
  <2>1. Importing(e)
      BY DEF KeepInv
  <2>2. CASE e \in gone
    <3>1. \A s \in Begun(e)' : s = NoTx
        BY <1>5, <2>2, Nothing DEF Begun
    <3>2. QED
        BY <1>5, <2>2, <3>1, Nothing DEF Importing, Alone, Reading
  <2>3. CASE e \notin gone
    <3>1. /\ Left(tx[e], e, tx'[e]) /\ \A i \in Slots : Left(fallen[e][i], e, fallen'[e][i])
        BY <1>4, <2>3
    <3>2. tx'[e].from \subseteq tx[e].from
          /\ \A i \in Slots : fallen'[e][i].from \subseteq fallen[e][i].from
        BY <3>1
    <3>3. Alone(e)'
        BY <2>1, <3>2 DEF Importing, Alone
    <3>4. \A s \in Begun(e)' : \E t \in Begun(e) : Left(t, e, s)
      <4> HIDE DEF Left
      <4>1. QED
          BY <3>1 DEF Begun
    <3>5. ASSUME NEW s \in Begun(e)'
          PROVE  Reading(e, s)'
      <4>1. PICK t \in Begun(e) : Left(t, e, s)
          BY <3>4
      <4>2. s.doc = t.doc /\ s.held = t.held /\ s.from = {x \in t.from : <<e, x>> \notin ends}
          BY <4>1
      <4>3. ASSUME NEW x \in s.from
            PROVE  <<e, x>> \in up' /\ wire'[<<x, e>>] = wire[<<x, e>>]
        <5>1. x \in t.from /\ <<e, x>> \notin ends
            BY <4>2, <4>3
        <5>2. <<e, x>> \in up /\ <<x, e>> \in Ends
            BY <1>1, <2>1, <5>1, ImportEnd
        <5>3. Other(<<x, e>>) = <<e, x>>
            BY DEF Other
        <5>4. <<x, e>> \notin ends
            BY <5>1, <5>3
        <5>5. QED
            BY <1>2, <5>1, <5>2, <5>4
      <4>4. Reading(e, t)
          BY <2>1 DEF Importing
      <4> HIDE DEF Left
      <4>5. QED
          BY <4>2, <4>3, <4>4 DEF Reading
    <3>6. QED
        BY <3>3, <3>5 DEF Importing
  <2>4. QED
      BY <2>2, <2>3
<1>15. QED
    BY <1>10, <1>11, <1>13, <1>14 DEF KeepInv

(* A link breaks for both of its ends. *)
LEMMA KeepBreak ==
    ASSUME KeepInv, SyncAssumption, NEW p \in Pairs, Break(p)
    PROVE  KeepInv'
<1>1. TypeOK
    BY DEF KeepInv
<1>2. /\ Close(EndsOfPair(p)) /\ Trouble("break")
      /\ tx' = [d \in Devices |-> Orphaned(tx[d], d, EndsOfPair(p))]
      /\ fallen' = [d \in Devices |-> OrphanedFallen(d, EndsOfPair(p))]
      /\ UNCHANGED <<rows, changes, disk, mem, digests, late, silent, failed, overtaken>>
    BY DEF Break
<1>3. troubles' \in 0..MaxTroubles
    BY <1>1, <1>2, TroubleType
<1>4. EndsOfPair(p) \in SUBSET Ends /\ \A l \in EndsOfPair(p) : Other(l) \in EndsOfPair(p)
  <2>1. \A l \in Ends : {l[1], l[2]} = {Other(l)[1], Other(l)[2]}
      BY EndsFacts
  <2>2. QED
      BY <2>1, EndsFacts DEF EndsOfPair
<1>5. /\ tx' = [e \in Devices |-> IF e \in {} THEN NoTx ELSE Orphaned(tx[e], e, EndsOfPair(p))]
      /\ fallen' = [e \in Devices |-> IF e \in {} THEN NoneFallen
                                      ELSE OrphanedFallen(e, EndsOfPair(p))]
    BY <1>2
<1>6. mem' = [e \in Devices |-> IF e \in {} THEN disk[e] ELSE mem[e]]
    BY <1>1, <1>2 DEF TypeOK
<1>7. /\ digests' \in [Devices -> [Docs -> SUBSET Updates]]
      /\ late' \in [Devices -> [Docs -> SUBSET Updates]]
    BY <1>1, <1>2 DEF TypeOK
<1>8. {} \in SUBSET Devices
    OBVIOUS
<1> HIDE DEF Break
<1>9. QED
    BY <1>2, <1>3, <1>4, <1>5, <1>6, <1>7, <1>8, KeepClosing

(* A process that starts again has what is saved. *)
LEMMA KeepRestart ==
    ASSUME KeepInv, SyncAssumption, NEW d \in Devices, Restart(d)
    PROVE  KeepInv'
<1> DEFINE ends == {l \in Ends : d \in {l[1], l[2]}}
<1>1. TypeOK
    BY DEF KeepInv
<1>2. /\ Close(ends) /\ Trouble("restart") /\ DropCache(d)
      /\ tx' = [e \in Devices |-> IF e = d THEN NoTx ELSE Orphaned(tx[e], e, ends)]
      /\ fallen' = [e \in Devices |-> IF e = d THEN NoneFallen ELSE OrphanedFallen(e, ends)]
      /\ late' = [late EXCEPT ![d] = [doc \in Docs |-> {}]]
      /\ UNCHANGED <<rows, changes, disk, silent, failed, overtaken>>
    BY DEF Restart
<1>3. troubles' \in 0..MaxTroubles
    BY <1>1, <1>2, TroubleType
<1>4. ends \in SUBSET Ends /\ \A l \in ends : Other(l) \in ends
    BY EndsFacts
<1> HIDE DEF ends
<1>5. /\ tx' = [e \in Devices |-> IF e \in {d} THEN NoTx ELSE Orphaned(tx[e], e, ends)]
      /\ fallen' = [e \in Devices |-> IF e \in {d} THEN NoneFallen ELSE OrphanedFallen(e, ends)]
    BY <1>2
<1>6. mem' = [e \in Devices |-> IF e \in {d} THEN disk[e] ELSE mem[e]]
    BY <1>1, <1>2 DEF DropCache, TypeOK
<1>7. /\ digests' \in [Devices -> [Docs -> SUBSET Updates]]
      /\ late' \in [Devices -> [Docs -> SUBSET Updates]]
    BY <1>1, <1>2 DEF DropCache, TypeOK
<1>8. {d} \in SUBSET Devices
    OBVIOUS
<1>9. QED
    BY <1>2, <1>3, <1>4, <1>5, <1>6, <1>7, <1>8, KeepClosing

-----------------------------------------------------------------------------
(* Nothing holds at the start but the empty state.                           *)
LEMMA KeepInit ==
    ASSUME SyncAssumption, Init
    PROVE  KeepInv
<1>1. \A S : << >> \in Seq(S)
    BY EmptyRange
<1>2. /\ rows \in [Devices -> SUBSET Updates] /\ changes \in [Devices -> SUBSET Facts]
      /\ disk \in [Devices -> SUBSET Updates] /\ mem \in [Devices -> SUBSET Updates]
      /\ digests \in [Devices -> [Docs -> SUBSET Updates]]
      /\ late \in [Devices -> [Docs -> SUBSET Updates]]
      /\ tx \in [Devices -> Tx] /\ fallen \in [Devices -> [Slots -> Tx]]
    BY Nothing DEF Init
<1>3. /\ up \subseteq Ends
      /\ queue \in [Ends -> Seq(Outbound)] /\ wire \in [Ends -> Seq(Message)]
      /\ dirty \in [Ends -> SUBSET Docs] /\ due \in [Ends -> SUBSET Updates]
      /\ wanted \in [Ends -> [Docs -> {"no", "asked", "stale"}]]
      /\ synced \in [Ends -> BOOLEAN]
    BY <1>1 DEF Init
<1>4. TypeOK
  <2>1. /\ silent = {} /\ troubles = 0 /\ failed = FALSE /\ overtaken = FALSE
        /\ MaxTroubles \in Nat /\ \A d \in Devices : mem[d] = disk[d]
        /\ \A l \in Ends : queue[l] = << >> /\ wire[l] = << >> /\ dirty[l] = {}
      BY DEF Init, SyncAssumption
  <2>2. troubles \in 0..MaxTroubles
      BY <2>1
  <2>3. QED
      BY <1>2, <1>3, <2>1, <2>2 DEF TypeOK
<1>5. \A k \in Ends : Sent(k) = {} /\ Queued(k) = {}
    BY EmptyRange DEF Init, Sent, Queued
<1>6. \A k \in Ends : Shapes(k)
    BY <1>5 DEF Shapes
<1>7. ASSUME NEW d \in Devices
      PROVE  Stored(d) /\ Importing(d)
  <2>1. tx[d] = NoTx /\ fallen[d] = NoneFallen /\ disk[d] = {} /\ mem[d] = {}
      BY DEF Init
  <2>2. \A t \in Begun(d) : t = NoTx
      BY <2>1, Nothing DEF Begun
  <2>3. Stored(d)
      BY <2>1, Nothing DEF Stored
  <2>4. Importing(d)
      BY <2>1, <2>2, Nothing DEF Importing, Alone, Reading
  <2>5. QED
      BY <2>3, <2>4
<1>8. QED
    BY <1>4, <1>6, <1>7 DEF KeepInv

(* A step that changes nothing. *)
LEMMA KeepStutter ==
    ASSUME KeepInv, UNCHANGED vars
    PROVE  KeepInv'
<1>1. UNCHANGED <<rows, changes, disk, mem, digests, late, tx, fallen, up, queue, dirty, wanted,
                  wire, synced, due, silent, troubles, failed, overtaken>>
    BY DEF vars, store, links
<1>2. TypeOK'
    BY <1>1 DEF TypeOK, KeepInv
<1>3. \A k \in Ends : Shapes(k)'
    BY <1>1 DEF Shapes, Sent, Queued, OneDoc, KeepInv
<1>4. \A d \in Devices : Stored(d)'
    BY <1>1, StoredSame DEF KeepInv
<1>5. \A d \in Devices : Importing(d)'
    BY <1>1, ImportsStay DEF KeepInv
<1>6. QED
    BY <1>2, <1>3, <1>4, <1>5 DEF KeepInv

(* Every step keeps the stores and the messages well formed. *)
LEMMA KeepStep ==
    ASSUME SyncAssumption, KeepInv, [Next]_vars
    PROVE  KeepInv'
<1>1. CASE \E u \in Updates : LocalEdit(u)
    BY <1>1, KeepLocalEdit
<1>2. ASSUME NEW d \in Devices,
             \/ CommitExport(d) \/ CommitImport(d) \/ RollBack(d) \/ EndFailure(d)
             \/ \E doc \in Facts : BeginExport(d, doc) \/ ReadVersion(d, doc)
                                   \/ CacheVersion(d, doc)
      PROVE  KeepInv'
    BY <1>2, KeepCommitExport, KeepCommitImport, KeepRollBack, KeepEndFailure,
       KeepBeginExport, KeepVersions
<1>3. ASSUME NEW l \in Ends, Writer(l) \/ Reader(l) \/ Tick(l)
      PROVE  KeepInv'
    BY <1>3, KeepWriteQueued, KeepAnnouncing, KeepReadOther, KeepReadEmpty, KeepReadNote,
       KeepBeginImport DEF Writer, Reader
<1>4. ASSUME NEW p \in Pairs, Connect(p) \/ Break(p)
      PROVE  KeepInv'
    BY <1>4, KeepConnect, KeepBreak
<1>5. CASE \E d \in Devices : Restart(d)
    BY <1>5, KeepRestart
<1>6. QED
    BY <1>1, <1>2, <1>3, <1>4, <1>5, KeepStutter DEF Next, StoreStep, LinkStep

(* Type correctness: rows, documents, cached versions and links stay well     *)
(* formed; and a document in memory differs from its saved copy only inside a *)
(* transaction, or after one that failed until its cache is dropped, whatever *)
(* others do in between.                                                      *)
THEOREM TypeCorrect == Spec => []TypeOK
<1>1. Init => KeepInv
    BY SyncAssumption, KeepInit
<1>2. KeepInv /\ [Next]_vars => KeepInv'
    BY SyncAssumption, KeepStep
<1>3. KeepInv => TypeOK
    BY DEF KeepInv
<1>4. QED
    BY <1>1, <1>2, <1>3, PTL DEF Spec

-----------------------------------------------------------------------------
(* What is never lost: facts, unless rows were exported into a document that  *)
(* was to be dropped.                                                        *)

(* Every update was made by an edit, wherever it is, and none is a reversal.  *)
Known ==
    /\ \A d \in Devices : mem[d] \subseteq Authored /\ tx[d].held \subseteq Authored
    /\ \A l \in Ends : \A m \in Sent(l) :
          m.type = "Update" => /\ m.vers \subseteq Authored
                               /\ \A doc \in m.doc : m.vers \subseteq Of(doc)
    /\ Authored \cap Reversals = {}

(* What is saved of a document are rows, and the rows are in it or it is      *)
(* marked; a transaction holds all of both, and what it takes off the marks   *)
(* or makes rows of is saved.                                                 *)
Faithful(d) ==
    /\ \A doc \in Facts : Part(disk[d], doc) \subseteq rows[d]
    /\ \A doc \in Facts : doc \in changes[d] \/ Part(rows[d], doc) \subseteq disk[d]
    /\ \A doc \in tx[d].doc :
          /\ Part(rows[d], doc) \cup Part(disk[d], doc) \subseteq tx[d].held
          /\ tx[d].held \subseteq Of(doc)
    /\ tx[d].remote => tx[d].save
    /\ tx[d].save /\ ~tx[d].remote => tx[d].held \subseteq rows[d]
    /\ ~tx[d].save /\ (tx[d].kind = "export" \/ tx[d].local) => tx[d].held \subseteq disk[d]

AllKept == Known /\ \A d \in Devices : Faithful(d)

FactsInv == overtaken \/ AllKept

(* A device without a transaction holds nothing. *)
LEMMA FaithfulAtRest ==
    ASSUME NEW d \in Devices, tx[d] = NoTx,
           \A doc \in Facts : Part(disk[d], doc) \subseteq rows[d],
           \A doc \in Facts : doc \in changes[d] \/ Part(rows[d], doc) \subseteq disk[d]
    PROVE  Faithful(d)
    BY Nothing DEF Faithful

(* What is no reversal is shown. *)
LEMMA AllShown ==
    ASSUME Known, NEW S, S \subseteq Authored
    PROVE  Shown(S) = S
<1>1. S \cap Reversals = {}
    BY DEF Known
<1>2. QED
    BY <1>1 DEF Shown

(* A document that memory has as it is saved gets its rows, and no reversal.  *)
LEMMA Exporting ==
    ASSUME AllKept, NEW d \in Devices, NEW doc \in Facts, ~Unsaved(d, doc)
    PROVE  /\ Written(d, doc) = Part(rows[d], doc)
           /\ Part(mem[d], doc) = Part(disk[d], doc)
           /\ Part(mem[d], doc) \cup Written(d, doc) = Part(rows[d], doc)
<1>1. Part(mem[d], doc) = Part(disk[d], doc)
    BY DEF Unsaved
<1>2. Part(disk[d], doc) \subseteq Part(rows[d], doc)
    BY DEF AllKept, Faithful, Part
<1>3. Shown(Part(mem[d], doc)) \ rows[d] = {}
    BY <1>1, <1>2 DEF Shown, Part
<1>4. Written(d, doc) = Part(rows[d], doc)
    BY <1>3 DEF Written
<1>5. QED
    BY <1>1, <1>2, <1>4

(* A step of one device.                                                      *)
LEMMA FactsStore ==
    ASSUME AllKept, NEW d \in Devices, \A e \in Devices \ {d} : Same(e),
           Faithful(d)', mem'[d] \subseteq Authored', tx'[d].held \subseteq Authored',
           Authored \subseteq Authored', Authored' \cap Reversals = {},
           \A k \in Ends : Sent(k)' \subseteq Sent(k)
    PROVE  AllKept'
<1>1. \A e \in Devices \ {d} : Faithful(e)'
    BY DEF AllKept, Faithful, Same
<1>2. \A e \in Devices : mem'[e] \subseteq Authored' /\ tx'[e].held \subseteq Authored'
    BY DEF AllKept, Known, Same
<1>3. \A l \in Ends : \A m \in Sent(l)' :
          m.type = "Update" => /\ m.vers \subseteq Authored'
                               /\ \A doc \in m.doc : m.vers \subseteq Of(doc)
    BY DEF AllKept, Known
<1>4. Known'
    BY <1>2, <1>3 DEF Known
<1>5. QED
    BY <1>1, <1>4 DEF AllKept

(* A step of the links, which send what is in memory.                         *)
LEMMA FactsLinks ==
    ASSUME AllKept, UNCHANGED <<rows, changes, disk, mem, tx>>,
           \A l \in Ends : \A m \in Sent(l)' :
              \/ m \in Sent(l)
              \/ l[1] \in Devices /\ Says(l, m)
    PROVE  AllKept'
<1>1. Authored' = Authored /\ \A d \in Devices : Faithful(d)'
    BY DEF Authored, AllKept, Faithful
<1>2. ASSUME NEW l \in Ends, NEW m \in Sent(l)', m.type = "Update"
      PROVE  m.vers \subseteq Authored /\ \A doc \in m.doc : m.vers \subseteq Of(doc)
  <2>1. CASE m \in Sent(l)
      BY <1>2, <2>1 DEF AllKept, Known
  <2>2. CASE l[1] \in Devices /\ Says(l, m)
    <3>1. PICK doc \in Docs : m.doc = {doc} /\ m.vers \subseteq Part(mem[l[1]], doc)
        BY <1>2, <2>2 DEF Says
    <3>2. mem[l[1]] \subseteq Authored
        BY <2>2 DEF AllKept, Known
    <3>3. QED
        BY <3>1, <3>2 DEF Part
  <2>3. QED
      BY <1>2, <2>1, <2>2
<1>3. Known'
    BY <1>1, <1>2 DEF AllKept, Known
<1>4. QED
    BY <1>1, <1>3 DEF AllKept

(* The writer and the reader of a link.                                       *)
LEMMA FactsOfLinks ==
    ASSUME KeepInv, AllKept, NEW l \in Ends,
           \/ WriteQueued(l) \/ WriteDirty(l) \/ Tick(l)
           \/ ReadSummary(l) \/ ReadWant(l) \/ ReadRequest(l) \/ ReadEmpty(l)
    PROVE  AllKept'
<1>1. TypeOK /\ Shapes(l) /\ l[1] \in Devices /\ Other(l) \in Ends
    BY EndsFacts DEF KeepInv
<1>2. CASE WriteQueued(l)
  <2>1. PICK m \in Message : Adds(Message, wire[l], wire'[l], m) /\ Says(l, m)
      BY <1>1, <1>2, WriterSays
  <2>2. Only(wire, wire', Message, {l}) /\ UNCHANGED <<rows, changes, disk, mem, tx>>
      BY <1>1, <1>2, WriteQueuedEffect DEF Rest
  <2>3. Sent(l)' = Sent(l) \cup {m} /\ \A k \in Ends \ {l} : Sent(k)' = Sent(k)
      BY <2>1, <2>2 DEF Sent, Adds, Only
  <2>4. QED
      BY <1>1, <2>1, <2>2, <2>3, FactsLinks
<1>3. CASE WriteDirty(l) \/ Tick(l)
  <2>1. /\ \/ wire' = wire
           \/ \E c \in BOOLEAN : \E docs : Adds(Message, wire[l], wire'[l], Summary(c, l[1], docs))
        /\ Only(wire, wire', Message, {l}) /\ UNCHANGED <<rows, changes, disk, mem, tx>>
      BY <1>1, <1>3, WriteDirtyEffect, TickEffect DEF Rest
  <2>2. ASSUME NEW c \in BOOLEAN, NEW docs, Adds(Message, wire[l], wire'[l], Summary(c, l[1], docs))
        PROVE  \A k \in Ends : \A m \in Sent(k)' : m \in Sent(k) \/ (k[1] \in Devices /\ Says(k, m))
    <3>1. Summary(c, l[1], docs).type \in {"Complete", "Partial"}
        BY SummaryParts
    <3>2. Says(l, Summary(c, l[1], docs))
        BY <3>1 DEF Says
    <3>3. QED
        BY <1>1, <2>1, <2>2, <3>2 DEF Sent, Adds, Only
  <2>3. CASE wire' = wire
      BY <2>1, <2>3, FactsLinks DEF Sent
  <2>4. QED
      BY <2>1, <2>2, <2>3, FactsLinks
<1>4. ASSUME NEW m, Takes(Message, wire[Other(l)], wire'[Other(l)], m),
             Only(wire, wire', Message, {Other(l)}), UNCHANGED <<rows, changes, disk, mem, tx>>
      PROVE  AllKept'
  <2>1. \A k \in Ends : Sent(k)' \subseteq Sent(k)
      BY <1>1, <1>4 DEF Sent, Takes, Only
  <2>2. QED
      BY <1>4, <2>1, FactsLinks
<1>5. CASE ReadSummary(l)
  <2>1. PICK m \in Message : ReadsSummary(l, m)
      BY <1>1, <1>5, ReadSummaryEffect
  <2>2. UNCHANGED <<rows, changes, disk, mem, tx>> /\ Only(wire, wire', Message, {Other(l)})
      BY <1>1, <1>5, ReadSummaryEffect
  <2>3. QED
      BY <1>4, <2>1, <2>2 DEF ReadsSummary
<1>6. CASE ReadWant(l) \/ ReadRequest(l)
  <2>1. PICK m \in Message : ReadsWant(l, m)
      BY <1>1, <1>6, ReadWantEffect
  <2>2. UNCHANGED store /\ Only(wire, wire', Message, {Other(l)})
      BY <1>1, <1>6, ReadWantEffect
  <2>3. QED
      BY <1>4, <2>1, <2>2 DEF ReadsWant, store
<1>7. CASE ReadEmpty(l)
  <2>1. PICK doc \in Incoming(l).doc : Answered(l, doc, queue)
      BY <1>7 DEF ReadEmpty
  <2>2. wire[Other(l)] # << >> /\ l \in up /\ UNCHANGED store
      BY <1>7 DEF ReadEmpty, Reads
  <2>3. Incoming(l) \in Message
      BY <1>1, <2>2, TailRange DEF Incoming, TypeOK
  <2>4. doc \in Docs
      BY <2>1, <2>3 DEF Message
  <2>5. queue \in [Ends -> Seq(Outbound)] /\ \A k \in Ends \ up : queue[k] = << >>
      BY <1>1 DEF TypeOK
  <2>6. \A k \in Ends : Sent(k)' \subseteq Sent(k)
      BY <2>1, <2>2, <2>4, <2>5, AnswerLinks DEF Queued
  <2>7. QED
      BY <2>2, <2>6, FactsLinks DEF store
<1>8. QED
    BY <1>2, <1>3, <1>5, <1>6, <1>7

(* An edit is a new update, and its document is marked or a note. *)
LEMMA FactsLocalEdit ==
    ASSUME SyncAssumption, KeepInv, AllKept, NEW u \in Updates, LocalEdit(u)
    PROVE  AllKept'
<1> DEFINE d == Maker[u]
           doc == DocOf[u]
<1>1. TypeOK /\ Faithful(d) /\ d \in Devices /\ doc \in Docs /\ u \in Of(doc)
    BY DEF KeepInv, AllKept, SyncAssumption, Of
<1>2. /\ u \notin Reversals
      /\ rows' = [rows EXCEPT ![d] = @ \cup {u}]
      /\ doc \in Facts => tx[d] = NoTx
      /\ IF doc \in Notes
         THEN /\ mem' = [mem EXCEPT ![d] = @ \cup {u}]
              /\ disk' = [disk EXCEPT ![d] = @ \cup {u}]
              /\ UNCHANGED changes
         ELSE changes' = [changes EXCEPT ![d] = @ \cup {doc}] /\ UNCHANGED <<mem, disk>>
      /\ UNCHANGED <<tx, fallen, wire>>
    BY DEF LocalEdit
<1>3. \A x \in Docs : x # doc => u \notin Of(x)
    BY DEF Of
<1> HIDE DEF d, doc
<1>4. doc \in Notes \/ doc \in Facts
    BY <1>1 DEF Facts
<1>5. /\ rows'[d] = rows[d] \cup {u} /\ tx'[d] = tx[d]
      /\ \/ /\ doc \in Notes /\ mem'[d] = mem[d] \cup {u} /\ disk'[d] = disk[d] \cup {u}
            /\ changes'[d] = changes[d]
         \/ /\ doc \in Facts /\ mem'[d] = mem[d] /\ disk'[d] = disk[d]
            /\ changes'[d] = changes[d] \cup {doc} /\ tx[d] = NoTx
    BY <1>1, <1>2, <1>4 DEF TypeOK, Facts
<1>6. \A e \in Devices \ {d} : Same(e)
    BY <1>1, <1>2 DEF Same, TypeOK
<1>7. Authored' = Authored \cup {u}
    BY <1>1, <1>5, <1>6 DEF Authored, Same
<1>8. Faithful(d)'
  <2>1. CASE doc \in Facts
    <3>1. \A x \in Facts : x # doc => Part(rows'[d], x) = Part(rows[d], x)
        BY <1>3, <1>5 DEF Part, Facts
    <3>2. /\ changes'[d] = changes[d] \cup {doc} /\ disk'[d] = disk[d] /\ tx'[d] = NoTx
        BY <1>5, <2>1 DEF Facts
    <3>3. QED
        BY <1>1, <1>5, <3>1, <3>2, Nothing DEF Faithful
  <2>2. CASE doc \in Notes
    <3>1. \A x \in Facts : /\ Part(rows'[d], x) = Part(rows[d], x)
                           /\ Part(disk'[d], x) = Part(disk[d], x)
        BY <1>3, <1>5, <2>2 DEF Part, Facts
    <3>2. changes'[d] = changes[d] /\ disk[d] \subseteq disk'[d] /\ rows[d] \subseteq rows'[d]
        BY <1>5, <2>2 DEF Facts
    <3>3. tx[d].doc \subseteq Facts
        BY <1>1, BegunTyped DEF Begun
    <3>4. QED
        BY <1>1, <1>5, <3>1, <3>2, <3>3 DEF Faithful
  <2>3. QED
      BY <1>4, <2>1, <2>2
<1>9. mem'[d] \subseteq Authored' /\ tx'[d].held \subseteq Authored'
    BY <1>1, <1>5, <1>7 DEF AllKept, Known
<1>10. Authored' \cap Reversals = {}
    BY <1>2, <1>7 DEF AllKept, Known
<1>11. \A k \in Ends : Sent(k)' \subseteq Sent(k)
    BY <1>2 DEF Sent
<1>12. QED
    BY <1>1, <1>6, <1>7, <1>8, <1>9, <1>10, <1>11, FactsStore

(* An export holds the rows, when memory had nothing unsaved of them. *)
LEMMA FactsBeginExport ==
    ASSUME KeepInv, AllKept, NEW d \in Devices, NEW doc \in Facts, BeginExport(d, doc), ~overtaken'
    PROVE  AllKept'
<1> DEFINE held == Part(mem[d], doc) \cup Written(d, doc)
           t == [NoTx EXCEPT !.kind = "export", !.doc = {doc}, !.held = held,
                             !.save = held # Part(mem[d], doc)]
<1>1. TypeOK /\ Faithful(d)
    BY DEF KeepInv, AllKept
<1>2. /\ ~Unsaved(d, doc) /\ mem' = [mem EXCEPT ![d] = @ \cup held]
      /\ tx' = [tx EXCEPT ![d] = t]
      /\ UNCHANGED <<rows, changes, disk, fallen, wire>>
    BY DEF BeginExport, links
<1>3. held = Part(rows[d], doc) /\ Part(mem[d], doc) = Part(disk[d], doc)
    BY <1>2, Exporting
<1>4. /\ t.kind = "export" /\ t.doc = {doc} /\ t.held = held /\ ~t.remote
      /\ t.save = (held # Part(mem[d], doc))
    BY DEF NoTx
<1> HIDE DEF t, held
<1>5. mem'[d] = mem[d] \cup held /\ tx'[d] = t
    BY <1>1, <1>2 DEF TypeOK
<1>6. \A e \in Devices \ {d} : Same(e)
    BY <1>1, <1>2 DEF Same, TypeOK
<1>7. Part(rows[d], doc) \subseteq rows[d] /\ Part(disk[d], doc) \subseteq disk[d]
      /\ Part(rows[d], doc) \subseteq Of(doc)
    BY DEF Part
<1>8. Part(disk[d], doc) \subseteq Part(rows[d], doc)
    BY <1>1 DEF Faithful, Part
<1>9. Faithful(d)'
    BY <1>1, <1>2, <1>3, <1>4, <1>5, <1>7, <1>8 DEF Faithful
<1>10. Authored' = Authored /\ rows[d] \subseteq Authored
    BY <1>2 DEF Authored
<1>11. mem'[d] \subseteq Authored' /\ tx'[d].held \subseteq Authored'
    BY <1>3, <1>4, <1>5, <1>7, <1>10 DEF AllKept, Known
<1>12. QED
    BY <1>2, <1>6, <1>9, <1>10, <1>11, FactsStore DEF AllKept, Known, Sent

(* The commit saves all that the export holds. *)
LEMMA FactsCommitExport ==
    ASSUME KeepInv, AllKept, NEW d \in Devices, CommitExport(d)
    PROVE  AllKept'
<1>1. TypeOK /\ Stored(d) /\ Faithful(d)
    BY DEF KeepInv, AllKept
<1>2. /\ tx[d].kind = "export"
      /\ changes' = [changes EXCEPT ![d] = @ \ tx[d].doc]
      /\ Save(d) /\ tx' = [tx EXCEPT ![d] = NoTx]
      /\ UNCHANGED <<rows, fallen, wire>>
    BY DEF CommitExport
<1>3. /\ tx'[d] = NoTx
      /\ \A e \in Devices \ {d} : mem'[e] = mem[e] /\ disk'[e] = disk[e] /\ tx'[e] = tx[e]
      /\ \/ tx[d].save /\ mem'[d] = mem[d] \cup tx[d].held /\ disk'[d] = disk[d] \cup tx[d].held
         \/ ~tx[d].save /\ mem'[d] = mem[d] /\ disk'[d] = disk[d]
    BY <1>2, SaveEffect
<1>4. \A e \in Devices \ {d} : Same(e)
    BY <1>1, <1>2, <1>3 DEF Same, TypeOK
<1>5. changes'[d] = changes[d] \ tx[d].doc
    BY <1>1, <1>2 DEF TypeOK
<1>6. PICK doc \in Facts : tx[d].doc = {doc}
    BY <1>1, <1>2 DEF Stored, Sound
<1>7. ~tx[d].remote /\ tx[d].held \subseteq rows[d] /\ tx[d].held \subseteq disk'[d]
      /\ Part(rows[d], doc) \cup Part(disk[d], doc) \subseteq tx[d].held
      /\ tx[d].held \subseteq Of(doc)
  <2>1. ~tx[d].remote
      BY <1>1, <1>2 DEF Stored, Sound
  <2>2. tx[d].save => tx[d].held \subseteq rows[d]
      BY <1>1, <2>1 DEF Faithful
  <2>3. ~tx[d].save => tx[d].held \subseteq disk[d]
      BY <1>1, <1>2 DEF Faithful
  <2>4. tx[d].held \subseteq Of(doc) /\ Part(rows[d], doc) \cup Part(disk[d], doc) \subseteq tx[d].held
      BY <1>1, <1>6 DEF Faithful
  <2>5. Part(disk[d], doc) \subseteq rows[d]
      BY <1>1 DEF Faithful
  <2>6. ~tx[d].save => tx[d].held \subseteq rows[d]
      BY <2>3, <2>4, <2>5 DEF Part
  <2>7. QED
      BY <1>3, <2>1, <2>2, <2>3, <2>4, <2>6
<1>8. rows'[d] = rows[d] /\ disk[d] \subseteq disk'[d] /\ disk'[d] \subseteq disk[d] \cup tx[d].held
    BY <1>2, <1>3
<1>9. \A x \in Facts : Part(disk'[d], x) \subseteq rows'[d]
    BY <1>1, <1>7, <1>8 DEF Faithful, Part
<1>10. \A x \in Facts : x \in changes'[d] \/ Part(rows'[d], x) \subseteq disk'[d]
  <2> TAKE x \in Facts
  <2>1. CASE x = doc
      BY <1>7, <1>8, <2>1
  <2>2. CASE x # doc
      BY <1>1, <1>5, <1>6, <1>8, <2>2 DEF Faithful
  <2>3. QED
      BY <2>1, <2>2
<1>11. Faithful(d)'
    BY <1>3, <1>9, <1>10, Nothing DEF Faithful
<1>12. Authored' = Authored /\ rows[d] \subseteq Authored
    BY <1>2 DEF Authored
<1>13. mem'[d] \subseteq Authored' /\ tx'[d].held \subseteq Authored'
    BY <1>3, <1>12, Nothing DEF AllKept, Known
<1>14. QED
    BY <1>2, <1>4, <1>11, <1>12, <1>13, FactsStore DEF AllKept, Known, Sent

(* A transaction that is rolled back leaves memory as it is. *)
LEMMA FactsRollBack ==
    ASSUME KeepInv, AllKept, NEW d \in Devices, RollBack(d)
    PROVE  AllKept'
<1>1. TypeOK /\ Faithful(d)
    BY DEF KeepInv, AllKept
<1>2. /\ fallen' = [fallen EXCEPT ![d][troubles'] = tx[d]]
      /\ tx' = [tx EXCEPT ![d] = NoTx]
      /\ UNCHANGED <<rows, changes, disk, mem, wire>>
    BY DEF RollBack, links
<1>3. tx'[d] = NoTx /\ \A e \in Devices \ {d} : Same(e)
    BY <1>1, <1>2 DEF Same, TypeOK
<1>4. Faithful(d)'
    BY <1>1, <1>2, <1>3, Nothing DEF Faithful
<1>5. Authored' = Authored
    BY <1>2 DEF Authored
<1>6. mem'[d] \subseteq Authored' /\ tx'[d].held \subseteq Authored'
    BY <1>2, <1>3, <1>5, Nothing DEF AllKept, Known
<1>7. QED
    BY <1>2, <1>3, <1>4, <1>5, <1>6, FactsStore DEF AllKept, Known, Sent

(* A cache that is dropped leaves what is saved, and the transaction. *)
LEMMA FactsEndFailure ==
    ASSUME KeepInv, AllKept, NEW d \in Devices, EndFailure(d)
    PROVE  AllKept'
<1>1. TypeOK /\ Stored(d) /\ Faithful(d)
    BY DEF KeepInv, AllKept
<1>2. PICK n \in Slots :
        /\ fallen[d][n] # NoTx
        /\ DropCache(d)
        /\ fallen' = [fallen EXCEPT ![d][n] = NoTx]
        /\ \/ fallen[d][n].from = {} /\ UNCHANGED <<wire, wanted, queue, synced>>
           \/ \E e \in fallen[d][n].from, doc \in fallen[d][n].doc : Answered(<<d, e>>, doc, queue)
        /\ UNCHANGED <<rows, changes, disk, late, tx, up, dirty, due, silent, troubles, failed,
                       overtaken>>
    BY DEF EndFailure
<1> DEFINE t == fallen[d][n]
<1>3. t \in Begun(d) /\ t # NoTx /\ Sound(t)
    BY <1>1, <1>2 DEF Begun, Stored
<1>4. PICK doc \in t.doc : \/ t.from = {} /\ queue' = queue /\ UNCHANGED <<wire, wanted, synced>>
                           \/ \E e \in t.from : Answered(<<d, e>>, doc, queue)
    BY <1>2, <1>3 DEF Sound
<1>5. \A k \in Ends : Sent(k)' \subseteq Sent(k)
  <2> HIDE DEF t
  <2>1. up' = up
      BY <1>2
  <2>2. QED
      BY <1>3, <1>4, <2>1, ImportOver
<1>6. mem'[d] = disk[d] /\ tx'[d] = tx[d] /\ \A e \in Devices \ {d} : Same(e)
    BY <1>1, <1>2 DEF DropCache, Same, TypeOK
<1>7. Faithful(d)' /\ Authored' = Authored
    BY <1>1, <1>2 DEF Faithful, Authored
<1>8. mem'[d] \subseteq Authored' /\ tx'[d].held \subseteq Authored'
    BY <1>1, <1>6, <1>7 DEF Stored, AllKept, Known
<1>9. QED
    BY <1>5, <1>6, <1>7, <1>8, FactsStore DEF AllKept, Known

(* Versions are read and cached. *)
LEMMA FactsVersions ==
    ASSUME AllKept, NEW d \in Devices, NEW doc \in Facts,
           ReadVersion(d, doc) \/ CacheVersion(d, doc)
    PROVE  AllKept'
<1>1. UNCHANGED <<rows, changes, disk, mem, tx, wire>>
    BY DEF ReadVersion, CacheVersion, links
<1>2. QED
    BY <1>1, FactsLinks DEF Sent

(* An import holds the rows and what is saved, if what waited to be exported  *)
(* went first.                                                                *)
LEMMA FactsBeginImport ==
    ASSUME KeepInv, AllKept, NEW l \in Ends, BeginImport(l), ~overtaken'
    PROVE  AllKept'
<1> DEFINE d == l[1]
           m == Incoming(l)
<1>1. /\ TypeOK /\ Stored(d) /\ Faithful(d) /\ d \in Devices /\ Other(l) \in Ends
      /\ Shapes(Other(l))
    BY EndsFacts DEF KeepInv, AllKept
<1>2. /\ wire[Other(l)] # << >> /\ m.type = "Update"
      /\ UNCHANGED <<rows, changes, disk, fallen, wire>>
    BY DEF BeginImport, Reads, Incoming, links
<1>3. m \in Sent(Other(l))
    BY <1>1, <1>2, TailRange DEF Incoming, TypeOK, Sent
<1>4. OneDoc(m) /\ m.vers \subseteq Authored /\ \A x \in m.doc : m.vers \subseteq Of(x)
    BY <1>1, <1>2, <1>3 DEF Shapes, AllKept, Known
<1>5. PICK doc \in m.doc \cap Facts :
         LET exported == Part(mem[d], doc) \cup Pending(d, doc)
         IN /\ \E base \in Found(d, doc, exported) :
                 LET held == base \cup m.vers
                     remote == ~(m.vers \subseteq base)
                 IN /\ mem' = [mem EXCEPT ![d] = (@ \ Of(doc)) \cup held]
                    /\ tx' = [tx EXCEPT ![d] =
                         [kind |-> "import", doc |-> {doc}, from |-> {l[2]},
                          local |-> doc \in changes[d], remote |-> remote, held |-> held,
                          save |-> remote \/ exported # Part(mem[d], doc)]]
            /\ overtaken' = (overtaken \/ (doc \in changes[d] /\ Unsaved(d, doc)))
    BY DEF BeginImport
<1> DEFINE exported == Part(mem[d], doc) \cup Pending(d, doc)
<1>6. PICK base \in Found(d, doc, exported) :
         /\ mem' = [mem EXCEPT ![d] = (@ \ Of(doc)) \cup (base \cup m.vers)]
         /\ tx' = [tx EXCEPT ![d] =
              [kind |-> "import", doc |-> {doc}, from |-> {l[2]},
               local |-> doc \in changes[d], remote |-> ~(m.vers \subseteq base),
               held |-> base \cup m.vers,
               save |-> ~(m.vers \subseteq base) \/ exported # Part(mem[d], doc)]]
    BY <1>5
<1>7. ~(doc \in changes[d] /\ Unsaved(d, doc))
    BY <1>5
<1> DEFINE held == base \cup m.vers
           t == [kind |-> "import", doc |-> {doc}, from |-> {l[2]},
                 local |-> doc \in changes[d], remote |-> ~(m.vers \subseteq base), held |-> held,
                 save |-> ~(m.vers \subseteq base) \/ exported # Part(mem[d], doc)]
<1>8. tx' = [tx EXCEPT ![d] = t] /\ mem' = [mem EXCEPT ![d] = (@ \ Of(doc)) \cup held]
    BY <1>6
<1>9. /\ t.kind = "import" /\ t.doc = {doc} /\ t.held = held
      /\ t.local = (doc \in changes[d]) /\ t.remote = (~(m.vers \subseteq base))
      /\ t.save = (t.remote \/ exported # Part(mem[d], doc))
    OBVIOUS
<1>10. CASE doc \in changes[d]
  <2>1. /\ exported = Part(rows[d], doc) /\ Part(mem[d], doc) = Part(disk[d], doc)
    <3>1. Pending(d, doc) = Written(d, doc)
        BY <1>10 DEF Pending
    <3>2. QED
        BY <1>1, <1>7, <1>10, <3>1, Exporting
  <2>2. base = exported
      BY <1>6, <2>1 DEF Found
  <2>3. QED
    <3>1. /\ Part(rows[d], doc) \cup Part(disk[d], doc) \subseteq base
          /\ base = Part(rows[d], doc) /\ exported = base
      <4>1. Part(disk[d], doc) \subseteq Part(rows[d], doc)
          BY <1>1 DEF Faithful, Part
      <4>2. QED
          BY <2>1, <2>2, <4>1
    <3> HIDE DEF exported, t
    <3> USE DEF held
    <3>2. base \subseteq rows[d] /\ base \subseteq Of(doc) /\ m.vers \subseteq Of(doc)
        BY <1>4, <3>1 DEF Part
    <3>3. /\ Part(rows[d], doc) \cup Part(disk[d], doc) \subseteq held /\ held \subseteq Of(doc)
          /\ t.remote => t.save
          /\ t.save /\ ~t.remote => held \subseteq rows[d]
          /\ ~t.save => held \subseteq disk[d]
      <4>1. ~t.remote => held = base
          BY <1>9
      <4>2. ~t.save => held \subseteq disk[d]
          BY <1>9, <2>1, <3>1, <4>1 DEF Part
      <4>3. QED
          BY <1>9, <3>1, <3>2, <4>1, <4>2
    <3>4. /\ tx'[d] = t /\ mem'[d] \subseteq mem[d] \cup held /\ held \subseteq Authored
          /\ \A e \in Devices \ {d} : Same(e)
      <4>1. held \subseteq Authored
          BY <1>1, <1>4, <3>2 DEF Authored
      <4>2. QED
          BY <1>1, <1>2, <1>8, <4>1 DEF Same, TypeOK
    <3> HIDE DEF held, d, m
    <3>5. Faithful(d)'
        BY <1>1, <1>2, <1>9, <3>3, <3>4 DEF Faithful
    <3>6. Authored' = Authored
        BY <1>2 DEF Authored
    <3>7. mem'[d] \subseteq Authored' /\ tx'[d].held \subseteq Authored'
        BY <1>1, <1>9, <3>4, <3>6 DEF AllKept, Known
    <3>8. QED
        BY <1>1, <1>2, <3>4, <3>5, <3>6, <3>7, FactsStore DEF AllKept, Known, Sent
<1>11. CASE doc \notin changes[d]
  <2>1. Pending(d, doc) = {}
      BY <1>11 DEF Pending
  <2>2. base = Part(mem[d], doc) /\ exported = Part(mem[d], doc)
      BY <1>6, <1>11, <2>1 DEF Found
  <2>3. /\ Part(rows[d], doc) \subseteq base /\ Part(disk[d], doc) \subseteq base
        /\ base \subseteq mem[d] /\ base \subseteq Of(doc)
      BY <1>1, <1>11, <2>2 DEF Faithful, Stored, Part
  <2> HIDE DEF exported, t
  <2> USE DEF held
  <2>4. /\ Part(rows[d], doc) \cup Part(disk[d], doc) \subseteq held /\ held \subseteq Of(doc)
        /\ t.save = t.remote /\ ~t.local /\ t.kind # "export"
      BY <1>4, <1>9, <1>11, <2>2, <2>3
  <2>5. held \subseteq Authored
      BY <1>1, <1>4, <2>3 DEF AllKept, Known
  <2>6. /\ tx'[d] = t /\ mem'[d] \subseteq mem[d] \cup held
        /\ \A e \in Devices \ {d} : Same(e)
      BY <1>1, <1>2, <1>8 DEF Same, TypeOK
  <2> HIDE DEF held, d, m
  <2>7. Faithful(d)'
      BY <1>1, <1>2, <1>9, <2>4, <2>6 DEF Faithful
  <2>8. Authored' = Authored
      BY <1>2 DEF Authored
  <2>9. mem'[d] \subseteq Authored' /\ tx'[d].held \subseteq Authored'
      BY <1>1, <1>9, <2>5, <2>6, <2>8 DEF AllKept, Known
  <2>10. QED
      BY <1>1, <1>2, <2>6, <2>7, <2>8, <2>9, FactsStore DEF AllKept, Known, Sent
<1>12. QED
    BY <1>10, <1>11

(* A note's update is no part of a recording's document. *)
LEMMA FactsReadNote ==
    ASSUME KeepInv, AllKept, NEW l \in Ends, ReadNote(l)
    PROVE  AllKept'
<1> DEFINE d == l[1]
           m == Incoming(l)
<1>1. /\ TypeOK /\ Stored(d) /\ Faithful(d) /\ d \in Devices /\ Other(l) \in Ends
      /\ Shapes(Other(l))
    BY EndsFacts DEF KeepInv, AllKept
<1>2. PICK doc \in m.doc \cap Notes :
        /\ Answered(l, doc, queue)
        /\ \/ /\ mem' = [mem EXCEPT ![d] = @ \cup m.vers]
              /\ disk' = [disk EXCEPT ![d] = @ \cup m.vers]
              /\ rows' = [rows EXCEPT ![d] = @ \cup m.vers]
           \/ UNCHANGED <<mem, disk, rows>>
    BY DEF ReadNote
<1>3. /\ wire[Other(l)] # << >> /\ l \in up /\ m.type = "Update"
      /\ UNCHANGED <<changes, tx, fallen>>
    BY DEF ReadNote, Reads, Incoming
<1>4. m \in Message /\ m \in Sent(Other(l))
    BY <1>1, <1>3, TailRange DEF Incoming, TypeOK, Sent
<1>5. doc \in Docs /\ doc \notin Facts /\ m.vers \subseteq Of(doc) /\ m.vers \subseteq Authored
    BY <1>1, <1>2, <1>3, <1>4 DEF Message, Facts, AllKept, Known
<1>6. queue \in [Ends -> Seq(Outbound)] /\ \A k \in Ends \ up : queue[k] = << >>
    BY <1>1 DEF TypeOK
<1>7. \A k \in Ends : Sent(k)' \subseteq Sent(k)
    BY <1>2, <1>3, <1>5, <1>6, AnswerLinks DEF Queued
<1> HIDE DEF d, m
<1>8. /\ \A e \in Devices \ {d} : Same(e)
      /\ \/ mem'[d] = mem[d] /\ disk'[d] = disk[d] /\ rows'[d] = rows[d]
         \/ /\ mem'[d] = mem[d] \cup m.vers /\ disk'[d] = disk[d] \cup m.vers
            /\ rows'[d] = rows[d] \cup m.vers
    BY <1>1, <1>2, <1>3 DEF Same, TypeOK
<1>9. \A x \in Facts : Part(rows'[d], x) = Part(rows[d], x) /\ Part(disk'[d], x) = Part(disk[d], x)
  <2>1. \A x \in Facts : m.vers \cap Of(x) = {}
      BY <1>5 DEF Of
  <2>2. QED
      BY <1>8, <2>1 DEF Part
<1>10. rows[d] \subseteq rows'[d] /\ disk[d] \subseteq disk'[d]
    BY <1>8
<1>11. tx[d].doc \subseteq Facts
    BY <1>1, BegunTyped DEF Begun
<1>12. Faithful(d)'
  <2>1. tx'[d] = tx[d] /\ changes'[d] = changes[d]
      BY <1>3
  <2>2. QED
      BY <1>1, <1>9, <1>10, <1>11, <2>1 DEF Faithful
<1>13. Authored' = Authored
  <2>1. rows[d] \subseteq Authored
      BY <1>1 DEF Authored
  <2>2. rows[d] \subseteq rows'[d] /\ rows'[d] \subseteq Authored
      BY <1>5, <1>8, <2>1
  <2>3. QED
      BY <1>1, <1>8, <2>2 DEF Authored, Same
<1>14. mem'[d] \subseteq Authored' /\ tx'[d].held \subseteq Authored'
    BY <1>1, <1>3, <1>5, <1>8, <1>13 DEF AllKept, Known
<1>15. QED
    BY <1>1, <1>7, <1>8, <1>12, <1>13, <1>14, FactsStore DEF AllKept, Known

(* What an import does to its rows, when nothing was overtaken. *)
LEMMA ImportedRows ==
    ASSUME KeepInv, AllKept, NEW d \in Devices, CommitImport(d)
    PROVE  /\ rows[d] \subseteq rows'[d] /\ rows'[d] \subseteq rows[d] \cup tx[d].held
           /\ \A e \in Devices \ {d} : rows'[e] = rows[e]
           /\ tx[d].remote => tx[d].held \subseteq rows'[d]
           /\ \E doc \in Facts :
                 /\ tx[d].doc = {doc}
                 /\ changes' = [changes EXCEPT ![d] =
                                  IF tx[d].local \/ tx[d].remote THEN @ \ {doc} ELSE @]
                 /\ rows' = IF tx[d].remote
                            THEN [rows EXCEPT ![d] = (@ \ Of(doc)) \cup tx[d].held] ELSE rows
<1>1. TypeOK /\ Stored(d) /\ Faithful(d)
    BY DEF KeepInv, AllKept
<1>2. PICK doc \in tx[d].doc :
        /\ rows' = IF tx[d].remote
                   THEN [rows EXCEPT ![d] = (@ \ Of(doc)) \cup Shown(tx[d].held)] ELSE rows
        /\ changes' = [changes EXCEPT ![d] =
                         IF tx[d].local \/ tx[d].remote THEN @ \ {doc} ELSE @]
    BY DEF CommitImport
<1>3. doc \in Facts /\ tx[d].doc = {doc}
    BY <1>1, <1>2, Nothing DEF Stored, Sound
<1>4. Shown(tx[d].held) = tx[d].held
    BY AllShown DEF AllKept, Known
<1>5. Part(rows[d], doc) \subseteq tx[d].held
    BY <1>1, <1>2 DEF Faithful
<1>6. rows' = IF tx[d].remote
              THEN [rows EXCEPT ![d] = (@ \ Of(doc)) \cup tx[d].held] ELSE rows
    BY <1>2, <1>4
<1>7. /\ rows[d] \subseteq rows'[d] /\ rows'[d] \subseteq rows[d] \cup tx[d].held
      /\ \A e \in Devices \ {d} : rows'[e] = rows[e]
      /\ tx[d].remote => tx[d].held \subseteq rows'[d]
    BY <1>1, <1>5, <1>6 DEF Part, TypeOK
<1>8. QED
    BY <1>2, <1>3, <1>6, <1>7

(* The commit makes rows of what the document has, and saves it. *)
LEMMA FactsCommitImport ==
    ASSUME KeepInv, AllKept, NEW d \in Devices, CommitImport(d)
    PROVE  AllKept'
<1>1. TypeOK /\ Stored(d) /\ Faithful(d) /\ tx[d] \in Begun(d)
    BY DEF KeepInv, AllKept, Begun
<1>2. /\ tx[d].kind = "import" /\ Save(d) /\ tx' = [tx EXCEPT ![d] = NoTx]
      /\ UNCHANGED <<fallen, up>>
    BY DEF CommitImport
<1>3. PICK doc \in tx[d].doc :
        LET created == tx[d].remote /\ Part(rows[d], doc) = {}
            refreshed == IF created THEN Refreshed(d) ELSE queue
        IN \/ /\ tx[d].from = {}
              /\ queue' = refreshed
              /\ UNCHANGED <<wire, wanted, synced, dirty>>
           \/ \E e \in tx[d].from :
              /\ Answered(<<d, e>>, doc, refreshed)
              /\ dirty' = FanOut(d, IF tx[d].remote THEN {doc} ELSE {}, {e})
    BY DEF CommitImport
<1>4. \A k \in Ends : Sent(k)' \subseteq Sent(k)
  <2> DEFINE q == IF tx[d].remote /\ Part(rows[d], doc) = {} THEN Refreshed(d) ELSE queue
  <2>1. q = queue \/ q = Refreshed(d)
      OBVIOUS
  <2>2. \/ tx[d].from = {} /\ queue' = q /\ UNCHANGED <<wire, wanted, synced>>
        \/ \E e \in tx[d].from : Answered(<<d, e>>, doc, q)
      BY <1>3
  <2> HIDE DEF q
  <2>3. QED
      BY <1>1, <1>2, <2>1, <2>2, ImportOver
<1>5. PICK x \in Facts :
        /\ tx[d].doc = {x}
        /\ changes' = [changes EXCEPT ![d] = IF tx[d].local \/ tx[d].remote THEN @ \ {x} ELSE @]
        /\ rows' = IF tx[d].remote
                   THEN [rows EXCEPT ![d] = (@ \ Of(x)) \cup tx[d].held] ELSE rows
    BY ImportedRows
<1>6. /\ rows[d] \subseteq rows'[d] /\ rows'[d] \subseteq rows[d] \cup tx[d].held
      /\ \A e \in Devices \ {d} : rows'[e] = rows[e]
      /\ tx[d].remote => tx[d].held \subseteq rows'[d]
    BY ImportedRows
<1>7. /\ tx'[d] = NoTx
      /\ \A e \in Devices \ {d} : mem'[e] = mem[e] /\ disk'[e] = disk[e] /\ tx'[e] = tx[e]
      /\ \/ tx[d].save /\ mem'[d] = mem[d] \cup tx[d].held /\ disk'[d] = disk[d] \cup tx[d].held
         \/ ~tx[d].save /\ mem'[d] = mem[d] /\ disk'[d] = disk[d]
    BY <1>2, SaveEffect
<1>8. \A e \in Devices \ {d} : Same(e)
    BY <1>1, <1>2, <1>5, <1>6, <1>7 DEF Same, TypeOK
<1>9. /\ changes'[d] = IF tx[d].local \/ tx[d].remote THEN changes[d] \ {x} ELSE changes[d]
      /\ rows'[d] = IF tx[d].remote THEN (rows[d] \ Of(x)) \cup tx[d].held ELSE rows[d]
    BY <1>1, <1>5 DEF TypeOK
<1>10. /\ Part(rows[d], x) \cup Part(disk[d], x) \subseteq tx[d].held
       /\ tx[d].held \subseteq Of(x)
    BY <1>1, <1>5 DEF Faithful
<1>11. \A y \in Facts : Part(disk'[d], y) \subseteq rows'[d]
  <2>1. tx[d].save => tx[d].held \subseteq rows'[d]
      BY <1>1, <1>6 DEF Faithful
  <2>2. QED
      BY <1>1, <1>6, <1>7, <2>1 DEF Faithful, Part
<1>12. \A y \in Facts : y \in changes'[d] \/ Part(rows'[d], y) \subseteq disk'[d]
  <2> TAKE y \in Facts
  <2>1. disk[d] \subseteq disk'[d]
      BY <1>7
  <2>2. CASE y # x
    <3>1. tx[d].held \cap Of(y) = {}
        BY <1>10, <2>2 DEF Of
    <3>2. Part(rows'[d], y) = Part(rows[d], y)
        BY <1>6, <3>1 DEF Part
    <3>3. QED
        BY <1>1, <1>9, <2>1, <2>2, <3>2 DEF Faithful
  <2>3. CASE y = x /\ (tx[d].local \/ tx[d].remote)
    <3>1. Part(rows'[d], x) \subseteq tx[d].held
        BY <1>9, <1>10 DEF Part
    <3>2. tx[d].held \subseteq disk'[d]
        BY <1>1, <1>7, <2>3 DEF Faithful
    <3>3. QED
        BY <2>3, <3>1, <3>2
  <2>4. CASE ~(tx[d].local \/ tx[d].remote)
      BY <1>1, <1>9, <2>1, <2>4 DEF Faithful
  <2>5. QED
      BY <2>2, <2>3, <2>4
<1>13. Faithful(d)'
    BY <1>7, <1>11, <1>12, Nothing DEF Faithful
<1>14. Authored' = Authored
  <2>1. rows[d] \subseteq Authored /\ tx[d].held \subseteq Authored
      BY DEF Authored, AllKept, Known
  <2>2. QED
      BY <1>6, <2>1 DEF Authored
<1>15. mem'[d] \subseteq Authored' /\ tx'[d].held \subseteq Authored'
    BY <1>7, <1>14, Nothing DEF AllKept, Known
<1>16. QED
    BY <1>4, <1>8, <1>13, <1>14, <1>15, FactsStore DEF AllKept, Known

(* Links close, and some devices start again from what is saved. *)
LEMMA FactsClosing ==
    ASSUME KeepInv, AllKept, NEW ends \in SUBSET Ends,
           wire' = [l \in Ends |-> IF l \in ends THEN << >> ELSE wire[l]],
           NEW gone \in SUBSET Devices,
           tx' = [e \in Devices |-> IF e \in gone THEN NoTx ELSE Orphaned(tx[e], e, ends)],
           mem' = [e \in Devices |-> IF e \in gone THEN disk[e] ELSE mem[e]],
           UNCHANGED <<rows, changes, disk>>
    PROVE  AllKept'
<1>1. Authored' = Authored
    BY DEF Authored
<1>2. ASSUME NEW e \in Devices
      PROVE  Faithful(e)' /\ mem'[e] \subseteq Authored /\ tx'[e].held \subseteq Authored
  <2>1. TypeOK /\ Stored(e) /\ Faithful(e) /\ mem[e] \subseteq Authored /\ tx[e].held \subseteq Authored
      BY DEF KeepInv, AllKept, Known
  <2>2. CASE e \in gone
    <3>1. tx'[e] = NoTx /\ mem'[e] = disk[e]
        BY <2>2
    <3>2. QED
        BY <2>1, <3>1, Nothing DEF Faithful, Stored
  <2>3. CASE e \notin gone
    <3>1. tx[e] \in Tx /\ Sound(tx[e])
        BY <2>1 DEF TypeOK, Stored
    <3> DEFINE o == Orphaned(tx[e], e, ends)
    <3>2. /\ o.doc = tx[e].doc /\ o.held = tx[e].held /\ o.save = tx[e].save
          /\ o.kind = tx[e].kind /\ o.local = tx[e].local /\ o.remote = tx[e].remote
        BY <3>1, OrphanedFacts
    <3> HIDE DEF o
    <3>3. tx'[e] = o /\ mem'[e] = mem[e]
        BY <2>3 DEF o
    <3>4. QED
        BY <2>1, <3>2, <3>3 DEF Faithful
  <2>4. QED
      BY <2>2, <2>3
<1>3. \A k \in Ends : Sent(k)' \subseteq Sent(k)
    BY EmptyRange DEF Sent
<1>4. QED
    BY <1>1, <1>2, <1>3 DEF AllKept, Known

(* A link that breaks, and a process that starts again. *)
LEMMA FactsBreak ==
    ASSUME KeepInv, AllKept,
           \/ \E p \in Pairs : Break(p)
           \/ \E d \in Devices : Restart(d)
    PROVE  AllKept'
<1>1. TypeOK
    BY DEF KeepInv
<1>2. ASSUME NEW p \in Pairs, Break(p)
      PROVE  AllKept'
  <2>1. /\ wire' = [l \in Ends |-> IF l \in EndsOfPair(p) THEN << >> ELSE wire[l]]
        /\ tx' = [e \in Devices |-> IF e \in {} THEN NoTx ELSE Orphaned(tx[e], e, EndsOfPair(p))]
        /\ mem' = [e \in Devices |-> IF e \in {} THEN disk[e] ELSE mem[e]]
        /\ UNCHANGED <<rows, changes, disk>>
      BY <1>1, <1>2 DEF Break, Close, TypeOK
  <2>2. EndsOfPair(p) \in SUBSET Ends /\ {} \in SUBSET Devices
      BY DEF EndsOfPair
  <2>3. QED
      BY <2>1, <2>2, FactsClosing
<1>3. ASSUME NEW d \in Devices, Restart(d)
      PROVE  AllKept'
  <2> DEFINE ends == {l \in Ends : d \in {l[1], l[2]}}
  <2>1. /\ wire' = [l \in Ends |-> IF l \in ends THEN << >> ELSE wire[l]]
        /\ tx' = [e \in Devices |-> IF e \in {d} THEN NoTx ELSE Orphaned(tx[e], e, ends)]
        /\ mem' = [e \in Devices |-> IF e \in {d} THEN disk[e] ELSE mem[e]]
        /\ UNCHANGED <<rows, changes, disk>>
      BY <1>1, <1>3 DEF Restart, Close, DropCache, TypeOK
  <2>2. ends \in SUBSET Ends /\ {d} \in SUBSET Devices
      OBVIOUS
  <2> HIDE DEF ends
  <2>3. QED
      BY <2>1, <2>2, FactsClosing
<1>4. QED
    BY <1>2, <1>3

(* Nothing is anywhere at the start. *)
LEMMA FactsInit ==
    ASSUME Init
    PROVE  FactsInv
<1>1. Authored = {} /\ \A k \in Ends : Sent(k) = {}
    BY EmptyRange DEF Init, Authored, Sent
<1>2. Known
    BY <1>1, Nothing DEF Init, Known
<1>3. \A d \in Devices : Faithful(d)
    BY Nothing DEF Init, Faithful, Part
<1>4. QED
    BY <1>2, <1>3 DEF FactsInv, AllKept

(* Once overtaken is set it stays. *)
LEMMA OvertakenStays ==
    ASSUME [Next]_vars, overtaken
    PROVE  overtaken'
<1>1. CASE \E u \in Updates : LocalEdit(u)
    BY <1>1 DEF LocalEdit
<1>2. CASE StoreStep
  <2>1. PICK d \in Devices :
          \/ CommitExport(d) \/ CommitImport(d) \/ RollBack(d) \/ EndFailure(d)
          \/ \E doc \in Facts : BeginExport(d, doc) \/ ReadVersion(d, doc) \/ CacheVersion(d, doc)
      BY <1>2 DEF StoreStep
  <2>2. CASE CommitExport(d) \/ CommitImport(d) \/ RollBack(d) \/ EndFailure(d)
      BY <2>2 DEF CommitExport, CommitImport, RollBack, EndFailure
  <2>3. CASE \E doc \in Facts : BeginExport(d, doc) \/ ReadVersion(d, doc) \/ CacheVersion(d, doc)
      BY <2>3 DEF BeginExport, ReadVersion, CacheVersion
  <2>4. QED
      BY <2>1, <2>2, <2>3
<1>3. CASE LinkStep
  <2>1. PICK l \in Ends :
          \/ WriteQueued(l) \/ WriteDirty(l) \/ Tick(l) \/ ReadSummary(l) \/ ReadWant(l)
          \/ ReadRequest(l) \/ ReadEmpty(l) \/ ReadNote(l) \/ BeginImport(l)
      BY <1>3 DEF LinkStep, Writer, Reader
  <2>2. CASE WriteQueued(l) \/ WriteDirty(l) \/ Tick(l)
      BY <2>2 DEF WriteQueued, WriteDirty, Tick
  <2>3. CASE ReadSummary(l) \/ ReadWant(l) \/ ReadRequest(l) \/ ReadEmpty(l) \/ ReadNote(l)
      BY <2>3 DEF ReadSummary, ReadWant, ReadRequest, ReadEmpty, ReadNote
  <2>4. CASE BeginImport(l)
      BY <2>4 DEF BeginImport
  <2>5. QED
      BY <2>1, <2>2, <2>3, <2>4
<1>4. CASE (\E p \in Pairs : Connect(p) \/ Break(p)) \/ \E d \in Devices : Restart(d)
    BY <1>4 DEF Connect, Break, Restart
<1>5. CASE UNCHANGED vars
    BY <1>5 DEF vars
<1>6. QED
    BY <1>1, <1>2, <1>3, <1>4, <1>5 DEF Next

(* Every step that does not overtake keeps the facts. *)
LEMMA FactsInvStep ==
    ASSUME SyncAssumption, KeepInv, FactsInv, [Next]_vars
    PROVE  FactsInv'
<1>1. overtaken => overtaken'
    BY OvertakenStays
<1>2. SUFFICES ASSUME AllKept, ~overtaken'
               PROVE  AllKept'
    BY <1>1 DEF FactsInv
<1>3. CASE \E u \in Updates : LocalEdit(u)
    BY <1>2, <1>3, FactsLocalEdit
<1>4. CASE StoreStep
    BY <1>2, <1>4, FactsCommitExport, FactsCommitImport, FactsRollBack, FactsEndFailure,
       FactsBeginExport, FactsVersions DEF StoreStep
<1>5. CASE LinkStep
    BY <1>2, <1>5, FactsOfLinks, FactsReadNote, FactsBeginImport DEF LinkStep, Writer, Reader
<1>6. CASE \E p \in Pairs : Connect(p)
  <2>1. UNCHANGED <<rows, changes, disk, mem, tx, wire>>
      BY <1>6 DEF Connect, store
  <2>2. QED
      BY <1>2, <2>1, FactsLinks DEF Sent
<1>7. CASE (\E p \in Pairs : Break(p)) \/ \E d \in Devices : Restart(d)
    BY <1>2, <1>7, FactsBreak
<1>8. CASE UNCHANGED vars
  <2>1. UNCHANGED <<rows, changes, disk, mem, tx, wire>>
      BY <1>8 DEF vars, store, links
  <2>2. QED
      BY <1>2, <2>1, FactsLinks DEF Sent
<1>9. QED
    BY <1>3, <1>4, <1>5, <1>6, <1>7, <1>8 DEF Next

-----------------------------------------------------------------------------
(* Rows: a device makes a fact, learns facts that were made, or neither.     *)

(* What a device's rows come to by learning. *)
LEMMA Learning ==
    ASSUME TypeOK, NEW d \in Devices, rows' \in [Devices -> SUBSET Updates],
           rows[d] \subseteq rows'[d], rows'[d] \subseteq Authored,
           \A e \in Devices \ {d} : rows'[e] = rows[e]
    PROVE  Promise!Next
<1>1. rows'[d] \in SUBSET UNION {rows[e] : e \in Devices}
    BY DEF Authored
<1>2. rows \in [Devices -> SUBSET Updates]
    BY DEF TypeOK
<1>3. rows' = [rows EXCEPT ![d] = @ \cup rows'[d]]
    BY <1>2
<1>4. Promise!Learn(d)
    BY <1>1, <1>3 DEF Promise!Learn
<1>5. QED
    BY <1>4 DEF Promise!Next

(* A device learns facts that some device has. *)
Learns(d) ==
    /\ rows[d] \subseteq rows'[d] /\ rows'[d] \subseteq Authored
    /\ \A e \in Devices \ {d} : rows'[e] = rows[e]

(* What a step can do to the rows, until rows are exported into a document    *)
(* that was to be dropped.                                                    *)
LEMMA RowsStep ==
    ASSUME SyncAssumption, KeepInv, AllKept, [Next]_vars
    PROVE  \/ \E u \in Updates : LocalEdit(u)
           \/ \E d \in Devices : Learns(d)
           \/ UNCHANGED rows
<1>1. TypeOK /\ Known
    BY DEF KeepInv, AllKept
<1>2. ASSUME NEW l \in Ends, ReadNote(l)
      PROVE  Learns(l[1]) \/ UNCHANGED rows
  <2> DEFINE d == l[1]
             m == Incoming(l)
  <2>1. d \in Devices /\ Other(l) \in Ends
      BY EndsFacts
  <2>2. wire[Other(l)] # << >> /\ m.type = "Update"
      BY <1>2 DEF ReadNote, Reads, Incoming
  <2>3. m \in Sent(Other(l))
      BY <1>1, <2>1, <2>2, TailRange DEF Incoming, TypeOK, Sent
  <2>4. m.vers \subseteq Authored
      BY <1>1, <2>1, <2>2, <2>3 DEF Known
  <2>5. rows' = [rows EXCEPT ![d] = @ \cup m.vers] \/ UNCHANGED rows
      BY <1>2 DEF ReadNote
  <2> HIDE DEF m, d
  <2>6. CASE rows' = [rows EXCEPT ![d] = @ \cup m.vers]
    <3>1. rows'[d] = rows[d] \cup m.vers /\ \A e \in Devices \ {d} : rows'[e] = rows[e]
        BY <1>1, <2>1, <2>6 DEF TypeOK
    <3>2. rows[d] \subseteq Authored
        BY <2>1 DEF Authored
    <3>3. Learns(d)
        BY <2>1, <2>4, <3>1, <3>2 DEF Learns
    <3>4. QED
        BY <3>3 DEF d
  <2>7. QED
      BY <2>5, <2>6
<1>3. ASSUME NEW d \in Devices, CommitImport(d)
      PROVE  Learns(d)
  <2>1. /\ rows[d] \subseteq rows'[d] /\ rows'[d] \subseteq rows[d] \cup tx[d].held
        /\ \A e \in Devices \ {d} : rows'[e] = rows[e]
      BY <1>3, ImportedRows
  <2>2. rows[d] \subseteq Authored /\ tx[d].held \subseteq Authored
      BY <1>1 DEF Authored, Known
  <2>3. QED
      BY <2>1, <2>2 DEF Learns
<1>4. ASSUME NEW d \in Devices,
             \/ CommitExport(d) \/ RollBack(d) \/ EndFailure(d) \/ Restart(d)
             \/ \E doc \in Facts : BeginExport(d, doc) \/ ReadVersion(d, doc) \/ CacheVersion(d, doc)
      PROVE  UNCHANGED rows
    BY <1>4 DEF CommitExport, RollBack, EndFailure, BeginExport, ReadVersion, CacheVersion, Restart
<1>5. ASSUME NEW l \in Ends,
             \/ WriteQueued(l) \/ WriteDirty(l) \/ Tick(l) \/ ReadSummary(l) \/ ReadWant(l)
             \/ ReadRequest(l) \/ ReadEmpty(l) \/ BeginImport(l)
      PROVE  UNCHANGED rows
    BY <1>5 DEF WriteQueued, WriteDirty, Tick, ReadSummary, ReadWant, ReadRequest, ReadEmpty,
                BeginImport, store
<1>6. ASSUME NEW p \in Pairs, Connect(p) \/ Break(p)
      PROVE  UNCHANGED rows
    BY <1>6 DEF Connect, Break, store
<1>7. CASE UNCHANGED vars
    BY <1>7 DEF vars, store
<1>8. QED
    BY EndsFacts, <1>2, <1>3, <1>4, <1>5, <1>6, <1>7
       DEF Next, StoreStep, LinkStep, Writer, Reader

(* Every step is a step of the promise, or none, or overtakes a failure. *)
LEMMA FactsStep ==
    ASSUME SyncAssumption, KeepInv, KeepInv', FactsInv, [Next]_vars
    PROVE  [Promise!Next \/ overtaken']_rows
<1>1. TypeOK /\ TypeOK'
    BY DEF KeepInv
<1>2. ASSUME NEW u \in Updates, LocalEdit(u)
      PROVE  Promise!Next
  <2>1. Maker[u] \in Devices
      BY DEF SyncAssumption
  <2>2. u \in Updates \ UNION {rows[e] : e \in Devices}
      BY <1>2 DEF LocalEdit, Authored
  <2>3. rows' = [rows EXCEPT ![Maker[u]] = @ \cup {u}]
      BY <1>2 DEF LocalEdit
  <2>4. Promise!Author(Maker[u])
      BY <2>2, <2>3 DEF Promise!Author
  <2>5. QED
      BY <2>1, <2>4 DEF Promise!Next
<1>3. ASSUME NEW d \in Devices, Learns(d)
      PROVE  Promise!Next
  <2>1. rows' \in [Devices -> SUBSET Updates]
      BY <1>1 DEF TypeOK
  <2>2. QED
      BY <1>1, <1>3, <2>1, Learning DEF Learns
<1>4. CASE overtaken
    BY <1>4, OvertakenStays
<1>5. CASE AllKept
    BY <1>2, <1>3, <1>5, RowsStep
<1>6. QED
    BY <1>4, <1>5 DEF FactsInv

(* Synchronisation implements the library replica: a fact appears on a device *)
(* because it was made there or on another one, and stays.  A document that   *)
(* is imported has the rows it replaces, even those never exported; failed    *)
(* transactions, their caches dropped later, change nothing about it until a  *)
(* device exports rows into a document that a failure has left unsaved.       *)
THEOREM FactsAreKept == Spec => KeepsFactsUnlessOvertaken
<1>1. Init => KeepInv /\ FactsInv
    BY SyncAssumption, KeepInit, FactsInit
<1>2. KeepInv /\ FactsInv /\ [Next]_vars => KeepInv' /\ FactsInv'
    BY SyncAssumption, KeepStep, FactsInvStep
<1>3. Init => Promise!Init
    BY DEF Init, Promise!Init
<1>4. KeepInv /\ KeepInv' /\ FactsInv /\ [Next]_vars => [Promise!Next \/ overtaken']_rows
    BY SyncAssumption, FactsStep
<1>5. QED
    BY <1>1, <1>2, <1>3, <1>4, PTL DEF Spec, KeepsFactsUnlessOvertaken

-----------------------------------------------------------------------------
(* A request, or its answer, for each document that is awaited.              *)

QW(l, doc) == Count(queue[l], "Want", doc)
WW(l, doc) == Count(wire[l], "Want", doc)
QS(l, doc) == Count(queue[l], "Serve", doc)
WU(l, doc) == Count(wire[l], "Update", doc)

Booked(l, doc) ==
    QW(l, doc) + WW(l, doc) + QS(Other(l), doc) + WU(Other(l), doc)
      = IF wanted[l][doc] = "no" THEN 0 ELSE 1

OneInv == KeepInv /\ \A l \in Ends, doc \in Docs : Booked(l, doc)

(* This is the property of the link. *)
LEMMA OneMeans == OneInv => OneRequestEach
    BY DEF OneInv, KeepInv, OneRequestEach, Booked, QW, WW, QS, WU

(* Requests and answers are counted in numbers. *)
LEMMA CountsAreNumbers ==
    ASSUME TypeOK, NEW l \in Ends, NEW doc \in Docs
    PROVE  QW(l, doc) \in Nat /\ WW(l, doc) \in Nat /\ QS(l, doc) \in Nat /\ WU(l, doc) \in Nat
<1>1. queue[l] \in Seq(Outbound) /\ wire[l] \in Seq(Message)
    BY QueueTypes
<1>2. \A t : Count(queue[l], t, doc) \in Nat
    BY <1>1, CountType
<1>3. \A t : Count(wire[l], t, doc) \in Nat
    BY <1>1, CountType
<1>4. QED
    BY <1>2, <1>3 DEF QW, WW, QS, WU

SameCounts(l, doc) ==
    /\ QW(l, doc)' = QW(l, doc) /\ WW(l, doc)' = WW(l, doc)
    /\ QS(l, doc)' = QS(l, doc) /\ WU(l, doc)' = WU(l, doc)

(* A step of one link concerns its two ends only. *)
LEMMA OneLink ==
    ASSUME OneInv, KeepInv', NEW l \in Ends,
           \A k \in Ends : k \notin {l, Other(l)} =>
              wanted'[k] = wanted[k] /\ \A doc \in Docs : SameCounts(k, doc),
           \A doc \in Docs : Booked(l, doc)' /\ Booked(Other(l), doc)'
    PROVE  OneInv'
<1>1. ASSUME NEW k \in Ends, NEW doc \in Docs, k \notin {l, Other(l)}
      PROVE  Booked(k, doc)'
  <2>1. Other(k) \in Ends /\ Other(k) \notin {l, Other(l)}
      BY <1>1, EndsFacts
  <2>2. SameCounts(k, doc) /\ SameCounts(Other(k), doc) /\ wanted'[k] = wanted[k]
      BY <1>1, <2>1
  <2>3. Booked(k, doc)
      BY <1>1 DEF OneInv
  <2>4. QED
      BY <2>2, <2>3 DEF Booked, SameCounts
<1>2. QED
    BY <1>1 DEF OneInv

(* Nothing is asked and nothing answered. *)
LEMMA OneSame ==
    ASSUME OneInv, KeepInv', wanted' = wanted, \A k \in Ends, doc \in Docs : SameCounts(k, doc)
    PROVE  OneInv'
<1>1. ASSUME NEW k \in Ends, NEW doc \in Docs
      PROVE  Booked(k, doc)'
  <2>1. Other(k) \in Ends /\ SameCounts(k, doc) /\ SameCounts(Other(k), doc) /\ Booked(k, doc)
      BY EndsFacts DEF OneInv
  <2>2. QED
      BY <2>1 DEF Booked, SameCounts
<1>2. QED
    BY <1>1 DEF OneInv

(* A step that leaves requests and answers alone. *)
LEMMA OneUnchanged ==
    ASSUME OneInv, KeepInv', UNCHANGED <<queue, wire, wanted>>
    PROVE  OneInv'
<1>1. \A k \in Ends, doc \in Docs : SameCounts(k, doc)
    BY DEF SameCounts, QW, WW, QS, WU
<1>2. QED
    BY <1>1, OneSame

(* What one message more or less does to the counts. *)
LEMMA WireAdds ==
    ASSUME NEW l, NEW m, NEW doc, Adds(Message, wire[l], wire'[l], m)
    PROVE  /\ WW(l, doc)' = WW(l, doc) + One(m, "Want", doc)
           /\ WU(l, doc)' = WU(l, doc) + One(m, "Update", doc)
    BY DEF Adds, WW, WU

(* A message read is one less of its kind. *)
LEMMA WireTakes ==
    ASSUME NEW l, NEW m, NEW doc, Takes(Message, wire[l], wire'[l], m)
    PROVE  /\ WW(l, doc) = WW(l, doc)' + One(m, "Want", doc)
           /\ WU(l, doc) = WU(l, doc)' + One(m, "Update", doc)
    BY DEF Takes, WW, WU

(* An item queued is one more of its kind. *)
LEMMA QueueAdds ==
    ASSUME NEW l, NEW x, NEW doc, Adds(Outbound, queue[l], queue'[l], x)
    PROVE  /\ QW(l, doc)' = QW(l, doc) + One(x, "Want", doc)
           /\ QS(l, doc)' = QS(l, doc) + One(x, "Serve", doc)
    BY DEF Adds, QW, QS

(* An item taken is one less of its kind. *)
LEMMA QueueTakes ==
    ASSUME NEW l, NEW x, NEW doc, Takes(Outbound, queue[l], queue'[l], x)
    PROVE  /\ QW(l, doc) = QW(l, doc)' + One(x, "Want", doc)
           /\ QS(l, doc) = QS(l, doc)' + One(x, "Serve", doc)
    BY DEF Takes, QW, QS

(* An end whose queue and wire are left alone. *)
LEMMA LinkAlone ==
    ASSUME NEW k, NEW doc
    PROVE  /\ queue'[k] = queue[k] => QW(k, doc)' = QW(k, doc) /\ QS(k, doc)' = QS(k, doc)
           /\ wire'[k] = wire[k] => WW(k, doc)' = WW(k, doc) /\ WU(k, doc)' = WU(k, doc)
    BY DEF QW, QS, WW, WU

(* Announcements are neither requests nor answers. *)
LEMMA OneAnnouncing ==
    ASSUME OneInv, KeepInv', NEW l \in Ends, WriteDirty(l) \/ Tick(l)
    PROVE  OneInv'
<1>1. TypeOK /\ TypeOK'
    BY DEF OneInv, KeepInv
<1>2. /\ \/ wire' = wire
         \/ \E c \in BOOLEAN : \E docs : Adds(Message, wire[l], wire'[l], Summary(c, l[1], docs))
      /\ Only(wire, wire', Message, {l}) /\ UNCHANGED <<queue, wanted>>
    BY <1>1, WriteDirtyEffect, TickEffect DEF Rest
<1>3. ASSUME NEW k \in Ends, NEW doc \in Docs
      PROVE  SameCounts(k, doc)
  <2>1. QW(k, doc)' = QW(k, doc) /\ QS(k, doc)' = QS(k, doc)
      BY <1>2, LinkAlone
  <2>2. CASE wire'[k] = wire[k]
      BY <2>1, <2>2, LinkAlone DEF SameCounts
  <2>3. CASE wire'[k] # wire[k]
    <3>1. k = l /\ wire' # wire
        BY <1>2, <2>3 DEF Only
    <3>2. PICK c, docs : c \in BOOLEAN /\ Adds(Message, wire[l], wire'[l], Summary(c, l[1], docs))
        BY <1>2, <3>1
    <3>3. Summary(c, l[1], docs).type \in {"Complete", "Partial"}
        BY SummaryParts
    <3>4. One(Summary(c, l[1], docs), "Want", doc) = 0 /\ One(Summary(c, l[1], docs), "Update", doc) = 0
        BY <3>3 DEF One, Matches
    <3>5. WW(k, doc) \in Nat /\ WU(k, doc) \in Nat
        BY <1>1, CountsAreNumbers
    <3>6. /\ WW(k, doc)' = WW(k, doc) + One(Summary(c, l[1], docs), "Want", doc)
          /\ WU(k, doc)' = WU(k, doc) + One(Summary(c, l[1], docs), "Update", doc)
        BY <3>1, <3>2, WireAdds
    <3>7. QED
        BY <2>1, <3>4, <3>5, <3>6 DEF SameCounts
  <2>4. QED
      BY <2>2, <2>3
<1>4. QED
    BY <1>2, <1>3, OneSame

(* The writer turns an item into a message: a request stays a request and an  *)
(* answer an answer.                                                          *)
LEMMA OneWriteQueued ==
    ASSUME OneInv, KeepInv', NEW l \in Ends, WriteQueued(l)
    PROVE  OneInv'
<1>1. TypeOK /\ TypeOK' /\ Shapes(l) /\ l[1] \in Devices /\ Other(l) \in Ends /\ Other(l) # l
      /\ Other(Other(l)) = l
    BY EndsFacts DEF OneInv, KeepInv
<1>2. PICK item \in Outbound : item \in Queued(l) /\ WritesItem(l, item)
    BY <1>1, WriteQueuedEffect
<1>3. /\ Only(wire, wire', Message, {l}) /\ Only(queue, queue', Outbound, {l}) /\ wanted' = wanted
    BY <1>1, WriteQueuedEffect DEF Rest
<1>4. \A k \in Ends \ {l}, doc \in Docs : SameCounts(k, doc)
    BY <1>3, LinkAlone DEF Only, SameCounts
<1>5. \A doc \in Docs : /\ QW(l, doc) \in Nat /\ WW(l, doc) \in Nat
                        /\ QS(l, doc) \in Nat /\ WU(l, doc) \in Nat
                        /\ QW(l, doc)' \in Nat /\ WW(l, doc)' \in Nat
                        /\ QS(l, doc)' \in Nat /\ WU(l, doc)' \in Nat
  <2>1. \A doc \in Docs : QW(l, doc) \in Nat /\ WW(l, doc) \in Nat
                          /\ QS(l, doc) \in Nat /\ WU(l, doc) \in Nat
      BY <1>1, CountsAreNumbers
  <2>2. ASSUME NEW doc \in Docs
        PROVE  QW(l, doc)' \in Nat /\ WW(l, doc)' \in Nat /\ QS(l, doc)' \in Nat /\ WU(l, doc)' \in Nat
    <3>1. queue'[l] \in Seq(Outbound) /\ wire'[l] \in Seq(Message)
        BY <1>1 DEF TypeOK
    <3>2. \A t : Count(queue'[l], t, doc) \in Nat
        BY <3>1, CountType
    <3>3. \A t : Count(wire'[l], t, doc) \in Nat
        BY <3>1, CountType
    <3>4. QED
        BY <3>2, <3>3 DEF QW, WW, QS, WU
  <2>3. QED
      BY <2>1, <2>2
<1>6. ASSUME NEW doc \in Docs
      PROVE  /\ QW(l, doc)' + WW(l, doc)' = QW(l, doc) + WW(l, doc)
             /\ QS(l, doc)' + WU(l, doc)' = QS(l, doc) + WU(l, doc)
  <2>1. CASE item.type \in {"Complete", "RequestSummary"}
    <3>1. PICK m \in Message : /\ Adds(Message, wire[l], wire'[l], m)
                               /\ m.type \in {"Complete", "RequestSummary"}
      <4>1. Summary(TRUE, l[1], Docs).type = "Complete" /\ RequestSummary.type = "RequestSummary"
        <5>1. Summary(TRUE, l[1], Docs).type = "Complete"
            BY SummaryTypes, Zenon
        <5>2. RequestSummary.type = "RequestSummary"
            BY Formed
        <5>3. QED
            BY <5>1, <5>2
      <4>2. QED
          BY <1>2, <2>1, <4>1 DEF WritesItem, Adds
    <3>2. Takes(Outbound, queue[l], queue'[l], item)
        BY <1>2, <2>1 DEF WritesItem
    <3>3. /\ One(m, "Want", doc) = 0 /\ One(m, "Update", doc) = 0
          /\ One(item, "Want", doc) = 0 /\ One(item, "Serve", doc) = 0
        BY <2>1, <3>1 DEF One, Matches
    <3>4. /\ WW(l, doc)' = WW(l, doc) + One(m, "Want", doc)
          /\ WU(l, doc)' = WU(l, doc) + One(m, "Update", doc)
        BY <3>1, WireAdds
    <3>5. /\ QW(l, doc) = QW(l, doc)' + One(item, "Want", doc)
          /\ QS(l, doc) = QS(l, doc)' + One(item, "Serve", doc)
        BY <3>2, QueueTakes
    <3>6. QED
        BY <1>5, <3>3, <3>4, <3>5
  <2>2. CASE item.type = "Want"
    <3>1. PICK x \in item.doc :
            /\ x \in Docs
            /\ Adds(Message, wire[l], wire'[l], Want(x, VersionOf(l[1], x)))
            /\ \/ item.doc = {x} /\ Takes(Outbound, queue[l], queue'[l], item)
               \/ \E rest \in Outbound :
                    /\ rest.type = "Want" /\ rest.doc = item.doc \ {x}
                    /\ Swaps(Outbound, queue[l], queue'[l], item, rest)
        BY <1>2, <2>2 DEF WritesItem
    <3>2. VersionOf(l[1], x) \in SUBSET Updates
        BY <1>1, <3>1, Computed
    <3>3. Want(x, VersionOf(l[1], x)).type = "Want" /\ Want(x, VersionOf(l[1], x)).doc = {x}
        BY <3>1, <3>2, Formed
    <3>4. /\ One(Want(x, VersionOf(l[1], x)), "Want", doc) = IF doc = x THEN 1 ELSE 0
          /\ One(Want(x, VersionOf(l[1], x)), "Update", doc) = 0
        BY <3>3 DEF One, Matches
    <3>5. /\ WW(l, doc)' = WW(l, doc) + One(Want(x, VersionOf(l[1], x)), "Want", doc)
          /\ WU(l, doc)' = WU(l, doc) + One(Want(x, VersionOf(l[1], x)), "Update", doc)
        BY <3>1, WireAdds
    <3>6. /\ QW(l, doc) = QW(l, doc)' + (IF doc = x THEN 1 ELSE 0)
          /\ QS(l, doc) = QS(l, doc)'
      <4>1. CASE item.doc = {x} /\ Takes(Outbound, queue[l], queue'[l], item)
        <5>1. One(item, "Want", doc) = (IF doc = x THEN 1 ELSE 0) /\ One(item, "Serve", doc) = 0
            BY <2>2, <4>1 DEF One, Matches
        <5>2. /\ QW(l, doc) = QW(l, doc)' + One(item, "Want", doc)
              /\ QS(l, doc) = QS(l, doc)' + One(item, "Serve", doc)
            BY <4>1, QueueTakes
        <5>3. QED
            BY <1>5, <5>1, <5>2
      <4>2. ASSUME NEW rest \in Outbound, rest.type = "Want", rest.doc = item.doc \ {x},
                   Swaps(Outbound, queue[l], queue'[l], item, rest)
            PROVE  /\ QW(l, doc) = QW(l, doc)' + (IF doc = x THEN 1 ELSE 0)
                   /\ QS(l, doc) = QS(l, doc)'
        <5>1. /\ One(item, "Want", doc) = One(rest, "Want", doc) + (IF doc = x THEN 1 ELSE 0)
              /\ One(item, "Serve", doc) = 0 /\ One(rest, "Serve", doc) = 0
              /\ One(rest, "Want", doc) \in Nat
          <6>1. doc \in rest.doc <=> doc \in item.doc /\ doc # x
              BY <4>2
          <6>2. /\ One(item, "Want", doc) = IF doc \in item.doc THEN 1 ELSE 0
                /\ One(rest, "Want", doc) = IF doc \in rest.doc THEN 1 ELSE 0
                /\ One(item, "Serve", doc) = 0 /\ One(rest, "Serve", doc) = 0
              BY <2>2, <4>2 DEF One, Matches
          <6>3. x \in item.doc
              BY <3>1
          <6>4. CASE doc = x
              BY <6>1, <6>2, <6>3, <6>4
          <6>5. CASE doc # x
              BY <6>1, <6>2, <6>5
          <6>6. QED
              BY <6>4, <6>5
        <5>2. /\ QW(l, doc) + One(rest, "Want", doc) = QW(l, doc)' + One(item, "Want", doc)
              /\ QS(l, doc) + One(rest, "Serve", doc) = QS(l, doc)' + One(item, "Serve", doc)
            BY <4>2 DEF Swaps, QW, QS
        <5>3. QED
            BY <1>5, <5>1, <5>2
      <4>3. QED
          BY <3>1, <4>1, <4>2
    <3>7. QED
        BY <1>5, <3>4, <3>5, <3>6
  <2>3. CASE item.type = "Serve"
    <3>1. PICK x \in Docs :
            /\ item.doc = {x}
            /\ Adds(Message, wire[l], wire'[l], Update(x, Part(mem[l[1]], x) \ item.vers))
            /\ Takes(Outbound, queue[l], queue'[l], item)
        BY <1>2, <2>3 DEF WritesItem
    <3> DEFINE m == Update(x, Part(mem[l[1]], x) \ item.vers)
    <3>2. Part(mem[l[1]], x) \ item.vers \in SUBSET Updates
        BY <1>1, Computed
    <3>3. m.type = "Update" /\ m.doc = {x} /\ Adds(Message, wire[l], wire'[l], m)
        BY <3>1, <3>2, Formed
    <3> HIDE DEF m
    <3>4. /\ One(m, "Want", doc) = 0 /\ One(m, "Update", doc) = IF doc = x THEN 1 ELSE 0
          /\ One(item, "Want", doc) = 0 /\ One(item, "Serve", doc) = IF doc = x THEN 1 ELSE 0
        BY <2>3, <3>1, <3>3 DEF One, Matches
    <3>5. /\ WW(l, doc)' = WW(l, doc) + One(m, "Want", doc)
          /\ WU(l, doc)' = WU(l, doc) + One(m, "Update", doc)
        BY <3>3, WireAdds
    <3>6. /\ QW(l, doc) = QW(l, doc)' + One(item, "Want", doc)
          /\ QS(l, doc) = QS(l, doc)' + One(item, "Serve", doc)
        BY <3>1, QueueTakes
    <3>7. QED
        BY <1>5, <3>4, <3>5, <3>6
  <2>4. QED
      BY <1>2, <2>1, <2>2, <2>3 DEF WritesItem
<1>7. ASSUME NEW doc \in Docs
      PROVE  Booked(l, doc)' /\ Booked(Other(l), doc)'
  <2>1. Booked(l, doc) /\ Booked(Other(l), doc)
      BY <1>1 DEF OneInv
  <2>2. SameCounts(Other(l), doc)
      BY <1>1, <1>4
  <2>3. /\ QW(Other(l), doc) \in Nat /\ WW(Other(l), doc) \in Nat
        /\ QS(Other(l), doc) \in Nat /\ WU(Other(l), doc) \in Nat
      BY <1>1, CountsAreNumbers
  <2>4. Booked(l, doc)'
    <3>1. QW(l, doc)' + WW(l, doc)' = QW(l, doc) + WW(l, doc)
        BY <1>6
    <3>2. QED
        BY <1>3, <1>5, <2>1, <2>2, <2>3, <3>1 DEF Booked, SameCounts
  <2>5. Booked(Other(l), doc)'
    <3>1. QS(l, doc)' + WU(l, doc)' = QS(l, doc) + WU(l, doc)
        BY <1>6
    <3>2. QED
        BY <1>1, <1>3, <1>5, <2>1, <2>2, <2>3, <3>1 DEF Booked, SameCounts
  <2>6. QED
      BY <2>4, <2>5
<1>8. \A k \in Ends : k \notin {l, Other(l)} =>
         wanted'[k] = wanted[k] /\ \A doc \in Docs : SameCounts(k, doc)
    BY <1>3, <1>4
<1>9. QED
    BY <1>7, <1>8, OneLink

(* The same after the step. *)
LEMMA NumbersAfter ==
    ASSUME TypeOK', NEW l \in Ends, NEW doc \in Docs
    PROVE  QW(l, doc)' \in Nat /\ WW(l, doc)' \in Nat /\ QS(l, doc)' \in Nat /\ WU(l, doc)' \in Nat
<1>1. queue'[l] \in Seq(Outbound) /\ wire'[l] \in Seq(Message)
    BY DEF TypeOK
<1>2. \A t : Count(queue'[l], t, doc) \in Nat
    BY <1>1, CountType
<1>3. \A t : Count(wire'[l], t, doc) \in Nat
    BY <1>1, CountType
<1>4. QED
    BY <1>2, <1>3 DEF QW, WW, QS, WU

(* A document the reader asks for was not awaited, and one it marks as stale  *)
(* was.                                                                       *)
LEMMA OneReadSummary ==
    ASSUME OneInv, KeepInv', NEW l \in Ends, ReadSummary(l)
    PROVE  OneInv'
<1>1. TypeOK /\ TypeOK' /\ Other(l) \in Ends /\ Other(l) # l /\ Other(Other(l)) = l
    BY EndsFacts DEF OneInv, KeepInv
<1>2. /\ Only(wire, wire', Message, {Other(l)}) /\ Only(queue, queue', Outbound, {l})
    BY <1>1, ReadSummaryEffect
<1>3. PICK m \in Message : ReadsSummary(l, m)
    BY <1>1, ReadSummaryEffect
<1>4. /\ m.type \in {"Complete", "Partial"}
      /\ Takes(Message, wire[Other(l)], wire'[Other(l)], m)
      /\ \/ New(l, m) = {} /\ queue'[l] = queue[l]
         \/ New(l, m) # {} /\ Adds(Outbound, queue[l], queue'[l], WantItem(New(l, m)))
      /\ \A doc \in Docs : wanted'[l][doc] =
            IF doc \in New(l, m) THEN "asked"
            ELSE IF doc \in Differing(l, m) THEN "stale" ELSE wanted[l][doc]
      /\ \A k \in Ends \ {l} : wanted'[k] = wanted[k]
    BY <1>3 DEF ReadsSummary
<1>5. New(l, m) \in SUBSET Docs
    BY <1>3 DEF New, Differing, Message
<1>6. WantItem(New(l, m)).type = "Want" /\ WantItem(New(l, m)).doc = New(l, m)
    BY <1>5, Formed
<1>7. ASSUME NEW doc \in Docs
      PROVE  /\ WW(Other(l), doc)' = WW(Other(l), doc) /\ WU(Other(l), doc)' = WU(Other(l), doc)
             /\ QW(l, doc)' = QW(l, doc) + (IF doc \in New(l, m) THEN 1 ELSE 0)
             /\ QS(l, doc)' = QS(l, doc)
             /\ WW(l, doc)' = WW(l, doc) /\ WU(l, doc)' = WU(l, doc)
             /\ QW(Other(l), doc)' = QW(Other(l), doc) /\ QS(Other(l), doc)' = QS(Other(l), doc)
  <2>1. /\ QW(l, doc) \in Nat /\ QS(l, doc) \in Nat
        /\ WW(Other(l), doc)' \in Nat /\ WU(Other(l), doc)' \in Nat
      BY <1>1, CountsAreNumbers, NumbersAfter
  <2>2. WW(Other(l), doc)' = WW(Other(l), doc) /\ WU(Other(l), doc)' = WU(Other(l), doc)
    <3>1. One(m, "Want", doc) = 0 /\ One(m, "Update", doc) = 0
        BY <1>4 DEF One, Matches
    <3>2. /\ WW(Other(l), doc) = WW(Other(l), doc)' + One(m, "Want", doc)
          /\ WU(Other(l), doc) = WU(Other(l), doc)' + One(m, "Update", doc)
        BY <1>4, WireTakes
    <3>3. QED
        BY <2>1, <3>1, <3>2
  <2>3. QW(l, doc)' = QW(l, doc) + (IF doc \in New(l, m) THEN 1 ELSE 0) /\ QS(l, doc)' = QS(l, doc)
    <3>1. CASE New(l, m) = {} /\ queue'[l] = queue[l]
      <4>1. QW(l, doc)' = QW(l, doc) /\ QS(l, doc)' = QS(l, doc)
          BY <3>1, LinkAlone
      <4>2. QED
          BY <2>1, <3>1, <4>1
    <3>2. CASE Adds(Outbound, queue[l], queue'[l], WantItem(New(l, m)))
      <4>1. /\ One(WantItem(New(l, m)), "Want", doc) = IF doc \in New(l, m) THEN 1 ELSE 0
            /\ One(WantItem(New(l, m)), "Serve", doc) = 0
          BY <1>6 DEF One, Matches
      <4>2. /\ QW(l, doc)' = QW(l, doc) + One(WantItem(New(l, m)), "Want", doc)
            /\ QS(l, doc)' = QS(l, doc) + One(WantItem(New(l, m)), "Serve", doc)
          BY <3>2, QueueAdds
      <4>3. QED
          BY <2>1, <4>1, <4>2
    <3>3. QED
        BY <1>4, <3>1, <3>2
  <2>4. WW(l, doc)' = WW(l, doc) /\ WU(l, doc)' = WU(l, doc)
      BY <1>1, <1>2, LinkAlone DEF Only
  <2>5. QW(Other(l), doc)' = QW(Other(l), doc) /\ QS(Other(l), doc)' = QS(Other(l), doc)
      BY <1>1, <1>2, LinkAlone DEF Only
  <2>6. QED
      BY <2>2, <2>3, <2>4, <2>5
<1>8. ASSUME NEW doc \in Docs
      PROVE  Booked(l, doc)' /\ Booked(Other(l), doc)'
  <2>1. Booked(l, doc) /\ Booked(Other(l), doc)
      BY <1>1 DEF OneInv
  <2>2. /\ QW(l, doc) \in Nat /\ QS(l, doc) \in Nat /\ WW(l, doc) \in Nat /\ WU(l, doc) \in Nat
        /\ QW(Other(l), doc) \in Nat /\ QS(Other(l), doc) \in Nat
        /\ WW(Other(l), doc) \in Nat /\ WU(Other(l), doc) \in Nat
      BY <1>1, CountsAreNumbers
  <2>3. Booked(Other(l), doc)'
      BY <1>1, <1>4, <1>7, <2>1 DEF Booked
  <2>4. Booked(l, doc)'
    <3>1. CASE doc \in New(l, m)
      <4>1. wanted[l][doc] = "no" /\ wanted'[l][doc] = "asked"
          BY <1>4, <3>1 DEF New
      <4>2. QW(l, doc) + WW(l, doc) + QS(Other(l), doc) + WU(Other(l), doc) = 0
          BY <2>1, <4>1 DEF Booked
      <4>3. QW(l, doc)' + WW(l, doc)' + QS(Other(l), doc)' + WU(Other(l), doc)' = 1
        <5>1. QW(l, doc)' = QW(l, doc) + 1
            BY <1>7, <3>1
        <5>2. WW(l, doc)' = WW(l, doc) /\ QS(Other(l), doc)' = QS(Other(l), doc)
              /\ WU(Other(l), doc)' = WU(Other(l), doc)
            BY <1>7
        <5>3. QED
            BY <2>2, <4>2, <5>1, <5>2
      <4>4. QED
          BY <4>1, <4>3 DEF Booked
    <3>2. CASE doc \notin New(l, m)
      <4>1. wanted'[l][doc] = "no" <=> wanted[l][doc] = "no"
          BY <1>4, <3>2 DEF New
      <4>2. QW(l, doc)' = QW(l, doc)
          BY <1>7, <2>2, <3>2
      <4>3. QED
          BY <1>7, <2>1, <4>1, <4>2 DEF Booked
    <3>3. QED
        BY <3>1, <3>2
  <2>5. QED
      BY <2>3, <2>4
<1>9. \A k \in Ends : k \notin {l, Other(l)} =>
         wanted'[k] = wanted[k] /\ \A doc \in Docs : SameCounts(k, doc)
    BY <1>2, <1>4, LinkAlone DEF Only, SameCounts
<1>10. QED
    BY <1>8, <1>9, OneLink

(* A request that is read is an answer to be written. *)
LEMMA OneReadWant ==
    ASSUME OneInv, KeepInv', NEW l \in Ends, ReadWant(l) \/ ReadRequest(l)
    PROVE  OneInv'
<1>1. TypeOK /\ TypeOK' /\ Other(l) \in Ends /\ Other(l) # l /\ Other(Other(l)) = l
    BY EndsFacts DEF OneInv, KeepInv
<1>2. /\ Only(wire, wire', Message, {Other(l)}) /\ Only(queue, queue', Outbound, {l})
      /\ wanted' = wanted
    BY <1>1, ReadWantEffect
<1>3. PICK m \in Message : ReadsWant(l, m)
    BY <1>1, ReadWantEffect
<1>4. PICK x \in Outbound :
        /\ Takes(Message, wire[Other(l)], wire'[Other(l)], m)
        /\ Adds(Outbound, queue[l], queue'[l], x)
        /\ \/ m.type = "Want" /\ x.type = "Serve" /\ x.doc = m.doc
           \/ m.type = "RequestSummary" /\ x.type = "Complete"
  <2>1. /\ ServeItem(m) \in Outbound /\ ServeItem(m).type = "Serve" /\ ServeItem(m).doc = m.doc
        /\ SummaryItem \in Outbound /\ SummaryItem.type = "Complete"
      BY Formed
  <2>2. QED
      BY <1>3, <2>1 DEF ReadsWant
<1>5. ASSUME NEW doc \in Docs
      PROVE  /\ WW(Other(l), doc)' + QS(l, doc)' = WW(Other(l), doc) + QS(l, doc)
             /\ WU(Other(l), doc)' = WU(Other(l), doc) /\ QW(l, doc)' = QW(l, doc)
             /\ WW(l, doc)' = WW(l, doc) /\ WU(l, doc)' = WU(l, doc)
             /\ QW(Other(l), doc)' = QW(Other(l), doc) /\ QS(Other(l), doc)' = QS(Other(l), doc)
  <2>1. /\ QW(l, doc) \in Nat /\ QS(l, doc) \in Nat
        /\ WW(Other(l), doc)' \in Nat /\ WU(Other(l), doc)' \in Nat
      BY <1>1, CountsAreNumbers, NumbersAfter
  <2>2. /\ One(m, "Want", doc) = One(x, "Serve", doc) /\ One(m, "Want", doc) \in Nat
        /\ One(m, "Update", doc) = 0 /\ One(x, "Want", doc) = 0
      BY <1>4 DEF One, Matches
  <2>3. /\ WW(Other(l), doc) = WW(Other(l), doc)' + One(m, "Want", doc)
        /\ WU(Other(l), doc) = WU(Other(l), doc)' + One(m, "Update", doc)
      BY <1>4, WireTakes
  <2>4. /\ QW(l, doc)' = QW(l, doc) + One(x, "Want", doc)
        /\ QS(l, doc)' = QS(l, doc) + One(x, "Serve", doc)
      BY <1>4, QueueAdds
  <2>5. WW(l, doc)' = WW(l, doc) /\ WU(l, doc)' = WU(l, doc)
      BY <1>1, <1>2, LinkAlone DEF Only
  <2>6. QW(Other(l), doc)' = QW(Other(l), doc) /\ QS(Other(l), doc)' = QS(Other(l), doc)
      BY <1>1, <1>2, LinkAlone DEF Only
  <2>7. /\ WW(Other(l), doc)' + QS(l, doc)' = WW(Other(l), doc) + QS(l, doc)
        /\ WU(Other(l), doc)' = WU(Other(l), doc) /\ QW(l, doc)' = QW(l, doc)
      BY <2>1, <2>2, <2>3, <2>4
  <2>8. QED
      BY <2>5, <2>6, <2>7
<1>6. ASSUME NEW doc \in Docs
      PROVE  Booked(l, doc)' /\ Booked(Other(l), doc)'
  <2>1. Booked(l, doc) /\ Booked(Other(l), doc)
      BY <1>1 DEF OneInv
  <2>2. Booked(l, doc)'
      BY <1>2, <1>5, <2>1 DEF Booked
  <2>3. Booked(Other(l), doc)'
    <3>1. /\ QW(Other(l), doc) \in Nat /\ WW(Other(l), doc) \in Nat
          /\ QS(l, doc) \in Nat /\ WU(l, doc) \in Nat
          /\ WW(Other(l), doc)' \in Nat /\ QS(l, doc)' \in Nat
        BY <1>1, CountsAreNumbers, NumbersAfter
    <3>2. WW(Other(l), doc)' + QS(l, doc)' = WW(Other(l), doc) + QS(l, doc)
        BY <1>5
    <3>3. QW(Other(l), doc)' = QW(Other(l), doc) /\ WU(l, doc)' = WU(l, doc)
        BY <1>5
    <3>4. QW(Other(l), doc)' + WW(Other(l), doc)' + QS(l, doc)' + WU(l, doc)'
            = QW(Other(l), doc) + WW(Other(l), doc) + QS(l, doc) + WU(l, doc)
        BY <3>1, <3>2, <3>3
    <3>5. QED
        BY <1>1, <1>2, <2>1, <3>4 DEF Booked
  <2>4. QED
      BY <2>2, <2>3
<1>7. \A k \in Ends : k \notin {l, Other(l)} =>
         wanted'[k] = wanted[k] /\ \A doc \in Docs : SameCounts(k, doc)
    BY <1>2, LinkAlone DEF Only, SameCounts
<1>8. QED
    BY <1>6, <1>7, OneLink

SameBooks(q, k) ==
    \A doc \in Docs : Count(q[k], "Want", doc) = QW(k, doc) /\ Count(q[k], "Serve", doc) = QS(k, doc)

(* An answer ends the one request it is for, and a stale one begins another.  *)
LEMMA OneAnswer ==
    ASSUME OneInv, KeepInv', NEW l \in Ends, NEW doc \in Docs, NEW q \in [Ends -> Seq(Outbound)],
           \A k \in Ends : SameBooks(q, k),
           wire[Other(l)] # << >>, Incoming(l).type = "Update", Incoming(l).doc = {doc},
           Answered(l, doc, q)
    PROVE  OneInv'
<1>1. TypeOK /\ TypeOK' /\ Other(l) \in Ends /\ Other(l) # l /\ Other(Other(l)) = l
    BY EndsFacts DEF OneInv, KeepInv
<1>2. /\ Answers(l, doc, q)
      /\ Only(wire, wire', Message, {Other(l)}) /\ Only(q, queue', Outbound, {l})
    BY <1>1, AnsweredEffect
<1>3. /\ Takes(Message, wire[Other(l)], wire'[Other(l)], Incoming(l))
      /\ wanted'[l][doc] = IF wanted[l][doc] = "stale" THEN "asked" ELSE "no"
      /\ \A x \in Docs : x # doc => wanted'[l][x] = wanted[l][x]
      /\ \A k \in Ends \ {l} : wanted'[k] = wanted[k]
      /\ \/ wanted[l][doc] # "stale" /\ queue'[l] = q[l]
         \/ wanted[l][doc] = "stale" /\ Adds(Outbound, q[l], queue'[l], WantItem({doc}))
    BY <1>2 DEF Answers
<1>4. WantItem({doc}).type = "Want" /\ WantItem({doc}).doc = {doc}
    BY Formed
<1>5. \A k \in Ends : k # l =>
         \A x \in Docs : QW(k, x)' = QW(k, x) /\ QS(k, x)' = QS(k, x)
    BY <1>2 DEF Only, SameBooks, QW, QS
<1>6. \A k \in Ends : k # Other(l) =>
         \A x \in Docs : WW(k, x)' = WW(k, x) /\ WU(k, x)' = WU(k, x)
    BY <1>2, LinkAlone DEF Only
<1>7. ASSUME NEW x \in Docs
      PROVE  /\ WW(Other(l), x)' = WW(Other(l), x)
             /\ WU(Other(l), x) = WU(Other(l), x)' + (IF x = doc THEN 1 ELSE 0)
             /\ QW(l, x)' = QW(l, x) + (IF x = doc /\ wanted[l][doc] = "stale" THEN 1 ELSE 0)
             /\ QS(l, x)' = QS(l, x)
  <2>1. /\ QW(l, x) \in Nat /\ QS(l, x) \in Nat
        /\ WW(Other(l), x)' \in Nat /\ WU(Other(l), x)' \in Nat
      BY <1>1, CountsAreNumbers, NumbersAfter
  <2>2. /\ One(Incoming(l), "Want", x) = 0
        /\ One(Incoming(l), "Update", x) = IF x = doc THEN 1 ELSE 0
      BY DEF One, Matches
  <2>3. /\ WW(Other(l), x) = WW(Other(l), x)' + One(Incoming(l), "Want", x)
        /\ WU(Other(l), x) = WU(Other(l), x)' + One(Incoming(l), "Update", x)
      BY <1>3 DEF Takes, WW, WU
  <2>4. /\ QW(l, x)' = QW(l, x) + (IF x = doc /\ wanted[l][doc] = "stale" THEN 1 ELSE 0)
        /\ QS(l, x)' = QS(l, x)
    <3>1. Count(q[l], "Want", x) = QW(l, x) /\ Count(q[l], "Serve", x) = QS(l, x)
        BY DEF SameBooks
    <3>2. CASE wanted[l][doc] # "stale"
      <4>1. QW(l, x)' = Count(q[l], "Want", x) /\ QS(l, x)' = Count(q[l], "Serve", x)
          BY <1>3, <3>2 DEF QW, QS
      <4>2. QED
          BY <2>1, <3>1, <3>2, <4>1
    <3>3. CASE wanted[l][doc] = "stale"
      <4>1. /\ One(WantItem({doc}), "Want", x) = IF x = doc THEN 1 ELSE 0
            /\ One(WantItem({doc}), "Serve", x) = 0
          BY <1>4 DEF One, Matches
      <4>2. /\ QW(l, x)' = Count(q[l], "Want", x) + One(WantItem({doc}), "Want", x)
            /\ QS(l, x)' = Count(q[l], "Serve", x) + One(WantItem({doc}), "Serve", x)
          BY <1>3, <3>3 DEF Adds, QW, QS
      <4>3. QED
          BY <2>1, <3>1, <3>3, <4>1, <4>2
    <3>4. QED
        BY <3>2, <3>3
  <2>5. WW(Other(l), x)' = WW(Other(l), x)
      BY <2>1, <2>2, <2>3
  <2>6. WU(Other(l), x) = WU(Other(l), x)' + (IF x = doc THEN 1 ELSE 0)
      BY <2>2, <2>3
  <2>7. QED
      BY <2>4, <2>5, <2>6
<1>8. ASSUME NEW x \in Docs
      PROVE  Booked(l, x)' /\ Booked(Other(l), x)'
  <2>1. Booked(l, x) /\ Booked(Other(l), x)
      BY <1>1 DEF OneInv
  <2>2. Booked(Other(l), x)'
    <3>1. /\ QW(Other(l), x)' = QW(Other(l), x) /\ WU(l, x)' = WU(l, x)
        BY <1>1, <1>5, <1>6
    <3>2. WW(Other(l), x)' = WW(Other(l), x) /\ QS(l, x)' = QS(l, x)
        BY <1>7
    <3>3. wanted'[Other(l)] = wanted[Other(l)]
        BY <1>1, <1>3
    <3>4. QED
        BY <1>1, <2>1, <3>1, <3>2, <3>3 DEF Booked
  <2>3. Booked(l, x)'
    <3>1. /\ WW(l, x)' = WW(l, x) /\ QS(Other(l), x)' = QS(Other(l), x)
        BY <1>1, <1>5, <1>6
    <3>2. /\ QW(l, x) \in Nat /\ WW(l, x) \in Nat /\ QS(Other(l), x) \in Nat
          /\ WU(Other(l), x) \in Nat /\ WU(Other(l), x)' \in Nat
        BY <1>1, CountsAreNumbers, NumbersAfter
    <3>3. CASE x # doc
      <4>1. QW(l, x)' = QW(l, x) /\ WU(Other(l), x)' = WU(Other(l), x)
          BY <1>7, <3>2, <3>3
      <4>2. wanted'[l][x] = wanted[l][x]
          BY <1>3, <3>3
      <4>3. QED
          BY <2>1, <3>1, <4>1, <4>2 DEF Booked
    <3>4. CASE x = doc
      <4>1. WU(Other(l), x) = WU(Other(l), x)' + 1
          BY <1>7, <3>4
      <4>2. QW(l, x) + WW(l, x) + QS(Other(l), x) + WU(Other(l), x) # 0
          BY <3>2, <4>1
      <4>3. QW(l, x) + WW(l, x) + QS(Other(l), x) + WU(Other(l), x) = 1
          BY <2>1, <4>2 DEF Booked
      <4>4. CASE wanted[l][doc] = "stale"
        <5>1. QW(l, x)' = QW(l, x) + 1
            BY <1>7, <3>4, <4>4
        <5>2. QW(l, x)' + WW(l, x)' + QS(Other(l), x)' + WU(Other(l), x)' = 1
            BY <3>1, <3>2, <4>1, <4>3, <5>1
        <5>3. wanted'[l][x] = "asked"
            BY <1>3, <3>4, <4>4
        <5>4. QED
            BY <5>2, <5>3 DEF Booked
      <4>5. CASE wanted[l][doc] # "stale"
        <5>1. QW(l, x)' = QW(l, x)
            BY <1>7, <3>2, <3>4, <4>5
        <5>2. QW(l, x)' + WW(l, x)' + QS(Other(l), x)' + WU(Other(l), x)' = 0
            BY <3>1, <3>2, <4>1, <4>3, <5>1
        <5>3. wanted'[l][x] = "no"
            BY <1>3, <3>4, <4>5
        <5>4. QED
            BY <5>2, <5>3 DEF Booked
      <4>6. QED
          BY <4>4, <4>5
    <3>5. QED
        BY <3>3, <3>4
  <2>4. QED
      BY <2>2, <2>3
<1>9. \A k \in Ends : k \notin {l, Other(l)} =>
         wanted'[k] = wanted[k] /\ \A x \in Docs : SameCounts(k, x)
    BY <1>3, <1>5, <1>6 DEF SameCounts
<1>10. QED
    BY <1>8, <1>9, OneLink

(* Requests for summaries are in no book. *)
LEMMA BooksRefreshed ==
    ASSUME TypeOK, NEW d \in Devices, NEW q, q = queue \/ q = Refreshed(d)
    PROVE  \A k \in Ends : SameBooks(q, k)
<1>1. CASE q = queue
    BY <1>1 DEF SameBooks, QW, QS
<1>2. CASE q = Refreshed(d)
  <2> SUFFICES ASSUME NEW k \in Ends, NEW doc \in Docs
               PROVE  Count(q[k], "Want", doc) = QW(k, doc) /\ Count(q[k], "Serve", doc) = QS(k, doc)
      BY DEF SameBooks
  <2>1. IF k \in up /\ k[1] = d
        THEN Adds(Outbound, queue[k], q[k], RequestSummary)
        ELSE q[k] = queue[k]
      BY <1>2, RefreshedEffect
  <2>2. CASE q[k] = queue[k]
      BY <2>2 DEF QW, QS
  <2>3. CASE Adds(Outbound, queue[k], q[k], RequestSummary)
    <3>1. RequestSummary.type = "RequestSummary"
        BY Formed
    <3>2. One(RequestSummary, "Want", doc) = 0 /\ One(RequestSummary, "Serve", doc) = 0
        BY <3>1 DEF One, Matches
    <3>3. /\ Count(q[k], "Want", doc) = QW(k, doc) + One(RequestSummary, "Want", doc)
          /\ Count(q[k], "Serve", doc) = QS(k, doc) + One(RequestSummary, "Serve", doc)
        BY <2>3 DEF Adds, QW, QS
    <3>4. QW(k, doc) \in Nat /\ QS(k, doc) \in Nat
        BY CountsAreNumbers
    <3>5. QED
        BY <3>2, <3>3, <3>4
  <2>4. QED
      BY <2>1, <2>2, <2>3
<1>3. QED
    BY <1>1, <1>2

(* The reader's own answers. *)
LEMMA OneReadAnswer ==
    ASSUME OneInv, KeepInv', NEW l \in Ends, ReadEmpty(l) \/ ReadNote(l)
    PROVE  OneInv'
<1>1. TypeOK /\ Other(l) \in Ends /\ Shapes(Other(l)) /\ l[1] \in Devices
    BY EndsFacts DEF OneInv, KeepInv
<1>2. /\ wire[Other(l)] # << >> /\ Incoming(l).type = "Update"
      /\ \E doc \in Incoming(l).doc : Answered(l, doc, queue)
    BY DEF ReadEmpty, ReadNote, Reads, Incoming
<1>3. Incoming(l) \in Message /\ Incoming(l) \in Sent(Other(l))
    BY <1>1, <1>2, TailRange DEF Incoming, TypeOK, Sent
<1>4. PICK doc \in Docs : Incoming(l).doc = {doc} /\ Answered(l, doc, queue)
    BY <1>1, <1>2, <1>3 DEF Shapes, OneDoc
<1>5. queue \in [Ends -> Seq(Outbound)]
    BY <1>1 DEF TypeOK
<1>6. \A k \in Ends : SameBooks(queue, k)
    BY <1>1, BooksRefreshed
<1>7. QED
    BY <1>2, <1>4, <1>5, <1>6, OneAnswer

(* The answer an import was of. *)
LEMMA OneImport ==
    ASSUME OneInv, KeepInv', NEW d \in Devices, CommitImport(d) \/ EndFailure(d)
    PROVE  OneInv'
<1>1. KeepInv /\ TypeOK /\ Stored(d) /\ Importing(d)
    BY DEF OneInv, KeepInv
<1>2. \E t \in Begun(d), doc \in Facts, q \in {queue, Refreshed(d)} :
        /\ t.doc = {doc}
        /\ \/ queue' = q /\ UNCHANGED <<wire, wanted>>
           \/ \E e \in t.from : Answered(<<d, e>>, doc, q)
  <2>1. CASE EndFailure(d)
    <3>1. PICK i \in Slots :
            /\ fallen[d][i] # NoTx
            /\ \/ fallen[d][i].from = {} /\ UNCHANGED <<wire, wanted, queue>>
               \/ \E e \in fallen[d][i].from, doc \in fallen[d][i].doc :
                     Answered(<<d, e>>, doc, queue)
        BY <2>1 DEF EndFailure
    <3>2. fallen[d][i] \in Begun(d)
        BY DEF Begun
    <3>3. PICK doc \in Facts : fallen[d][i].doc = {doc}
        BY <1>1, <3>1 DEF Stored, Sound
    <3>4. QED
        BY <3>1, <3>2, <3>3
  <2>2. CASE CommitImport(d)
    <3>1. tx[d] \in Begun(d) /\ tx[d].kind = "import"
        BY <2>2 DEF Begun, CommitImport
    <3>2. PICK doc \in Facts : tx[d].doc = {doc}
        BY <1>1, <3>1 DEF Stored, Sound
    <3> DEFINE q == IF tx[d].remote /\ Part(rows[d], doc) = {} THEN Refreshed(d) ELSE queue
    <3>3. \/ queue' = q /\ UNCHANGED <<wire, wanted>>
          \/ \E e \in tx[d].from : Answered(<<d, e>>, doc, q)
        BY <2>2, <3>2 DEF CommitImport
    <3>4. q = queue \/ q = Refreshed(d)
        OBVIOUS
    <3> HIDE DEF q
    <3>5. QED
        BY <3>1, <3>2, <3>3, <3>4
  <2>3. QED
      BY <2>1, <2>2
<1>3. PICK t \in Begun(d), doc \in Facts, q \in {queue, Refreshed(d)} :
        /\ t.doc = {doc}
        /\ \/ queue' = q /\ UNCHANGED <<wire, wanted>>
           \/ \E e \in t.from : Answered(<<d, e>>, doc, q)
    BY <1>2
<1>4. \A k \in Ends : SameBooks(q, k)
    BY <1>1, <1>3, BooksRefreshed
<1>5. q \in [Ends -> Seq(Outbound)]
    BY <1>1, <1>3, RefreshedEffect DEF TypeOK
<1>6. CASE queue' = q /\ UNCHANGED <<wire, wanted>>
  <2>1. \A k \in Ends, x \in Docs : SameCounts(k, x)
      BY <1>4, <1>6 DEF SameBooks, SameCounts, QW, QS, WW, WU
  <2>2. QED
      BY <1>6, <2>1, OneSame
<1>7. ASSUME NEW e \in t.from, Answered(<<d, e>>, doc, q)
      PROVE  OneInv'
  <2>1. <<d, e>> \in Ends /\ Other(<<d, e>>) = <<e, d>> /\ wire[Other(<<d, e>>)] # << >>
      BY <1>1, <1>7, ImportEnd
  <2>2. Incoming(<<d, e>>).type = "Update" /\ Incoming(<<d, e>>).doc = {doc}
      BY <1>1, <1>3, <1>7, <2>1 DEF Importing, Reading, Incoming
  <2>3. doc \in Docs
      BY <1>3 DEF Facts
  <2>4. QED
      BY <1>4, <1>5, <1>7, <2>1, <2>2, <2>3, OneAnswer
<1>8. QED
    BY <1>3, <1>6, <1>7

(* A new link has nothing in its books. *)
LEMMA OneConnect ==
    ASSUME OneInv, KeepInv', NEW p \in Pairs, Connect(p)
    PROVE  OneInv'
<1>1. TypeOK
    BY DEF OneInv, KeepInv
<1>2. /\ EndsOfPair(p) \cap up = {}
      /\ queue' = [l \in Ends |-> IF l \in EndsOfPair(p) THEN <<SummaryItem>> ELSE queue[l]]
      /\ UNCHANGED <<wire, wanted>>
    BY DEF Connect
<1>3. SummaryItem \in Outbound /\ SummaryItem.type = "Complete"
    BY Formed
<1>4. <<SummaryItem>> \in Seq(Outbound) /\ \A x \in Range(<<SummaryItem>>) : x = SummaryItem
    BY <1>3 DEF Range
<1>5. \A t \in {"Want", "Serve"}, doc \in Docs : Count(<<SummaryItem>>, t, doc) = 0
  <2>1. \A t \in {"Want", "Serve"}, doc \in Docs :
           \A x \in Range(<<SummaryItem>>) : ~Matches(x, t, doc)
      BY <1>3, <1>4 DEF Matches
  <2>2. QED
      BY <1>4, <2>1, CountType
<1>6. ASSUME NEW k \in Ends, NEW doc \in Docs
      PROVE  SameCounts(k, doc)
  <2>1. WW(k, doc)' = WW(k, doc) /\ WU(k, doc)' = WU(k, doc)
      BY <1>2, LinkAlone
  <2>2. CASE k \in EndsOfPair(p)
    <3>1. queue[k] = << >> /\ queue'[k] = <<SummaryItem>>
        BY <1>1, <1>2, <2>2 DEF TypeOK
    <3>2. QW(k, doc) = 0 /\ QS(k, doc) = 0
        BY <3>1, EmptyCount DEF QW, QS
    <3>3. QW(k, doc)' = 0 /\ QS(k, doc)' = 0
        BY <1>5, <3>1 DEF QW, QS
    <3>4. QED
        BY <2>1, <3>2, <3>3 DEF SameCounts
  <2>3. CASE k \notin EndsOfPair(p)
    <3>1. queue'[k] = queue[k]
        BY <1>2, <2>3
    <3>2. QED
        BY <2>1, <3>1, LinkAlone DEF SameCounts
  <2>4. QED
      BY <2>2, <2>3
<1>7. QED
    BY <1>2, <1>6, OneSame

(* A link that closes forgets what it awaits, and all that was on its way.    *)
LEMMA OneClosing ==
    ASSUME OneInv, KeepInv', NEW ends \in SUBSET Ends, \A l \in ends : Other(l) \in ends, Close(ends)
    PROVE  OneInv'
<1>1. /\ queue' = [l \in Ends |-> IF l \in ends THEN << >> ELSE queue[l]]
      /\ wanted' = [l \in Ends |-> IF l \in ends THEN [doc \in Docs |-> "no"] ELSE wanted[l]]
      /\ wire' = [l \in Ends |-> IF l \in ends THEN << >> ELSE wire[l]]
    BY DEF Close
<1>2. ASSUME NEW k \in Ends, NEW doc \in Docs
      PROVE  Booked(k, doc)'
  <2>1. Other(k) \in Ends /\ (k \in ends <=> Other(k) \in ends)
      BY EndsFacts
  <2>2. CASE k \in ends
    <3>1. /\ queue'[k] = << >> /\ wire'[k] = << >>
          /\ queue'[Other(k)] = << >> /\ wire'[Other(k)] = << >>
          /\ wanted'[k] = [x \in Docs |-> "no"]
        BY <1>1, <2>1, <2>2
    <3>2. QW(k, doc)' = 0 /\ WW(k, doc)' = 0 /\ QS(Other(k), doc)' = 0 /\ WU(Other(k), doc)' = 0
        BY <3>1, EmptyCount DEF QW, WW, QS, WU
    <3>3. QED
        BY <3>1, <3>2 DEF Booked
  <2>3. CASE k \notin ends
    <3>1. /\ queue'[k] = queue[k] /\ wire'[k] = wire[k] /\ wanted'[k] = wanted[k]
          /\ queue'[Other(k)] = queue[Other(k)] /\ wire'[Other(k)] = wire[Other(k)]
        BY <1>1, <2>1, <2>3
    <3>2. SameCounts(k, doc) /\ SameCounts(Other(k), doc) /\ Booked(k, doc)
        BY <3>1, LinkAlone DEF SameCounts, OneInv
    <3>3. QED
        BY <3>1, <3>2 DEF Booked, SameCounts
  <2>4. QED
      BY <2>2, <2>3
<1>3. QED
    BY <1>2 DEF OneInv

(* Every step keeps the books. *)
LEMMA OneStep ==
    ASSUME SyncAssumption, OneInv, [Next]_vars
    PROVE  OneInv'
<1>1. KeepInv'
    BY KeepStep DEF OneInv
<1>2. CASE \E u \in Updates : LocalEdit(u)
    BY <1>1, <1>2, OneUnchanged DEF LocalEdit
<1>3. ASSUME NEW d \in Devices,
             \/ CommitExport(d) \/ RollBack(d)
             \/ \E doc \in Facts : BeginExport(d, doc) \/ ReadVersion(d, doc) \/ CacheVersion(d, doc)
      PROVE  OneInv'
  <2>1. UNCHANGED <<queue, wire, wanted>>
      BY <1>3 DEF CommitExport, RollBack, BeginExport, ReadVersion, CacheVersion, links
  <2>2. QED
      BY <1>1, <2>1, OneUnchanged
<1>4. ASSUME NEW l \in Ends, Writer(l) \/ Reader(l) \/ Tick(l)
      PROVE  OneInv'
  <2>1. CASE BeginImport(l)
    <3>1. UNCHANGED <<queue, wire, wanted>>
        BY <2>1 DEF BeginImport, links
    <3>2. QED
        BY <1>1, <3>1, OneUnchanged
  <2>2. QED
      BY <1>1, <1>4, <2>1, OneWriteQueued, OneAnnouncing, OneReadSummary, OneReadWant, OneReadAnswer
         DEF Writer, Reader
<1>5. ASSUME NEW p \in Pairs, Break(p)
      PROVE  OneInv'
  <2>1. Close(EndsOfPair(p))
      BY <1>5 DEF Break
  <2>2. EndsOfPair(p) \in SUBSET Ends /\ \A l \in EndsOfPair(p) : Other(l) \in EndsOfPair(p)
    <3>1. \A l \in Ends : {l[1], l[2]} = {Other(l)[1], Other(l)[2]}
        BY EndsFacts
    <3>2. QED
        BY <3>1, EndsFacts DEF EndsOfPair
  <2>3. QED
      BY <1>1, <2>1, <2>2, OneClosing
<1>6. ASSUME NEW d \in Devices, Restart(d)
      PROVE  OneInv'
  <2> DEFINE ends == {l \in Ends : d \in {l[1], l[2]}}
  <2>1. Close(ends)
      BY <1>6 DEF Restart
  <2>2. ends \in SUBSET Ends /\ \A l \in ends : Other(l) \in ends
      BY EndsFacts
  <2> HIDE DEF ends
  <2>3. QED
      BY <1>1, <2>1, <2>2, OneClosing
<1>7. CASE UNCHANGED vars
    BY <1>1, <1>7, OneUnchanged DEF vars, links
<1>8. QED
    BY <1>1, <1>2, <1>3, <1>4, <1>5, <1>6, <1>7, OneImport, OneConnect DEF Next, StoreStep, LinkStep

(* At the start nothing is asked for. *)
LEMMA OneInit ==
    ASSUME SyncAssumption, Init
    PROVE  OneInv
<1>1. KeepInv
    BY KeepInit
<1>2. ASSUME NEW k \in Ends, NEW doc \in Docs
      PROVE  Booked(k, doc)
  <2>1. /\ queue[k] = << >> /\ wire[k] = << >> /\ queue[Other(k)] = << >> /\ wire[Other(k)] = << >>
        /\ wanted[k][doc] = "no"
      BY EndsFacts DEF Init
  <2>2. QW(k, doc) = 0 /\ WW(k, doc) = 0 /\ QS(Other(k), doc) = 0 /\ WU(Other(k), doc) = 0
      BY <2>1, EmptyCount DEF QW, WW, QS, WU
  <2>3. QED
      BY <2>1, <2>2 DEF Booked
<1>3. QED
    BY <1>1, <1>2 DEF OneInv

(* Each document that a link awaits has exactly one request or answer on its  *)
(* way, and none that it does not await: through summaries that change what   *)
(* is asked, answers that are repeated, merges that fail and links that break.*)
THEOREM OneRequest == Spec => []OneRequestEach
<1>1. Init => OneInv
    BY SyncAssumption, OneInit
<1>2. OneInv /\ [Next]_vars => OneInv'
    BY SyncAssumption, OneStep
<1>3. OneInv => OneRequestEach
    BY OneMeans
<1>4. QED
    BY <1>1, <1>2, <1>3, PTL DEF Spec

-----------------------------------------------------------------------------
(* What "synchronised" means.  The rest is about what is promised until a     *)
(* merge or a transaction fails: until then memory has what is saved and what *)
(* the transaction that runs holds, and nothing else.                         *)

Calm(d) == fallen[d] = NoneFallen /\ tx[d].held \subseteq mem[d]

CalmInv ==
    /\ OneInv /\ FactsInv
    /\ ~failed => ~overtaken /\ \A d \in Devices : Calm(d)

(* What this says of a device. *)
LEMMA CalmThen ==
    ASSUME CalmInv, ~failed, NEW d \in Devices
    PROVE  /\ KeepInv /\ AllKept /\ Faithful(d) /\ Stored(d)
           /\ fallen[d] = NoneFallen /\ tx[d].held \subseteq mem[d]
           /\ mem[d] = disk[d] \cup (IF tx[d].save THEN tx[d].held ELSE {})
           /\ tx[d] = NoTx => mem[d] = disk[d]
<1>1. KeepInv /\ AllKept /\ Faithful(d) /\ Stored(d) /\ Calm(d)
    BY DEF CalmInv, OneInv, KeepInv, FactsInv, AllKept
<1>2. mem[d] = disk[d] \cup (IF tx[d].save THEN tx[d].held ELSE {})
    BY <1>1 DEF Stored, Calm
<1>3. QED
    BY <1>1, <1>2, Nothing DEF Calm

(* An answer carries updates of the document it is about.                     *)
Carried(l) == \A m \in Sent(l) : m.type = "Update" => \A doc \in m.doc : m.vers \subseteq Of(doc)

LEMMA CarriedThen ==
    ASSUME CalmInv, ~failed
    PROVE  \A l \in Ends : Carried(l)
    BY DEF CalmInv, FactsInv, AllKept, Known, Carried

(* An export writes the rows of its document. *)
LEMMA CalmBeginExport ==
    ASSUME CalmInv, ~failed, NEW d \in Devices, NEW doc \in Facts, BeginExport(d, doc)
    PROVE  /\ tx[d] = NoTx /\ mem[d] = disk[d] /\ ~overtaken'
           /\ mem' = [mem EXCEPT ![d] = @ \cup Part(rows[d], doc)]
           /\ mem'[d] = mem[d] \cup Part(rows[d], doc)
           /\ \A e \in Devices \ {d} : mem'[e] = mem[e] /\ tx'[e] = tx[e]
           /\ tx'[d].kind = "export" /\ tx'[d].doc = {doc} /\ tx'[d].held = Part(rows[d], doc)
           /\ tx'[d].from = {} /\ ~tx'[d].remote
<1> DEFINE held == Part(mem[d], doc) \cup Written(d, doc)
           t == [NoTx EXCEPT !.kind = "export", !.doc = {doc}, !.held = held,
                             !.save = held # Part(mem[d], doc)]
<1>1. /\ tx[d] = NoTx
      /\ mem' = [mem EXCEPT ![d] = @ \cup held]
      /\ tx' = [tx EXCEPT ![d] = t]
      /\ overtaken' = (overtaken \/ Unsaved(d, doc))
    BY DEF BeginExport
<1>2. TypeOK /\ AllKept /\ mem[d] = disk[d] /\ ~overtaken
    BY <1>1, CalmThen DEF CalmInv, KeepInv
<1>3. ~Unsaved(d, doc)
    BY <1>2 DEF Unsaved
<1>4. held = Part(rows[d], doc)
    BY <1>2, <1>3, Exporting
<1>5. t.kind = "export" /\ t.doc = {doc} /\ t.held = held /\ t.from = {} /\ ~t.remote
    BY DEF NoTx
<1> HIDE DEF t, held
<1>6. /\ mem'[d] = mem[d] \cup held /\ tx'[d] = t
      /\ \A e \in Devices \ {d} : mem'[e] = mem[e] /\ tx'[e] = tx[e]
    BY <1>1, <1>2 DEF TypeOK
<1>7. QED
    BY <1>1, <1>2, <1>3, <1>4, <1>5, <1>6

(* An import adds the rows that wait for an export, and the update.           *)
LEMMA CalmBeginImport ==
    ASSUME CalmInv, ~failed, NEW l \in Ends, BeginImport(l)
    PROVE  /\ tx[l[1]] = NoTx /\ mem[l[1]] = disk[l[1]] /\ ~overtaken'
           /\ \E doc \in Facts :
                /\ doc \in Incoming(l).doc /\ Incoming(l).vers \subseteq Of(doc)
                /\ Pending(l[1], doc) \subseteq Part(rows[l[1]], doc)
                /\ doc \notin changes[l[1]] => Pending(l[1], doc) = {}
                /\ mem' = [mem EXCEPT ![l[1]] =
                             (mem[l[1]] \cup Pending(l[1], doc)) \cup Incoming(l).vers]
                /\ mem'[l[1]] = (mem[l[1]] \cup Pending(l[1], doc)) \cup Incoming(l).vers
                /\ \A e \in Devices \ {l[1]} : mem'[e] = mem[e] /\ tx'[e] = tx[e]
                /\ tx'[l[1]].kind = "import" /\ tx'[l[1]].doc = {doc} /\ tx'[l[1]].from = {l[2]}
                /\ tx'[l[1]].local = (doc \in changes[l[1]])
                /\ tx'[l[1]].remote = ~(Incoming(l).vers \subseteq mem[l[1]] \cup Pending(l[1], doc))
                /\ tx'[l[1]].held \subseteq mem'[l[1]]
<1> DEFINE d == l[1]
           m == Incoming(l)
<1>1. /\ d \in Devices /\ Other(l) \in Ends /\ tx[d] = NoTx
      /\ wire[Other(l)] # << >> /\ m.type = "Update"
    BY EndsFacts DEF BeginImport, Reads, Incoming
<1>2. /\ TypeOK /\ AllKept /\ mem[d] = disk[d] /\ ~overtaken /\ fallen[d] = NoneFallen
      /\ Carried(Other(l))
    BY <1>1, CalmThen, CarriedThen DEF CalmInv, KeepInv
<1>3. m \in Sent(Other(l))
    BY <1>1, <1>2, TailRange DEF Incoming, TypeOK, Sent
<1>4. PICK doc \in m.doc \cap Facts :
         LET exported == Part(mem[d], doc) \cup Pending(d, doc)
         IN /\ \E base \in Found(d, doc, exported) :
                 LET held == base \cup m.vers
                     remote == ~(m.vers \subseteq base)
                 IN /\ mem' = [mem EXCEPT ![d] = (@ \ Of(doc)) \cup held]
                    /\ tx' = [tx EXCEPT ![d] =
                         [kind |-> "import", doc |-> {doc}, from |-> {l[2]},
                          local |-> doc \in changes[d], remote |-> remote, held |-> held,
                          save |-> remote \/ exported # Part(mem[d], doc)]]
            /\ overtaken' = (overtaken \/ (doc \in changes[d] /\ Unsaved(d, doc)))
    BY DEF BeginImport
<1> DEFINE exported == Part(mem[d], doc) \cup Pending(d, doc)
           held == exported \cup m.vers
           t == [kind |-> "import", doc |-> {doc}, from |-> {l[2]},
                 local |-> doc \in changes[d], remote |-> ~(m.vers \subseteq exported), held |-> held,
                 save |-> ~(m.vers \subseteq exported) \/ exported # Part(mem[d], doc)]
<1>5. Found(d, doc, exported) = {exported}
    BY <1>2 DEF Found
<1>6. tx' = [tx EXCEPT ![d] = t] /\ mem' = [mem EXCEPT ![d] = (@ \ Of(doc)) \cup held]
    BY <1>4, <1>5
<1>7. /\ t.kind = "import" /\ t.doc = {doc} /\ t.from = {l[2]} /\ t.held = held
      /\ t.local = (doc \in changes[d]) /\ t.remote = (~(m.vers \subseteq exported))
    OBVIOUS
<1>8. ~Unsaved(d, doc) /\ ~overtaken'
    BY <1>2, <1>4 DEF Unsaved
<1>9. m.vers \subseteq Of(doc)
    BY <1>1, <1>2, <1>3, <1>4 DEF Carried
<1>10. /\ Pending(d, doc) \subseteq Part(rows[d], doc)
       /\ doc \notin changes[d] => Pending(d, doc) = {}
  <2>1. Written(d, doc) = Part(rows[d], doc)
      BY <1>1, <1>2, <1>4, <1>8, Exporting
  <2>2. QED
      BY <2>1 DEF Pending
<1>11. /\ (mem[d] \ Of(doc)) \cup held = (mem[d] \cup Pending(d, doc)) \cup m.vers
       /\ (m.vers \subseteq exported) = (m.vers \subseteq mem[d] \cup Pending(d, doc))
       /\ held \subseteq (mem[d] \cup Pending(d, doc)) \cup m.vers
    BY <1>9 DEF Part
<1> HIDE DEF t, held, exported
<1>12. mem' = [mem EXCEPT ![d] = (mem[d] \cup Pending(d, doc)) \cup m.vers]
  <2>1. mem' = [mem EXCEPT ![d] = (mem[d] \ Of(doc)) \cup held]
      BY <1>1, <1>2, <1>6 DEF TypeOK
  <2>2. QED
      BY <1>11, <2>1
<1> HIDE DEF d, m
<1>13. /\ mem'[d] = (mem[d] \cup Pending(d, doc)) \cup m.vers /\ tx'[d] = t
       /\ \A e \in Devices \ {d} : mem'[e] = mem[e] /\ tx'[e] = tx[e]
    BY <1>1, <1>2, <1>6, <1>12 DEF TypeOK
<1>14. /\ doc \in Facts /\ doc \in m.doc
       /\ tx'[d].remote = ~(m.vers \subseteq mem[d] \cup Pending(d, doc))
       /\ tx'[d].held \subseteq mem'[d]
    BY <1>4, <1>7, <1>11, <1>13
<1>15. /\ tx'[d].kind = "import" /\ tx'[d].doc = {doc} /\ tx'[d].from = {l[2]}
       /\ tx'[d].local = (doc \in changes[d])
    BY <1>7, <1>13
<1> USE DEF d, m
<1>16. QED
    BY <1>1, <1>2, <1>8, <1>9, <1>10, <1>12, <1>13, <1>14, <1>15

(* The commit saves what is in memory.                                        *)
LEMMA CalmSave ==
    ASSUME CalmInv, ~failed, NEW d \in Devices, Save(d), tx' = [tx EXCEPT ![d] = NoTx],
           UNCHANGED fallen
    PROVE  /\ mem' = mem /\ disk' = [disk EXCEPT ![d] = mem[d]]
           /\ digests' = IF tx[d].save
                         THEN [digests EXCEPT ![d] =
                                 [doc \in Docs |-> IF doc \in tx[d].doc THEN {} ELSE @[doc]]]
                         ELSE digests
           /\ \A e \in Devices : \A x \in Docs : digests'[e][x] \subseteq digests[e][x]
<1>1. /\ TypeOK /\ tx[d].held \subseteq mem[d]
      /\ mem[d] = disk[d] \cup (IF tx[d].save THEN tx[d].held ELSE {})
    BY CalmThen DEF KeepInv
<1>2. CASE tx[d].save
  <2>1. /\ disk' = [disk EXCEPT ![d] = @ \cup tx[d].held]
        /\ mem' = [mem EXCEPT ![d] = @ \cup tx[d].held]
        /\ digests' = [digests EXCEPT ![d] =
                         [doc \in Docs |-> IF doc \in tx[d].doc THEN {} ELSE @[doc]]]
      BY <1>2 DEF Save
  <2>2. mem' = mem
      BY <1>1, <2>1 DEF TypeOK
  <2>3. disk' = [disk EXCEPT ![d] = mem[d]]
      BY <1>1, <1>2, <2>1 DEF TypeOK
  <2>4. \A e \in Devices : \A x \in Docs : digests'[e][x] \subseteq digests[e][x]
      BY <1>1, <2>1 DEF TypeOK
  <2>5. QED
      BY <1>2, <2>1, <2>2, <2>3, <2>4
<1>3. CASE ~tx[d].save
  <2>1. UNCHANGED <<disk, mem, digests>> /\ mem[d] = disk[d]
      BY <1>1, <1>3 DEF Save
  <2>2. disk' = [disk EXCEPT ![d] = mem[d]]
      BY <1>1, <2>1 DEF TypeOK
  <2>3. QED
      BY <1>3, <2>1, <2>2
<1>4. QED
    BY <1>2, <1>3

(* A failure is remembered. *)
LEMMA FailedStays ==
    ASSUME [Next]_vars, failed
    PROVE  failed'
<1>1. CASE StoreStep
  <2>1. PICK d \in Devices :
          \/ CommitExport(d) \/ CommitImport(d) \/ RollBack(d) \/ EndFailure(d)
          \/ \E doc \in Facts : BeginExport(d, doc) \/ ReadVersion(d, doc) \/ CacheVersion(d, doc)
      BY <1>1 DEF StoreStep
  <2>2. CASE CommitExport(d) \/ CommitImport(d) \/ RollBack(d) \/ EndFailure(d)
      BY <2>2 DEF CommitExport, CommitImport, RollBack, EndFailure
  <2>3. CASE \E doc \in Facts : BeginExport(d, doc) \/ ReadVersion(d, doc) \/ CacheVersion(d, doc)
      BY <2>3 DEF BeginExport, ReadVersion, CacheVersion
  <2>4. QED
      BY <2>1, <2>2, <2>3
<1>2. CASE LinkStep
    BY <1>2 DEF LinkStep, Writer, Reader, WriteQueued, WriteDirty, ReadSummary, ReadWant,
       ReadRequest, ReadEmpty, ReadNote, BeginImport, Tick
<1>3. QED
    BY <1>1, <1>2 DEF Next, LocalEdit, Connect, Break, Restart, vars

(* Nothing is rolled back, and nothing is left to be dropped. *)
LEMMA NoFailure ==
    ASSUME CalmInv, ~failed, ~failed', NEW d \in Devices
    PROVE  ~RollBack(d) /\ ~EndFailure(d)
<1>1. \A i \in Slots : fallen[d][i] = NoTx
    BY CalmThen, Nothing
<1>2. QED
    BY <1>1 DEF RollBack, EndFailure

(* A step after which every transaction's document is still in memory. *)
LEMMA CalmKept ==
    ASSUME CalmInv, ~failed, ~overtaken',
           \A e \in Devices : fallen'[e] = fallen[e] /\ tx'[e].held \subseteq mem'[e]
    PROVE  ~overtaken' /\ \A e \in Devices : Calm(e)'
    BY CalmThen DEF Calm

(* Links that close leave what a transaction holds in memory. *)
LEMMA CalmBreak ==
    ASSUME CalmInv, ~failed,
           (\E p \in Pairs : Break(p)) \/ \E d \in Devices : Restart(d)
    PROVE  ~overtaken' /\ \A e \in Devices : Calm(e)'
<1>1. TypeOK /\ ~overtaken /\ overtaken' = overtaken
    BY DEF CalmInv, OneInv, KeepInv, Break, Restart
<1>2. ASSUME NEW e \in Devices, NEW ends
      PROVE  OrphanedFallen(e, ends) = NoneFallen /\ Orphaned(tx[e], e, ends).held = tx[e].held
  <2>1. fallen[e] = NoneFallen /\ tx[e] \in Tx
      BY <1>1, CalmThen DEF TypeOK
  <2>2. Orphaned(NoTx, e, ends) = NoTx
      BY DEF Orphaned, NoTx
  <2>3. OrphanedFallen(e, ends) = NoneFallen
      BY <2>1, <2>2 DEF OrphanedFallen, NoneFallen
  <2>4. Orphaned(tx[e], e, ends).held = tx[e].held
    <3> DEFINE left == {f \in tx[e].from : <<e, f>> \notin ends}
    <3>1. Orphaned(tx[e], e, ends) = [tx[e] EXCEPT !.from = left]
        BY DEF Orphaned
    <3> HIDE DEF left
    <3>2. QED
        BY <2>1, <3>1 DEF Tx
  <2>5. QED
      BY <2>3, <2>4
<1>3. ASSUME NEW p \in Pairs, Break(p), NEW e \in Devices
      PROVE  Calm(e)'
  <2>1. /\ tx'[e] = Orphaned(tx[e], e, EndsOfPair(p))
        /\ fallen'[e] = OrphanedFallen(e, EndsOfPair(p)) /\ mem' = mem
      BY <1>3 DEF Break
  <2>2. QED
      BY <1>2, <2>1, CalmThen DEF Calm
<1>4. ASSUME NEW d \in Devices, Restart(d), NEW e \in Devices
      PROVE  Calm(e)'
  <2> DEFINE ends == {l \in Ends : d \in {l[1], l[2]}}
  <2>1. /\ tx'[e] = IF e = d THEN NoTx ELSE Orphaned(tx[e], e, ends)
        /\ fallen'[e] = IF e = d THEN NoneFallen ELSE OrphanedFallen(e, ends)
        /\ mem' = [mem EXCEPT ![d] = disk[d]]
      BY <1>4 DEF Restart, DropCache
  <2> HIDE DEF ends
  <2>2. CASE e = d
      BY <2>1, <2>2, Nothing DEF Calm
  <2>3. CASE e # d
    <3>1. mem'[e] = mem[e]
        BY <1>1, <2>1, <2>3 DEF TypeOK
    <3>2. QED
        BY <1>2, <2>1, <2>3, <3>1, CalmThen DEF Calm
  <2>4. QED
      BY <2>2, <2>3
<1>5. QED
    BY <1>1, <1>3, <1>4

(* What an edit or a merged note does to memory. *)
LEMMA CalmGrows ==
    ASSUME CalmInv, ~failed, overtaken' = overtaken, UNCHANGED <<tx, fallen>>,
           \/ mem' = mem
           \/ \E d \in Devices : \E S : mem' = [mem EXCEPT ![d] = @ \cup S]
    PROVE  ~overtaken' /\ \A e \in Devices : Calm(e)'
<1>1. ~overtaken /\ mem \in [Devices -> SUBSET Updates]
    BY DEF CalmInv, OneInv, KeepInv, TypeOK
<1>2. \A e \in Devices : mem[e] \subseteq mem'[e]
    BY <1>1
<1>3. \A e \in Devices : fallen'[e] = fallen[e] /\ tx'[e].held \subseteq mem'[e]
    BY <1>2, CalmThen
<1>4. QED
    BY <1>1, <1>3, CalmKept

(* Every step keeps it. *)
LEMMA CalmStep ==
    ASSUME SyncAssumption, CalmInv, [Next]_vars
    PROVE  CalmInv'
<1>1. KeepInv /\ OneInv /\ OneInv' /\ FactsInv'
    BY OneStep, FactsInvStep DEF CalmInv, OneInv
<1> SUFFICES ASSUME ~failed'
             PROVE  ~overtaken' /\ \A e \in Devices : Calm(e)'
    BY <1>1 DEF CalmInv
<1>2. ~failed
    BY FailedStays
<1>3. ASSUME NEW u \in Updates, LocalEdit(u)
      PROVE  ~overtaken' /\ \A e \in Devices : Calm(e)'
  <2>1. Maker[u] \in Devices
      BY DEF SyncAssumption
  <2>2. /\ overtaken' = overtaken /\ UNCHANGED <<tx, fallen>>
        /\ mem' = mem \/ mem' = [mem EXCEPT ![Maker[u]] = @ \cup {u}]
      BY <1>3 DEF LocalEdit
  <2>3. QED
      BY <1>2, <2>1, <2>2, CalmGrows
<1>4. ASSUME NEW d \in Devices, CommitExport(d) \/ CommitImport(d)
      PROVE  ~overtaken' /\ \A e \in Devices : Calm(e)'
  <2>1. /\ Save(d) /\ tx' = [tx EXCEPT ![d] = NoTx] /\ UNCHANGED <<fallen, overtaken>>
      BY <1>4 DEF CommitExport, CommitImport
  <2>2. mem' = mem
      BY <1>2, <2>1, CalmSave
  <2>3. tx \in [Devices -> Tx] /\ ~overtaken
      BY <1>1, <1>2 DEF KeepInv, TypeOK, CalmInv
  <2>4. \A e \in Devices : tx'[e] = tx[e] \/ tx'[e] = NoTx
      BY <2>1, <2>3
  <2>5. \A e \in Devices : tx'[e].held \subseteq mem'[e]
      BY <1>2, <2>2, <2>4, CalmThen, Nothing
  <2>6. QED
      BY <1>2, <2>1, <2>3, <2>5, CalmKept
<1>5. ASSUME NEW d \in Devices, NEW doc \in Facts, BeginExport(d, doc)
      PROVE  ~overtaken' /\ \A e \in Devices : Calm(e)'
  <2>1. /\ ~overtaken' /\ tx'[d].held \subseteq mem'[d]
        /\ \A e \in Devices \ {d} : mem'[e] = mem[e] /\ tx'[e] = tx[e]
      BY <1>2, <1>5, CalmBeginExport
  <2>2. fallen' = fallen
      BY <1>5 DEF BeginExport
  <2>3. \A e \in Devices : tx'[e].held \subseteq mem'[e]
      BY <1>2, <2>1, CalmThen
  <2>4. QED
      BY <1>2, <2>1, <2>2, <2>3, CalmKept
<1>6. ASSUME NEW l \in Ends, BeginImport(l)
      PROVE  ~overtaken' /\ \A e \in Devices : Calm(e)'
  <2>1. /\ ~overtaken' /\ tx'[l[1]].held \subseteq mem'[l[1]]
        /\ \A e \in Devices \ {l[1]} : mem'[e] = mem[e] /\ tx'[e] = tx[e]
      BY <1>2, <1>6, CalmBeginImport
  <2>2. fallen' = fallen
      BY <1>6 DEF BeginImport
  <2>3. \A e \in Devices : tx'[e].held \subseteq mem'[e]
      BY <1>2, <2>1, CalmThen
  <2>4. QED
      BY <1>2, <2>1, <2>2, <2>3, CalmKept
<1>7. ASSUME NEW d \in Devices, NEW doc \in Facts, ReadVersion(d, doc) \/ CacheVersion(d, doc)
      PROVE  ~overtaken' /\ \A e \in Devices : Calm(e)'
  <2>1. UNCHANGED <<mem, tx, fallen, overtaken>>
      BY <1>7 DEF ReadVersion, CacheVersion
  <2>2. QED
      BY <1>2, <2>1, CalmGrows
<1>8. ASSUME NEW l \in Ends, Writer(l) \/ Reader(l) \/ Tick(l), ~BeginImport(l)
      PROVE  ~overtaken' /\ \A e \in Devices : Calm(e)'
  <2>1. CASE ReadNote(l)
    <3>1. /\ overtaken' = overtaken /\ UNCHANGED <<tx, fallen>> /\ l[1] \in Devices
          /\ mem' = mem \/ mem' = [mem EXCEPT ![l[1]] = @ \cup Incoming(l).vers]
        BY <2>1, EndsFacts DEF ReadNote
    <3>2. QED
        BY <1>2, <3>1, CalmGrows
  <2>2. CASE ~ReadNote(l)
    <3>1. UNCHANGED <<mem, tx, fallen, overtaken>>
        BY <1>8, <2>2 DEF Writer, Reader, WriteQueued, WriteDirty, Tick, ReadSummary, ReadWant,
           ReadRequest, ReadEmpty, store
    <3>2. QED
        BY <1>2, <3>1, CalmGrows
  <2>3. QED
      BY <2>1, <2>2
<1>9. ASSUME NEW p \in Pairs, Connect(p)
      PROVE  ~overtaken' /\ \A e \in Devices : Calm(e)'
  <2>1. UNCHANGED <<mem, tx, fallen, overtaken>>
      BY <1>9 DEF Connect, store
  <2>2. QED
      BY <1>2, <2>1, CalmGrows
<1>10. CASE UNCHANGED vars
  <2>1. UNCHANGED <<mem, tx, fallen, overtaken>>
      BY <1>10 DEF vars, store
  <2>2. QED
      BY <1>2, <2>1, CalmGrows
<1>11. CASE StoreStep
  <2>1. \A d \in Devices : ~RollBack(d) /\ ~EndFailure(d)
      BY <1>2, NoFailure
  <2>2. QED
      BY <1>4, <1>5, <1>7, <1>11, <2>1 DEF StoreStep
<1>12. CASE LinkStep
    BY <1>6, <1>8, <1>12 DEF LinkStep
<1>13. QED
    BY <1>2, <1>3, <1>9, <1>10, <1>11, <1>12, CalmBreak DEF Next

(* It holds at the start. *)
LEMMA CalmInit ==
    ASSUME SyncAssumption, Init
    PROVE  CalmInv
<1>1. OneInv /\ FactsInv
    BY OneInit, FactsInit
<1>2. \A d \in Devices : Calm(d)
    BY Nothing DEF Init, Calm
<1>3. ~overtaken
    BY DEF Init
<1>4. QED
    BY <1>1, <1>2, <1>3 DEF CalmInv

(* A note is where its recording is.                                          *)
HomeThere(d) == \A doc \in Docs : Part(mem[d], doc) # {} => Accepts(d, doc)

(* what is cached is there,                                                   *)
Cached(d) == \A doc \in Docs : digests[d][doc] \cup late[d][doc] \subseteq Part(mem[d], doc)

(* what is announced, asked with and given is there,                          *)
Said(l) ==
    /\ \A m \in Sent(l) : m.vers \subseteq mem[l[1]]
    /\ \A m \in Queued(l) : m.type = "Serve" => m.vers \subseteq mem[l[2]]
    /\ due[l] \subseteq mem[l[2]]

(* and what the last complete summary announced is here, or awaited, and an   *)
(* answer that is on its way has it, unless it is repeated.                   *)
DueMet(l) ==
    \A doc \in Docs :
        /\ Part(due[l], doc) # {} => Accepts(l[1], doc)
        /\ wanted[l][doc] = "no" => Part(due[l], doc) \subseteq mem[l[1]]
        /\ wanted[l][doc] = "asked" =>
             \A m \in Sent(Other(l)) : m.type = "Update" /\ doc \in m.doc
                => Part(due[l], doc) \subseteq m.vers \cup mem[l[1]]

SyncedMet(l) == synced[l] => due[l] \subseteq mem[l[1]]

Honest ==
    /\ \A d \in Devices : Cached(d)
    /\ \A l \in Ends : Said(l) /\ DueMet(l) /\ SyncedMet(l)

CoverInv ==
    /\ CalmInv
    /\ ~failed => Honest /\ \A d \in Devices : HomeThere(d)

(* The invariant has the property. *)
LEMMA CoverMeans == CoverInv => SyncedCoversSummary
    BY DEF CoverInv, Honest, SyncedMet, SyncedCoversSummary

(* An update belongs to one document. *)
LEMMA PartsAreApart ==
    ASSUME SyncAssumption
    PROVE  /\ \A S, doc : Part(S, doc) \subseteq S /\ Part(S, doc) \subseteq Of(doc)
           /\ \A S, T, doc : S \subseteq T => Part(S, doc) \subseteq Part(T, doc)
           /\ \A S, T : S \subseteq Updates /\ (\A doc \in Docs : Part(S, doc) \subseteq T) => S \subseteq T
           /\ \A S, x, y : x # y => Part(Part(S, x), y) = {}
<1>1. \A S, T : S \subseteq Updates /\ (\A doc \in Docs : Part(S, doc) \subseteq T) => S \subseteq T
    BY DEF SyncAssumption, Part, Of
<1>2. QED
    BY <1>1 DEF Part, Of

(* Rows are not taken away. *)
LEMMA RowsGrow ==
    ASSUME SyncAssumption, CalmInv, CalmInv', ~failed', [Next]_vars
    PROVE  \A d \in Devices : rows[d] \subseteq rows'[d]
<1>1. KeepInv /\ KeepInv' /\ FactsInv /\ ~overtaken'
    BY DEF CalmInv, OneInv
<1>2. [Promise!Next]_rows
    BY <1>1, FactsStep
<1>3. rows \in [Devices -> SUBSET Updates]
    BY <1>1 DEF KeepInv, TypeOK
<1>4. CASE UNCHANGED rows
    BY <1>4
<1>5. CASE Promise!Next
  <2>1. PICK e \in Devices : Promise!Author(e) \/ Promise!Learn(e)
      BY <1>5 DEF Promise!Next
  <2>2. \E S : rows' = [rows EXCEPT ![e] = @ \cup S]
      BY <2>1 DEF Promise!Author, Promise!Learn
  <2>3. QED
      BY <1>3, <2>2
<1>6. QED
    BY <1>2, <1>4, <1>5

(* What a device accepts, it goes on accepting. *)
LEMMA GoesOnAccepting ==
    ASSUME NEW d, NEW doc, rows[d] \subseteq rows'[d], Accepts(d, doc)
    PROVE  Accepts(d, doc)'
    BY DEF Accepts, Part

(* A note that comes here finds its recording. *)
LEMMA HomeKept ==
    ASSUME NEW d \in Devices, HomeThere(d), rows[d] \subseteq rows'[d],
           \A doc \in Docs : Part(mem'[d], doc) # {} => Part(mem[d], doc) # {} \/ Accepts(d, doc)
    PROVE  HomeThere(d)'
    BY GoesOnAccepting DEF HomeThere

(* A cached version does not run ahead of its document. *)
LEMMA CachedKept ==
    ASSUME NEW d \in Devices, Cached(d), mem[d] \subseteq mem'[d],
           \A doc \in Docs : digests'[d][doc] \cup late'[d][doc]
              \subseteq digests[d][doc] \cup late[d][doc] \cup Part(mem[d], doc)
    PROVE  Cached(d)'
    BY DEF Cached, Part

(* What was said and is still under way stays true. *)
LEMMA SaidKept ==
    ASSUME NEW l \in Ends, Said(l),
           mem[l[1]] \subseteq mem'[l[1]], mem[l[2]] \subseteq mem'[l[2]],
           \A m \in Sent(l)' : m \in Sent(l) \/ m.vers \subseteq mem'[l[1]],
           \A x \in Queued(l)' : x.type = "Serve" => x \in Queued(l) \/ x.vers \subseteq mem'[l[2]],
           due'[l] = due[l] \/ due'[l] \subseteq mem'[l[2]]
    PROVE  Said(l)'
    BY DEF Said

(* What a summary announced is still here or asked for. *)
LEMMA DueKept ==
    ASSUME NEW l \in Ends, DueMet(l), wanted'[l] = wanted[l], due'[l] = due[l],
           mem[l[1]] \subseteq mem'[l[1]], rows[l[1]] \subseteq rows'[l[1]],
           \A m \in Sent(Other(l))' : m.type = "Update" =>
              \/ m \in Sent(Other(l))
              \/ \A doc \in m.doc : Part(due[l], doc) \subseteq m.vers \cup mem'[l[1]]
    PROVE  DueMet(l)'
<1> SUFFICES ASSUME NEW doc \in Docs
             PROVE  /\ Part(due[l], doc) # {} => Accepts(l[1], doc)'
                    /\ wanted[l][doc] = "no" => Part(due[l], doc) \subseteq mem'[l[1]]
                    /\ wanted[l][doc] = "asked" =>
                         \A m \in Sent(Other(l))' : m.type = "Update" /\ doc \in m.doc
                            => Part(due[l], doc) \subseteq m.vers \cup mem'[l[1]]
    BY DEF DueMet
<1>1. Part(due[l], doc) # {} => Accepts(l[1], doc)'
    BY GoesOnAccepting DEF DueMet
<1>2. QED
    BY <1>1 DEF DueMet

(* The stamp stays true while memory only grows. *)
LEMMA SyncedKept ==
    ASSUME NEW l \in Ends, SyncedMet(l), synced'[l] = synced[l], due'[l] = due[l],
           mem[l[1]] \subseteq mem'[l[1]]
    PROVE  SyncedMet(l)'
    BY DEF SyncedMet

(* A version is of what is there. *)
LEMMA VersionThere ==
    ASSUME NEW d, Cached(d), NEW doc \in Docs
    PROVE  VersionOf(d, doc) \subseteq Part(mem[d], doc)
    BY DEF Cached, VersionOf

(* A version is cached as it was computed. *)
LEMMA CacheThere ==
    ASSUME TypeOK, NEW d \in Devices, NEW docs \in SUBSET Docs, Cache(d, docs), mem' = mem,
           late' = late, \A e \in Devices : Cached(e)
    PROVE  \A e \in Devices : Cached(e)'
<1> SUFFICES ASSUME NEW e \in Devices
             PROVE  Cached(e)'
    OBVIOUS
<1>1. /\ \A x \in Devices \ {d} : digests'[x] = digests[x]
      /\ \A doc \in Docs : digests'[d][doc] =
            IF doc \in docs \ Notes THEN VersionOf(d, doc) ELSE digests[d][doc]
    BY CacheType
<1>2. \A doc \in Docs : VersionOf(d, doc) \subseteq Part(mem[d], doc)
    BY VersionThere
<1>3. CASE e = d
    BY <1>1, <1>2, <1>3, CachedKept
<1>4. CASE e # d
    BY <1>1, <1>4, CachedKept
<1>5. QED
    BY <1>3, <1>4

-----------------------------------------------------------------------------
(* Steps of a store that touch no link.                                      *)
LEMMA CoverStore ==
    ASSUME CoverInv, ~failed, CalmInv', UNCHANGED <<queue, wire, wanted, synced, due>>,
           \A d \in Devices : rows[d] \subseteq rows'[d] /\ HomeThere(d)',
           ~failed' => /\ \A d \in Devices : mem[d] \subseteq mem'[d]
                       /\ (\A d \in Devices : Cached(d)) => (\A d \in Devices : Cached(d)')
    PROVE  CoverInv'
<1>1. \A k \in Ends : Sent(k)' = Sent(k) /\ Queued(k)' = Queued(k)
    BY DEF Sent, Queued
<1>3. ASSUME ~failed'
      PROVE  Honest'
  <2>1. Honest /\ \A d \in Devices : mem[d] \subseteq mem'[d]
      BY <1>3 DEF CoverInv
  <2>2. \A d \in Devices : Cached(d)'
      BY <1>3, <2>1 DEF Honest
  <2>3. ASSUME NEW k \in Ends
        PROVE  Said(k)' /\ DueMet(k)' /\ SyncedMet(k)'
    <3>1. /\ k[1] \in Devices /\ k[2] \in Devices /\ Other(k) \in Ends
          /\ Said(k) /\ DueMet(k) /\ SyncedMet(k)
        BY <2>1, EndsFacts DEF Honest
    <3>2. mem[k[1]] \subseteq mem'[k[1]] /\ mem[k[2]] \subseteq mem'[k[2]]
          /\ rows[k[1]] \subseteq rows'[k[1]]
        BY <2>1, <3>1
    <3>3. Said(k)'
        BY <1>1, <3>1, <3>2, SaidKept
    <3>4. DueMet(k)'
        BY <1>1, <3>1, <3>2, DueKept
    <3>5. SyncedMet(k)'
        BY <3>1, <3>2, SyncedKept
    <3>6. QED
        BY <3>3, <3>4, <3>5
  <2>4. QED
      BY <2>2, <2>3 DEF Honest
<1>4. QED
    BY <1>3 DEF CoverInv

(* An edit of a note needs its recording. *)
LEMMA CoverLocalEdit ==
    ASSUME SyncAssumption, CoverInv, ~failed, CalmInv', NEW u \in Updates, LocalEdit(u),
           \A d \in Devices : rows[d] \subseteq rows'[d]
    PROVE  CoverInv'
<1>1. TypeOK /\ Maker[u] \in Devices
    BY DEF CoverInv, CalmInv, OneInv, KeepInv, SyncAssumption
<1>2. /\ DocOf[u] \in Notes => Accepts(Maker[u], DocOf[u])
      /\ \/ mem' = mem
         \/ mem' = [mem EXCEPT ![Maker[u]] = @ \cup {u}] /\ DocOf[u] \in Notes
      /\ UNCHANGED <<digests, late, queue, wanted, wire, synced, due, failed>>
    BY DEF LocalEdit, Accepts
<1>3. \A d \in Devices : /\ mem[d] \subseteq mem'[d]
                         /\ d # Maker[u] \/ DocOf[u] \notin Notes => mem'[d] = mem[d]
                         /\ mem'[d] \subseteq mem[d] \cup {u}
    BY <1>1, <1>2 DEF TypeOK
<1>4. ASSUME NEW d \in Devices
      PROVE  HomeThere(d)'
  <2>1. HomeThere(d)
      BY DEF CoverInv
  <2>2. ASSUME NEW doc \in Docs, Part(mem'[d], doc) # {}, Part(mem[d], doc) = {}
        PROVE  Accepts(d, doc)
    <3>1. d = Maker[u] /\ DocOf[u] \in Notes
        BY <1>3, <2>2
    <3>2. u \in Of(doc)
        BY <1>3, <2>2 DEF Part
    <3>3. DocOf[u] = doc
        BY <3>2 DEF Of
    <3>4. QED
        BY <1>2, <3>1, <3>3
  <2>3. QED
      BY <2>1, <2>2, HomeKept
<1>5. (\A d \in Devices : Cached(d)) => (\A d \in Devices : Cached(d)')
    BY <1>2, <1>3, CachedKept
<1>6. QED
    BY <1>2, <1>3, <1>4, <1>5, CoverStore

(* Exports, and versions that are read and cached. *)
LEMMA CoverExports ==
    ASSUME SyncAssumption, CoverInv, ~failed, CalmInv', NEW d \in Devices,
           \/ CommitExport(d)
           \/ \E doc \in Facts : BeginExport(d, doc) \/ ReadVersion(d, doc) \/ CacheVersion(d, doc),
           \A e \in Devices : rows[e] \subseteq rows'[e]
    PROVE  CoverInv'
<1>1. KeepInv /\ TypeOK
    BY DEF CoverInv, CalmInv, OneInv, KeepInv
<1>2. UNCHANGED <<queue, wanted, wire, synced, due, failed>>
    BY DEF CommitExport, BeginExport, ReadVersion, CacheVersion, links
<1>3. /\ \A e \in Devices : mem[e] \subseteq mem'[e]
      /\ \A e \in Devices : \A x \in Notes : Part(mem'[e], x) = Part(mem[e], x)
  <2>1. CASE CommitExport(d) \/ \E doc \in Facts : ReadVersion(d, doc) \/ CacheVersion(d, doc)
    <3>1. CASE CommitExport(d)
      <4>1. mem' = mem
          BY <3>1, CalmSave DEF CoverInv, CommitExport
      <4>2. QED
          BY <4>1
    <3>2. QED
        BY <2>1, <3>1 DEF ReadVersion, CacheVersion
  <2>2. ASSUME NEW doc \in Facts, BeginExport(d, doc)
        PROVE  /\ \A e \in Devices : mem[e] \subseteq mem'[e]
               /\ \A e \in Devices : \A x \in Notes : Part(mem'[e], x) = Part(mem[e], x)
    <3>1. mem' = [mem EXCEPT ![d] = @ \cup Part(rows[d], doc)]
        BY <2>2, CalmBeginExport DEF CoverInv
    <3>2. \A e \in Devices : mem[e] \subseteq mem'[e] /\ mem'[e] \subseteq mem[e] \cup Part(rows[d], doc)
        BY <1>1, <3>1 DEF TypeOK
    <3>3. \A x \in Notes : x # doc
        BY DEF Facts
    <3>4. \A x \in Notes : Part(Part(rows[d], doc), x) = {}
        BY <3>3, PartsAreApart
    <3>5. QED
        BY <3>2, <3>4 DEF Part
  <2>3. QED
      BY <2>1, <2>2
<1>4. ASSUME NEW e \in Devices
      PROVE  HomeThere(e)'
  <2>1. HomeThere(e)
      BY DEF CoverInv
  <2>2. \A doc \in Docs : Part(mem'[e], doc) # {} => Part(mem[e], doc) # {} \/ Accepts(e, doc)
      BY <1>3 DEF Accepts
  <2>3. QED
      BY <2>1, <2>2, HomeKept
<1>5. ASSUME \A e \in Devices : Cached(e)
      PROVE  \A e \in Devices : Cached(e)'
  <2> SUFFICES ASSUME NEW e \in Devices
               PROVE  Cached(e)'
      OBVIOUS
  <2>1. Cached(e) /\ mem[e] \subseteq mem'[e]
      BY <1>3, <1>5
  <2>2. \A x \in Docs : digests'[e][x] \cup late'[e][x]
                          \subseteq digests[e][x] \cup late[e][x] \cup Part(mem[e], x)
    <3>1. CASE CommitExport(d)
      <4>1. late' = late /\ \A x \in Docs : digests'[e][x] \subseteq digests[e][x]
          BY <3>1, CalmSave DEF CoverInv, CommitExport
      <4>2. QED
          BY <4>1
    <3>2. ASSUME NEW doc \in Facts, BeginExport(d, doc)
          PROVE  UNCHANGED <<digests, late>>
        BY <3>2 DEF BeginExport
    <3>3. ASSUME NEW doc \in Facts, ReadVersion(d, doc)
          PROVE  \A x \in Docs : digests'[e][x] \cup late'[e][x]
                                   \subseteq digests[e][x] \cup late[e][x] \cup Part(mem[e], x)
      <4>1. /\ \A x \in Docs : late[d][x] = {}
            /\ late' = [late EXCEPT ![d][doc] = Part(mem[d], doc)] /\ digests' = digests
          BY <3>3 DEF ReadVersion
      <4>2. QED
          BY <1>1, <4>1 DEF TypeOK
    <3>4. ASSUME NEW doc \in Facts, CacheVersion(d, doc)
          PROVE  \A x \in Docs : digests'[e][x] \cup late'[e][x]
                                   \subseteq digests[e][x] \cup late[e][x] \cup Part(mem[e], x)
      <4>1. /\ digests' = [digests EXCEPT ![d][doc] = late[d][doc]]
            /\ late' = [late EXCEPT ![d][doc] = {}]
          BY <3>4 DEF CacheVersion
      <4>2. QED
          BY <1>1, <4>1 DEF TypeOK
    <3>5. QED
        BY <3>1, <3>2, <3>3, <3>4
  <2>3. QED
      BY <2>1, <2>2, CachedKept
<1>6. QED
    BY <1>2, <1>3, <1>4, <1>5, CoverStore

(* An import adds updates of its document, which is no note. *)
LEMMA CoverBeginImport ==
    ASSUME SyncAssumption, CoverInv, ~failed, CalmInv', NEW l \in Ends, BeginImport(l),
           \A e \in Devices : rows[e] \subseteq rows'[e]
    PROVE  CoverInv'
<1> DEFINE d == l[1]
           m == Incoming(l)
<1>1. TypeOK /\ d \in Devices /\ Other(l) \in Ends /\ Carried(Other(l))
    BY EndsFacts, CarriedThen DEF CoverInv, CalmInv, OneInv, KeepInv
<1>2. /\ wire[Other(l)] # << >> /\ m.type = "Update"
      /\ UNCHANGED <<digests, late, queue, wanted, wire, synced, due, failed>>
    BY DEF BeginImport, Reads, Incoming, links
<1>3. m \in Sent(Other(l)) /\ m \in Message
    BY <1>1, <1>2, TailRange DEF Incoming, TypeOK, Sent
<1>4. PICK doc \in Facts : /\ doc \in m.doc /\ Pending(d, doc) \subseteq Part(rows[d], doc)
                          /\ mem' = [mem EXCEPT ![d] = (mem[d] \cup Pending(d, doc)) \cup m.vers]
    BY CalmBeginImport DEF CoverInv
<1>5. m.vers \subseteq Of(doc) /\ Pending(d, doc) \subseteq Of(doc)
    BY <1>1, <1>2, <1>3, <1>4 DEF Carried, Part
<1> HIDE DEF d, m
<1>6. \A e \in Devices : mem[e] \subseteq mem'[e] /\ mem'[e] \subseteq mem[e] \cup Of(doc)
    BY <1>1, <1>4, <1>5 DEF TypeOK
<1>7. \A x \in Notes : Of(doc) \cap Of(x) = {}
    BY <1>4 DEF Of, Facts
<1>8. \A e \in Devices : \A x \in Notes : Part(mem'[e], x) = Part(mem[e], x)
    BY <1>6, <1>7 DEF Part
<1>9. ASSUME NEW e \in Devices
      PROVE  HomeThere(e)'
  <2>1. HomeThere(e)
      BY DEF CoverInv
  <2>2. \A x \in Docs : Part(mem'[e], x) # {} => Part(mem[e], x) # {} \/ Accepts(e, x)
      BY <1>8 DEF Accepts
  <2>3. QED
      BY <2>1, <2>2, HomeKept
<1>10. (\A e \in Devices : Cached(e)) => (\A e \in Devices : Cached(e)')
    BY <1>2, <1>6, CachedKept
<1>11. QED
    BY <1>2, <1>6, <1>9, <1>10, CoverStore

-----------------------------------------------------------------------------
(* Steps of a link.                                                          *)

(* A step that sends one message at l. *)
LEMMA CoverSending ==
    ASSUME CoverInv, ~failed, CalmInv', NEW l \in Ends, NEW m,
           UNCHANGED <<rows, mem, late, wanted, synced, due, failed>>,
           wire'[l] = wire[l] \/ Adds(Message, wire[l], wire'[l], m),
           Only(wire, wire', Message, {l}),
           \A k \in Ends : \A x \in Queued(k)' : x.type = "Serve" => x \in Queued(k),
           m.type = "Update" => \A doc \in m.doc : m.vers \subseteq Of(doc),
           ~failed => /\ m.vers \subseteq mem[l[1]]
                      /\ m.type = "Update" => \A doc \in m.doc :
                           Part(due[Other(l)], doc) \subseteq m.vers \cup mem[l[2]],
           Honest => \A d \in Devices : Cached(d)'
    PROVE  CoverInv'
<1>1. \A k \in Ends : \A x \in Sent(k)' : x \in Sent(k) \/ (x = m /\ k = l)
    BY DEF Sent, Adds, Only
<1>3. \A d \in Devices : HomeThere(d)'
    BY DEF HomeThere, Accepts, CoverInv
<1>4. ASSUME ~failed'
      PROVE  Honest'
  <2>1. Honest /\ ~failed
      BY <1>4 DEF CoverInv
  <2>2. ASSUME NEW k \in Ends
        PROVE  Said(k)' /\ DueMet(k)' /\ SyncedMet(k)'
    <3>1. /\ Other(k) \in Ends /\ Other(Other(k)) = k /\ Other(k)[1] = k[2] /\ Other(k)[2] = k[1]
          /\ Said(k) /\ DueMet(k) /\ SyncedMet(k)
        BY <2>1, EndsFacts DEF Honest
    <3>2. \A x \in Sent(k)' : x \in Sent(k) \/ x.vers \subseteq mem'[k[1]]
        BY <1>1, <2>1
    <3>3. Said(k)'
        BY <3>1, <3>2, SaidKept
    <3>4. ASSUME NEW x \in Sent(Other(k))', x.type = "Update", x \notin Sent(Other(k))
          PROVE  \A doc \in x.doc : Part(due[k], doc) \subseteq x.vers \cup mem'[k[1]]
      <4>1. x = m /\ Other(k) = l
          BY <1>1, <3>1, <3>4
      <4>2. k = Other(l) /\ l[2] = k[1]
          BY <3>1, <4>1
      <4>3. QED
          BY <2>1, <3>4, <4>1, <4>2
    <3>5. DueMet(k)'
        BY <3>1, <3>4, DueKept
    <3>6. SyncedMet(k)'
        BY <3>1, SyncedKept
    <3>7. QED
        BY <3>3, <3>5, <3>6
  <2>3. QED
      BY <2>1, <2>2 DEF Honest
<1>5. QED
    BY <1>3, <1>4 DEF CoverInv

(* A summary says what is there. *)
LEMMA SummaryThere ==
    ASSUME NEW c, NEW d, NEW docs \in SUBSET Docs, Cached(d)
    PROVE  Summary(c, d, docs).vers \subseteq mem[d]
<1>1. \A doc \in docs : VersionOf(d, doc) \subseteq Part(mem[d], doc)
    BY VersionThere
<1>2. \A doc \in docs : VersionOf(d, doc) \subseteq mem[d]
    BY <1>1 DEF Part
<1>3. QED
    BY <1>2, SummaryParts

(* A summary announces what its device has. *)
LEMMA CoverAnnouncing ==
    ASSUME CoverInv, ~failed, CalmInv', NEW l \in Ends, WriteDirty(l) \/ Tick(l)
    PROVE  CoverInv'
<1>1. TypeOK /\ l[1] \in Devices /\ dirty[l] \in SUBSET Docs
    BY EndsFacts DEF CoverInv, CalmInv, OneInv, KeepInv, TypeOK
<1>2. PICK c \in BOOLEAN, docs \in SUBSET Docs :
        \/ wire' = wire /\ digests' = digests
        \/ Adds(Message, wire[l], wire'[l], Summary(c, l[1], docs)) /\ Cache(l[1], docs)
  <2>1. CASE WriteDirty(l)
      BY <1>1, <2>1, WriteDirtyEffect
  <2>2. CASE Tick(l)
      BY <1>1, <2>2, TickEffect
  <2>3. QED
      BY <2>1, <2>2
<1>3. /\ Only(wire, wire', Message, {l})
      /\ UNCHANGED <<rows, mem, late, wanted, synced, due, failed, queue>>
    BY <1>1, WriteDirtyEffect, TickEffect DEF Rest
<1> DEFINE m == Summary(c, l[1], docs)
<1>4. m.type \in {"Complete", "Partial"}
    BY SummaryParts
<1>5. ~failed => m.vers \subseteq mem[l[1]]
    BY <1>1, SummaryThere DEF CoverInv, Honest
<1>6. Honest => \A d \in Devices : Cached(d)'
  <2>1. CASE digests' = digests
      BY <1>3, <2>1 DEF Honest, Cached
  <2>2. CASE Cache(l[1], docs)
      BY <1>1, <1>3, <2>2, CacheThere DEF Honest
  <2>3. QED
      BY <1>2, <2>1, <2>2
<1>7. \A k \in Ends : \A x \in Queued(k)' : x.type = "Serve" => x \in Queued(k)
    BY <1>3 DEF Queued
<1>8. wire'[l] = wire[l] \/ Adds(Message, wire[l], wire'[l], m)
    BY <1>2
<1> HIDE DEF m
<1>9. QED
    BY <1>3, <1>4, <1>5, <1>6, <1>7, <1>8, CoverSending

(* An answer has what the document has and the peer had not: all that the     *)
(* peer was told of.                                                          *)
LEMMA CoverWriteQueued ==
    ASSUME SyncAssumption, CoverInv, ~failed, CalmInv', NEW l \in Ends, WriteQueued(l)
    PROVE  CoverInv'
<1>1. TypeOK /\ Shapes(l) /\ l[1] \in Devices /\ Other(l) \in Ends
      /\ Other(l)[1] = l[2] /\ Other(l)[2] = l[1]
    BY EndsFacts DEF CoverInv, CalmInv, OneInv, KeepInv
<1>2. PICK item \in Outbound : item \in Queued(l) /\ WritesItem(l, item)
    BY <1>1, WriteQueuedEffect
<1>3. /\ Only(wire, wire', Message, {l}) /\ Only(queue, queue', Outbound, {l})
      /\ UNCHANGED <<rows, mem, late, wanted, synced, due, failed>>
    BY <1>1, WriteQueuedEffect DEF Rest
<1>4. \A k \in Ends : \A x \in Queued(k)' : x.type = "Serve" => x \in Queued(k)
  <2>1. \A x \in Queued(l)' : x.type = "Serve" => x \in Queued(l)
      BY <1>2 DEF WritesItem, Takes, Swaps, Queued
  <2>2. QED
      BY <1>3, <2>1 DEF Only, Queued
<1> DEFINE Fine(m) ==
        /\ Adds(Message, wire[l], wire'[l], m)
        /\ m.type = "Update" => \A doc \in m.doc : m.vers \subseteq Of(doc)
        /\ ~failed => /\ m.vers \subseteq mem[l[1]]
                      /\ m.type = "Update" => \A doc \in m.doc :
                           Part(due[Other(l)], doc) \subseteq m.vers \cup mem[l[2]]
<1>5. \E m : Fine(m)
  <2>1. CASE item.type = "Complete"
    <3> DEFINE m == Summary(TRUE, l[1], Docs)
    <3>1. Adds(Message, wire[l], wire'[l], m)
        BY <1>2, <2>1 DEF WritesItem
    <3>2. m.type = "Complete"
      <4>1. Summary(TRUE, l[1], Docs).type = "Complete"
          BY DEF Summary
      <4>2. QED
          BY <4>1
    <3>3. ~failed => m.vers \subseteq mem[l[1]]
        BY <1>1, SummaryThere DEF CoverInv, Honest
    <3> HIDE DEF m
    <3>4. Fine(m)
        BY <3>1, <3>2, <3>3
    <3> HIDE DEF Fine
    <3>5. QED
        BY <3>4
  <2>2. CASE item.type = "RequestSummary"
    <3>1. Adds(Message, wire[l], wire'[l], RequestSummary)
        BY <1>2, <2>2 DEF WritesItem
    <3>2. RequestSummary.type = "RequestSummary" /\ RequestSummary.vers = {}
        BY Formed
    <3>3. Fine(RequestSummary)
        BY <3>1, <3>2
    <3> HIDE DEF Fine
    <3>4. QED
        BY <3>3
  <2>3. CASE item.type = "Want"
    <3>1. PICK doc \in Docs : Adds(Message, wire[l], wire'[l], Want(doc, VersionOf(l[1], doc)))
        BY <1>2, <2>3 DEF WritesItem
    <3> DEFINE m == Want(doc, VersionOf(l[1], doc))
    <3>2. VersionOf(l[1], doc) \in SUBSET Updates
        BY <1>1, Computed
    <3>3. m.type = "Want" /\ m.vers = VersionOf(l[1], doc) /\ Adds(Message, wire[l], wire'[l], m)
        BY <3>1, <3>2, Formed
    <3>4. ~failed => VersionOf(l[1], doc) \subseteq mem[l[1]]
      <4>1. ~failed => VersionOf(l[1], doc) \subseteq Part(mem[l[1]], doc)
          BY <1>1, VersionThere DEF CoverInv, Honest
      <4>2. QED
          BY <4>1 DEF Part
    <3> HIDE DEF m
    <3>5. Fine(m)
        BY <3>3, <3>4
    <3> HIDE DEF Fine
    <3>6. QED
        BY <3>5
  <2>4. CASE item.type = "Serve"
    <3>1. PICK doc \in Docs : Adds(Message, wire[l], wire'[l],
                                   Update(doc, Part(mem[l[1]], doc) \ item.vers))
        BY <1>2, <2>4 DEF WritesItem
    <3> DEFINE m == Update(doc, Part(mem[l[1]], doc) \ item.vers)
    <3>2. Part(mem[l[1]], doc) \ item.vers \in SUBSET Updates
        BY <1>1, Computed
    <3>3. /\ m.type = "Update" /\ m.doc = {doc} /\ m.vers = Part(mem[l[1]], doc) \ item.vers
          /\ Adds(Message, wire[l], wire'[l], m)
        BY <3>1, <3>2, Formed
    <3>4. Part(mem[l[1]], doc) \subseteq mem[l[1]] /\ Part(mem[l[1]], doc) \subseteq Of(doc)
        BY PartsAreApart
    <3>5. ~failed => Part(due[Other(l)], doc) \subseteq Part(mem[l[1]], doc) /\ item.vers \subseteq mem[l[2]]
      <4>1. ~failed => Said(l) /\ Said(Other(l))
          BY <1>1 DEF CoverInv, Honest
      <4>2. ~failed => due[Other(l)] \subseteq mem[l[1]] /\ item.vers \subseteq mem[l[2]]
          BY <1>1, <1>2, <2>4, <4>1 DEF Said
      <4>3. QED
          BY <4>2, PartsAreApart
    <3> HIDE DEF m
    <3>6. Fine(m)
      <4>1. ~failed => Part(due[Other(l)], doc) \subseteq m.vers \cup mem[l[2]]
          BY <3>3, <3>5
      <4>2. QED
          BY <3>3, <3>4, <4>1
    <3> HIDE DEF Fine
    <3>7. QED
        BY <3>6
  <2>5. QED
      BY <1>2, <2>1, <2>2, <2>3, <2>4 DEF WritesItem
<1>6. Honest => \A d \in Devices : Cached(d)'
  <2> HIDE DEF Fine
  <2>1. digests' = digests \/ \E docs \in SUBSET Docs : Cache(l[1], docs)
    <3>1. UNCHANGED digests \/ Cache(l[1], Docs) \/ \E doc \in Docs : Cache(l[1], {doc})
        BY <1>2 DEF WritesItem
    <3>2. Docs \in SUBSET Docs /\ \A doc \in Docs : {doc} \in SUBSET Docs
        OBVIOUS
    <3> HIDE DEF Cache
    <3>3. QED
        BY <3>1, <3>2
  <2>2. CASE digests' = digests
      BY <1>3, <2>2 DEF Honest, Cached
  <2>3. CASE \E docs \in SUBSET Docs : Cache(l[1], docs)
      BY <1>1, <1>3, <2>3, CacheThere DEF Honest
  <2>4. QED
      BY <2>1, <2>2, <2>3
<1>7. PICK m : Fine(m)
  <2> HIDE DEF Fine
  <2>1. QED
      BY <1>5
<1>8. QED
    BY <1>3, <1>4, <1>6, <1>7, CoverSending

(* No answer is on its way for a document that is not awaited,                *)
LEMMA NoAnswer ==
    ASSUME OneInv, NEW l \in Ends, NEW doc \in Docs, wanted[l][doc] = "no"
    PROVE  \A m \in Sent(Other(l)) : ~Matches(m, "Update", doc)
<1>1. TypeOK /\ Other(l) \in Ends /\ Booked(l, doc)
    BY EndsFacts DEF OneInv, KeepInv
<1>2. QW(l, doc) + WW(l, doc) + QS(Other(l), doc) + WU(Other(l), doc) = 0
    BY <1>1 DEF Booked
<1>3. /\ QW(l, doc) \in Nat /\ WW(l, doc) \in Nat
      /\ QS(Other(l), doc) \in Nat /\ WU(Other(l), doc) \in Nat
    BY <1>1, CountsAreNumbers
<1>4. WU(Other(l), doc) = 0
    BY <1>2, <1>3
<1>5. wire[Other(l)] \in Seq(Message)
    BY <1>1 DEF TypeOK
<1>6. Count(wire[Other(l)], "Update", doc) = 0 <=> \A m \in Range(wire[Other(l)]) : ~Matches(m, "Update", doc)
    BY <1>5, CountType
<1>7. QED
    BY <1>4, <1>6 DEF WU, Sent

(* nor after the answer has been read.                                        *)
LEMMA LastAnswer ==
    ASSUME OneInv, TypeOK', NEW l \in Ends, NEW doc \in Docs,
           Takes(Message, wire[Other(l)], wire'[Other(l)], Incoming(l)),
           Matches(Incoming(l), "Update", doc)
    PROVE  \A m \in Sent(Other(l))' : ~Matches(m, "Update", doc)
<1>1. TypeOK /\ Other(l) \in Ends /\ Booked(l, doc)
    BY EndsFacts DEF OneInv, KeepInv
<1>2. \/ QW(l, doc) + WW(l, doc) + QS(Other(l), doc) + WU(Other(l), doc) = 0
      \/ QW(l, doc) + WW(l, doc) + QS(Other(l), doc) + WU(Other(l), doc) = 1
    BY <1>1 DEF Booked
<1>3. /\ QW(l, doc) \in Nat /\ WW(l, doc) \in Nat
      /\ QS(Other(l), doc) \in Nat /\ WU(Other(l), doc) \in Nat /\ WU(Other(l), doc)' \in Nat
    BY <1>1, CountsAreNumbers, NumbersAfter
<1>4. WU(Other(l), doc) = WU(Other(l), doc)' + One(Incoming(l), "Update", doc)
    BY DEF Takes, WU
<1>5. One(Incoming(l), "Update", doc) = 1
    BY DEF One
<1>6. WU(Other(l), doc)' = 0
  <2>1. WU(Other(l), doc) = WU(Other(l), doc)' + 1
      BY <1>4, <1>5
  <2>2. QED
      BY <1>2, <1>3, <2>1
<1>7. wire'[Other(l)] \in Seq(Message)
    BY <1>1 DEF TypeOK
<1>8. Count(wire'[Other(l)], "Update", doc) = 0
         <=> \A m \in Range(wire'[Other(l)]) : ~Matches(m, "Update", doc)
    BY <1>7, CountType
<1>9. QED
    BY <1>6, <1>8 DEF WU, Sent

(* What a complete summary makes due is of a document that is here or can be. *)
LEMMA AnnouncedPart ==
    ASSUME SyncAssumption, NEW l, NEW m, NEW doc
    PROVE  /\ Announced(l, m) \subseteq m.vers
           /\ Part(Announced(l, m), doc) \subseteq Part(m.vers, doc)
           /\ Part(Announced(l, m), doc) # {} =>
                 doc \in m.doc /\ (Present(l[1], doc) \/ Accepts(l[1], doc))
<1>1. ASSUME NEW u \in Announced(l, m)
      PROVE  /\ u \in m.vers
             /\ u \in Of(doc) => doc \in m.doc /\ (Present(l[1], doc) \/ Accepts(l[1], doc))
  <2>1. PICK x \in m.doc : (Present(l[1], x) \/ Accepts(l[1], x)) /\ u \in Part(m.vers, x)
      BY <1>1 DEF Announced
  <2>2. u \in m.vers /\ u \in Of(x)
      BY <2>1 DEF Part
  <2>3. u \in Of(doc) => doc = x
      BY <2>2 DEF Of
  <2>4. QED
      BY <2>1, <2>2, <2>3
<1>2. QED
    BY <1>1 DEF Part

(* The reader reads what the peer has said. *)
LEMMA CoverReadSummary ==
    ASSUME SyncAssumption, CoverInv, ~failed, CalmInv', NEW l \in Ends, ReadSummary(l)
    PROVE  CoverInv'
<1>1. /\ TypeOK /\ TypeOK' /\ OneInv /\ l[1] \in Devices /\ Other(l) \in Ends
      /\ Other(l)[1] = l[2] /\ Other(l)[2] = l[1]
    BY EndsFacts DEF CoverInv, CalmInv, OneInv, KeepInv
<1>2. /\ Only(wire, wire', Message, {Other(l)}) /\ Only(queue, queue', Outbound, {l})
      /\ due' \in [Ends -> SUBSET Updates]
      /\ UNCHANGED <<rows, mem, late, failed>>
    BY <1>1, ReadSummaryEffect
<1>3. PICK m \in Message : ReadsSummary(l, m)
    BY <1>1, ReadSummaryEffect
<1>4. /\ m.type \in {"Complete", "Partial"}
      /\ Takes(Message, wire[Other(l)], wire'[Other(l)], m)
      /\ \/ queue'[l] = queue[l]
         \/ Adds(Outbound, queue[l], queue'[l], WantItem(New(l, m)))
      /\ \A doc \in Docs : wanted'[l][doc] =
            IF doc \in New(l, m) THEN "asked"
            ELSE IF doc \in Differing(l, m) THEN "stale" ELSE wanted[l][doc]
      /\ \A k \in Ends \ {l} : wanted'[k] = wanted[k] /\ synced'[k] = synced[k] /\ due'[k] = due[k]
      /\ synced'[l] = IF m.type = "Complete" THEN Settled(l, Differing(l, m)) ELSE synced[l]
      /\ due'[l] = IF m.type = "Complete" THEN Announced(l, m) ELSE due[l]
      /\ Cache(l[1], m.doc)
    BY <1>3 DEF ReadsSummary
<1>5. m.doc \in SUBSET Docs /\ New(l, m) \in SUBSET Docs
    BY <1>3 DEF New, Differing, Message
<1>6. WantItem(New(l, m)).type = "Want"
    BY <1>5, Formed
<1>7. \A k \in Ends : Sent(k)' \subseteq Sent(k)
  <2>1. \A k \in Ends \ {Other(l)} : wire'[k] = wire[k]
      BY <1>2 DEF Only
  <2>2. Range(wire'[Other(l)]) \subseteq Range(wire[Other(l)])
      BY <1>4 DEF Takes
  <2>3. QED
      BY <2>1, <2>2 DEF Sent
<1>8. \A k \in Ends : \A x \in Queued(k)' : x.type = "Serve" => x \in Queued(k)
  <2>1. \A x \in Queued(l)' : x.type = "Serve" => x \in Queued(l)
      BY <1>4, <1>6 DEF Adds, Queued
  <2>2. QED
      BY <1>2, <2>1 DEF Only, Queued
<1>10. \A d \in Devices : HomeThere(d) /\ HomeThere(d)'
    BY <1>2 DEF HomeThere, Accepts, CoverInv
<1>11. ASSUME ~failed'
       PROVE  Honest'
  <2>1. Honest
      BY <1>2, <1>11 DEF CoverInv
  <2>2. \A d \in Devices : Cached(d) /\ Cached(d)'
    <3>1. \A d \in Devices : Cached(d)
        BY <2>1 DEF Honest
    <3>2. mem' = mem /\ late' = late
        BY <1>2
    <3>3. \A d \in Devices : Cached(d)'
        BY <1>1, <1>4, <1>5, <3>1, <3>2, CacheThere
    <3>4. QED
        BY <3>1, <3>3
  <2>3. m \in Sent(Other(l)) /\ m.vers \subseteq mem[l[2]]
    <3>1. m \in Sent(Other(l))
        BY <1>4 DEF Takes, Sent
    <3>2. Said(Other(l))
        BY <1>1, <2>1 DEF Honest
    <3>3. QED
        BY <1>1, <3>1, <3>2 DEF Said
  <2>4. ASSUME NEW k \in Ends
        PROVE  Said(k)'
    <3>1. Said(k)
        BY <2>1 DEF Honest
    <3>2. due'[k] = due[k] \/ due'[k] \subseteq mem'[k[2]]
      <4>1. CASE k = l
        <5>1. Announced(l, m) \subseteq m.vers
            BY AnnouncedPart
        <5>2. QED
            BY <1>2, <1>4, <2>3, <4>1, <5>1
      <4>2. CASE k # l
          BY <1>4, <4>2
      <4>3. QED
          BY <4>1, <4>2
    <3>3. mem' = mem /\ Sent(k)' \subseteq Sent(k)
          /\ \A x \in Queued(k)' : x.type = "Serve" => x \in Queued(k)
        BY <1>2, <1>7, <1>8
    <3>4. QED
        BY <3>1, <3>2, <3>3, SaidKept
  <2>5. ASSUME NEW k \in Ends, k # l
        PROVE  DueMet(k)' /\ SyncedMet(k)'
    <3>1. DueMet(k) /\ SyncedMet(k) /\ Other(k) \in Ends
        BY <2>1, EndsFacts DEF Honest
    <3>2. wanted'[k] = wanted[k] /\ due'[k] = due[k] /\ synced'[k] = synced[k]
        BY <1>4, <2>5
    <3>3. mem' = mem /\ rows' = rows /\ Sent(Other(k))' \subseteq Sent(Other(k))
        BY <1>2, <1>7, <3>1
    <3>4. DueMet(k)'
        BY <3>1, <3>2, <3>3, DueKept
    <3>5. SyncedMet(k)'
        BY <3>1, <3>2, <3>3, SyncedKept
    <3>6. QED
        BY <3>4, <3>5
  <2>6. ASSUME NEW doc \in Docs
        PROVE  /\ Part(due'[l], doc) # {} => Accepts(l[1], doc)
               /\ doc \notin Differing(l, m) /\ (m.type = "Complete" \/ wanted[l][doc] = "no")
                     => Part(due'[l], doc) \subseteq mem[l[1]]
    <3>1. DueMet(l) /\ HomeThere(l[1]) /\ Cached(l[1])
        BY <1>1, <1>10, <2>1 DEF Honest
    <3>2. CASE m.type = "Partial"
      <4>1. due'[l] = due[l]
          BY <1>4, <3>2
      <4>2. QED
          BY <3>1, <3>2, <4>1 DEF DueMet
    <3>3. CASE m.type = "Complete"
      <4>1. due'[l] = Announced(l, m)
          BY <1>4, <3>3
      <4>2. /\ Part(Announced(l, m), doc) \subseteq Part(m.vers, doc)
            /\ Part(Announced(l, m), doc) # {} =>
                  doc \in m.doc /\ (Present(l[1], doc) \/ Accepts(l[1], doc))
          BY AnnouncedPart
      <4>3. Part(due'[l], doc) # {} => Accepts(l[1], doc)
          BY <3>1, <4>1, <4>2 DEF HomeThere, Present
      <4>4. ASSUME doc \notin Differing(l, m), Part(due'[l], doc) # {}
            PROVE  Part(due'[l], doc) \subseteq mem[l[1]]
        <5>1. doc \in m.doc /\ Accepts(l[1], doc)
            BY <4>1, <4>2, <4>3, <4>4
        <5>2. Present(l[1], doc) /\ VersionOf(l[1], doc) = Part(m.vers, doc)
            BY <4>4, <5>1 DEF Differing
        <5>3. VersionOf(l[1], doc) \subseteq Part(mem[l[1]], doc)
            BY <3>1, VersionThere
        <5>4. Part(mem[l[1]], doc) \subseteq mem[l[1]]
            BY PartsAreApart
        <5>5. QED
            BY <4>1, <4>2, <5>2, <5>3, <5>4
      <4>5. QED
          BY <4>3, <4>4
    <3>4. QED
        BY <1>4, <3>2, <3>3
  <2>7. ASSUME NEW doc \in Docs, wanted'[l][doc] = "no"
        PROVE  Part(due'[l], doc) \subseteq mem[l[1]]
    <3>1. wanted[l][doc] = "no" /\ doc \notin Differing(l, m)
        BY <1>4, <2>7
    <3>2. QED
        BY <2>6, <3>1
  <2>8. ASSUME NEW doc \in Docs, wanted'[l][doc] = "asked",
               NEW x \in Sent(Other(l))', x.type = "Update", doc \in x.doc
        PROVE  Part(due'[l], doc) \subseteq x.vers \cup mem[l[1]]
    <3>1. x \in Sent(Other(l))
        BY <1>1, <1>7, <2>8
    <3>2. doc \notin New(l, m)
      <4>1. doc \in New(l, m) => wanted[l][doc] = "no"
          BY DEF New
      <4>2. wanted[l][doc] = "no" => ~Matches(x, "Update", doc)
          BY <1>1, <3>1, NoAnswer
      <4>3. QED
          BY <2>8, <4>1, <4>2 DEF Matches
    <3>3. doc \notin Differing(l, m) /\ wanted[l][doc] = "asked"
        BY <1>4, <2>8, <3>2
    <3>4. CASE m.type = "Complete"
        BY <2>6, <3>3, <3>4
    <3>5. CASE m.type = "Partial"
      <4>1. due'[l] = due[l] /\ DueMet(l)
          BY <1>4, <2>1, <3>5 DEF Honest
      <4>2. QED
          BY <2>8, <3>1, <3>3, <4>1 DEF DueMet
    <3>6. QED
        BY <1>4, <3>4, <3>5
  <2>9. DueMet(l)'
    <3>1. rows' = rows /\ mem' = mem
        BY <1>2
    <3>2. \A doc \in Docs : Accepts(l[1], doc) => Accepts(l[1], doc)'
        BY <3>1 DEF Accepts
    <3>3. QED
        BY <2>6, <2>7, <2>8, <3>1, <3>2 DEF DueMet
  <2>10. SyncedMet(l)'
    <3>1. CASE m.type = "Partial"
      <4>1. SyncedMet(l) /\ synced'[l] = synced[l] /\ due'[l] = due[l]
          BY <1>4, <2>1, <3>1 DEF Honest
      <4>2. QED
          BY <1>2, <4>1, SyncedKept
    <3>2. ASSUME m.type = "Complete", synced'[l]
          PROVE  due'[l] \subseteq mem'[l[1]]
      <4>1. Differing(l, m) = {} /\ NothingWanted(l)
          BY <1>4, <3>2 DEF Settled
      <4>2. \A doc \in Docs : Part(due'[l], doc) \subseteq mem[l[1]]
          BY <2>6, <3>2, <4>1
      <4>3. due'[l] \subseteq Updates
          BY <1>2
      <4>4. due'[l] \subseteq mem[l[1]]
          BY <4>2, <4>3, PartsAreApart
      <4>5. QED
          BY <1>2, <4>4
    <3>3. QED
        BY <1>4, <3>1, <3>2 DEF SyncedMet
  <2>11. QED
      BY <2>2, <2>4, <2>5, <2>9, <2>10 DEF Honest
<1>12. QED
    BY <1>10, <1>11 DEF CoverInv

(* A request that is read says what the peer has. *)
LEMMA CoverReadWant ==
    ASSUME SyncAssumption, CoverInv, ~failed, CalmInv', NEW l \in Ends, ReadWant(l) \/ ReadRequest(l)
    PROVE  CoverInv'
<1>1. /\ TypeOK /\ Other(l) \in Ends /\ Other(l)[1] = l[2]
    BY EndsFacts DEF CoverInv, CalmInv, OneInv, KeepInv
<1>2. /\ Only(wire, wire', Message, {Other(l)}) /\ Only(queue, queue', Outbound, {l})
      /\ UNCHANGED <<rows, mem, digests, late, wanted, synced, due, failed>>
    BY <1>1, ReadWantEffect DEF store
<1>3. PICK m \in Message : ReadsWant(l, m)
    BY <1>1, ReadWantEffect
<1>4. PICK x \in Outbound :
        /\ Takes(Message, wire[Other(l)], wire'[Other(l)], m)
        /\ Adds(Outbound, queue[l], queue'[l], x)
        /\ x.type = "Serve" => x.vers = m.vers
  <2>1. /\ ServeItem(m) \in Outbound /\ ServeItem(m).vers = m.vers
        /\ SummaryItem \in Outbound /\ SummaryItem.type = "Complete"
      BY Formed
  <2>2. QED
      BY <1>3, <2>1 DEF ReadsWant
<1>5. m \in Sent(Other(l)) /\ \A k \in Ends : Sent(k)' \subseteq Sent(k)
  <2>1. \A k \in Ends \ {Other(l)} : wire'[k] = wire[k]
      BY <1>2 DEF Only
  <2>2. m \in Range(wire[Other(l)]) /\ Range(wire'[Other(l)]) \subseteq Range(wire[Other(l)])
      BY <1>4 DEF Takes
  <2>3. QED
      BY <2>1, <2>2 DEF Sent
<1>6. \A k \in Ends : \A y \in Queued(k)' : y \in Queued(k) \/ (y = x /\ k = l)
  <2>1. \A y \in Queued(l)' : y \in Queued(l) \/ y = x
      BY <1>4 DEF Adds, Queued
  <2>2. QED
      BY <1>2, <2>1 DEF Only, Queued
<1>8. \A d \in Devices : HomeThere(d)'
    BY <1>2 DEF HomeThere, Accepts, CoverInv
<1>9. ASSUME ~failed'
      PROVE  Honest'
  <2>1. Honest
      BY <1>2, <1>9 DEF CoverInv
  <2>2. \A d \in Devices : Cached(d)'
      BY <1>2, <2>1 DEF Honest, Cached
  <2>3. m.vers \subseteq mem[l[2]]
    <3>1. Said(Other(l))
        BY <1>1, <2>1 DEF Honest
    <3>2. QED
        BY <1>1, <1>5, <3>1 DEF Said
  <2>4. ASSUME NEW k \in Ends
        PROVE  Said(k)' /\ DueMet(k)' /\ SyncedMet(k)'
    <3>1. /\ Other(k) \in Ends /\ Said(k) /\ DueMet(k) /\ SyncedMet(k)
        BY <2>1, EndsFacts DEF Honest
    <3>2. \A y \in Queued(k)' : y.type = "Serve" => y \in Queued(k) \/ y.vers \subseteq mem'[k[2]]
        BY <1>2, <1>4, <1>6, <2>3
    <3>3. Said(k)'
        BY <1>2, <1>5, <3>1, <3>2, SaidKept
    <3>4. DueMet(k)'
        BY <1>2, <1>5, <3>1, DueKept
    <3>5. SyncedMet(k)'
        BY <1>2, <3>1, SyncedKept
    <3>6. QED
        BY <3>3, <3>4, <3>5
  <2>5. QED
      BY <2>2, <2>4 DEF Honest
<1>10. QED
    BY <1>8, <1>9 DEF CoverInv

(* An answer that is read is all the summary announced, and more than was     *)
(* here when it was asked for.                                                *)
LEMMA CoverAnswer ==
    ASSUME SyncAssumption, CoverInv, ~failed, CalmInv', NEW l \in Ends, NEW doc \in Docs,
           NEW q \in [Ends -> Seq(Outbound)],
           \A k \in Ends : \A x \in Range(q[k]) : x.type = "Serve" => x \in Queued(k),
           wire[Other(l)] # << >>, Incoming(l).type = "Update", Incoming(l).doc = {doc},
           Answered(l, doc, q),
           \A e \in Devices : mem[e] \subseteq mem'[e] /\ rows[e] \subseteq rows'[e] /\ HomeThere(e)',
           failed' = failed, due' = due,
           (\A e \in Devices : Cached(e)) => (\A e \in Devices : Cached(e)'),
           Incoming(l).vers \subseteq mem'[l[1]] \/ ~Accepts(l[1], doc)
    PROVE  CoverInv'
<1>1. /\ TypeOK /\ TypeOK' /\ OneInv /\ l[1] \in Devices /\ Other(l) \in Ends
    BY EndsFacts DEF CoverInv, CalmInv, OneInv, KeepInv
<1>2. Answers(l, doc, q) /\ Only(wire, wire', Message, {Other(l)}) /\ Only(q, queue', Outbound, {l})
    BY <1>1, AnsweredEffect
<1>3. /\ Takes(Message, wire[Other(l)], wire'[Other(l)], Incoming(l))
      /\ wanted'[l][doc] = IF wanted[l][doc] = "stale" THEN "asked" ELSE "no"
      /\ \A x \in Docs : x # doc => wanted'[l][x] = wanted[l][x]
      /\ \A k \in Ends \ {l} : wanted'[k] = wanted[k] /\ synced'[k] = synced[k]
      /\ synced'[l] <=> synced[l] \/ \A x \in Docs : wanted'[l][x] = "no"
      /\ \/ queue'[l] = q[l]
         \/ Adds(Outbound, q[l], queue'[l], WantItem({doc}))
    BY <1>2 DEF Answers
<1>4. WantItem({doc}).type = "Want"
    BY Formed
<1>5. Incoming(l) \in Sent(Other(l)) /\ \A k \in Ends : Sent(k)' \subseteq Sent(k)
  <2>1. \A k \in Ends \ {Other(l)} : wire'[k] = wire[k]
      BY <1>2 DEF Only
  <2>2. Incoming(l) \in Range(wire[Other(l)]) /\ Range(wire'[Other(l)]) \subseteq Range(wire[Other(l)])
      BY <1>3 DEF Takes
  <2>3. QED
      BY <2>1, <2>2 DEF Sent
<1>6. \A k \in Ends : \A x \in Queued(k)' : x.type = "Serve" => x \in Queued(k)
  <2>1. \A x \in Range(queue'[l]) : x.type = "Serve" => x \in Range(q[l])
    <3>1. CASE queue'[l] = q[l]
        BY <3>1
    <3>2. CASE Adds(Outbound, q[l], queue'[l], WantItem({doc}))
      <4>1. Range(queue'[l]) = Range(q[l]) \cup {WantItem({doc})}
          BY <3>2 DEF Adds
      <4>2. QED
          BY <1>4, <4>1
    <3>3. QED
        BY <1>3, <3>1, <3>2
  <2>2. \A k \in Ends : k # l => queue'[k] = q[k]
      BY <1>2 DEF Only
  <2>3. \A k \in Ends : \A x \in Range(queue'[k]) : x.type = "Serve" => x \in Range(q[k])
      BY <2>1, <2>2
  <2>4. QED
      BY <2>3 DEF Queued
<1>8. ASSUME ~failed'
      PROVE  Honest'
  <2>1. Honest
      BY <1>8 DEF CoverInv
  <2>2. \A e \in Devices : Cached(e)'
      BY <2>1 DEF Honest
  <2>3. ASSUME NEW k \in Ends
        PROVE  Said(k)' /\ (k # l => DueMet(k)' /\ SyncedMet(k)')
    <3>1. /\ k[1] \in Devices /\ k[2] \in Devices /\ Other(k) \in Ends
          /\ Said(k) /\ DueMet(k) /\ SyncedMet(k)
        BY <2>1, EndsFacts DEF Honest
    <3>2. mem[k[1]] \subseteq mem'[k[1]] /\ mem[k[2]] \subseteq mem'[k[2]]
          /\ rows[k[1]] \subseteq rows'[k[1]] /\ due'[k] = due[k]
        BY <3>1
    <3>3. Said(k)'
        BY <1>5, <1>6, <3>1, <3>2, SaidKept
    <3>4. ASSUME k # l
          PROVE  DueMet(k)' /\ SyncedMet(k)'
      <4>1. wanted'[k] = wanted[k] /\ synced'[k] = synced[k]
          BY <1>3, <3>4
      <4>2. DueMet(k)'
          BY <1>5, <3>1, <3>2, <4>1, DueKept
      <4>3. SyncedMet(k)'
          BY <3>1, <3>2, <4>1, SyncedKept
      <4>4. QED
          BY <4>2, <4>3
    <3>5. QED
        BY <3>3, <3>4
  <2>4. DueMet(l) /\ SyncedMet(l) /\ mem[l[1]] \subseteq mem'[l[1]] /\ rows[l[1]] \subseteq rows'[l[1]]
      BY <1>1, <2>1 DEF Honest
  <2>5. ASSUME NEW x \in Docs
        PROVE  Part(due[l], x) # {} => Accepts(l[1], x)'
      BY <2>4, GoesOnAccepting DEF DueMet
  <2>6. ASSUME NEW x \in Docs, wanted'[l][x] = "no"
        PROVE  Part(due[l], x) \subseteq mem'[l[1]]
    <3>1. CASE x # doc
      <4>1. wanted[l][x] = "no"
          BY <1>3, <2>6, <3>1
      <4>2. Part(due[l], x) \subseteq mem[l[1]]
          BY <2>4, <4>1 DEF DueMet
      <4>3. QED
          BY <2>4, <4>2
    <3>2. CASE x = doc
      <4>1. wanted[l][doc] = "asked"
        <5>1. wanted[l][doc] # "stale"
            BY <1>3, <2>6, <3>2
        <5>2. Matches(Incoming(l), "Update", doc)
            BY DEF Matches
        <5>3. wanted[l][doc] # "no"
            BY <1>1, <1>5, <5>2, NoAnswer
        <5>4. wanted[l][doc] \in {"no", "asked", "stale"}
            BY <1>1 DEF TypeOK
        <5>5. QED
            BY <5>1, <5>3, <5>4
      <4>2. Part(due[l], doc) \subseteq Incoming(l).vers \cup mem[l[1]]
          BY <1>5, <2>4, <4>1 DEF DueMet
      <4>3. ~Accepts(l[1], doc) => Part(due[l], doc) = {}
          BY <2>4 DEF DueMet
      <4>4. QED
          BY <2>4, <3>2, <4>2, <4>3
    <3>3. QED
        BY <3>1, <3>2
  <2>7. ASSUME NEW x \in Docs, wanted'[l][x] = "asked",
               NEW m \in Sent(Other(l))', m.type = "Update", x \in m.doc
        PROVE  Part(due[l], x) \subseteq m.vers \cup mem'[l[1]]
    <3>1. x # doc
      <4>1. Matches(Incoming(l), "Update", doc)
          BY DEF Matches
      <4>2. \A y \in Sent(Other(l))' : ~Matches(y, "Update", doc)
          BY <1>1, <1>3, <4>1, LastAnswer
      <4>3. QED
          BY <2>7, <4>2 DEF Matches
    <3>2. wanted[l][x] = "asked" /\ m \in Sent(Other(l))
        BY <1>1, <1>3, <1>5, <2>7, <3>1
    <3>3. Part(due[l], x) \subseteq m.vers \cup mem[l[1]]
        BY <2>4, <2>7, <3>2 DEF DueMet
    <3>4. QED
        BY <2>4, <3>3
  <2>8. DueMet(l)'
      BY <2>5, <2>6, <2>7 DEF DueMet
  <2>9. SyncedMet(l)'
    <3>1. ASSUME \A x \in Docs : wanted'[l][x] = "no"
          PROVE  due[l] \subseteq mem'[l[1]]
      <4>1. \A x \in Docs : Part(due[l], x) \subseteq mem'[l[1]]
          BY <2>6, <3>1
      <4>2. due[l] \subseteq Updates
          BY <1>1 DEF TypeOK
      <4>3. ASSUME NEW u \in due[l]
            PROVE  u \in mem'[l[1]]
        <5>1. DocOf[u] \in Docs /\ u \in Part(due[l], DocOf[u])
            BY <4>2 DEF SyncAssumption, Part, Of
        <5>2. QED
            BY <4>1, <5>1
      <4>4. QED
          BY <4>3
    <3>2. synced[l] => due[l] \subseteq mem'[l[1]]
        BY <2>4 DEF SyncedMet
    <3>3. QED
        BY <1>3, <3>1, <3>2 DEF SyncedMet
  <2>10. QED
      BY <2>2, <2>3, <2>8, <2>9 DEF Honest
<1>9. QED
    BY <1>8 DEF CoverInv

(* The reader's own answers: an empty one, and one to a note. *)
LEMMA CoverReadEmpty ==
    ASSUME SyncAssumption, CoverInv, ~failed, CalmInv', NEW l \in Ends, ReadEmpty(l)
    PROVE  CoverInv'
<1>1. /\ TypeOK /\ Other(l) \in Ends /\ Shapes(Other(l)) /\ l[1] \in Devices
      /\ \A d \in Devices : HomeThere(d)
    BY EndsFacts DEF CoverInv, CalmInv, OneInv, KeepInv
<1>2. /\ wire[Other(l)] # << >> /\ Incoming(l).type = "Update" /\ Incoming(l).vers = {}
      /\ \E doc \in Incoming(l).doc : Answered(l, doc, queue)
      /\ UNCHANGED <<rows, mem, digests, late, due, failed>>
    BY DEF ReadEmpty, Reads, Incoming, store
<1>3. Incoming(l) \in Message /\ Incoming(l) \in Sent(Other(l))
    BY <1>1, <1>2, TailRange DEF Incoming, TypeOK, Sent
<1>4. PICK doc \in Docs : Incoming(l).doc = {doc} /\ Answered(l, doc, queue)
    BY <1>1, <1>2, <1>3 DEF Shapes, OneDoc
<1>5. queue \in [Ends -> Seq(Outbound)]
    BY <1>1 DEF TypeOK
<1>6. \A k \in Ends : \A x \in Range(queue[k]) : x.type = "Serve" => x \in Queued(k)
    BY DEF Queued
<1>7. \A d \in Devices : HomeThere(d)'
    BY <1>1, <1>2 DEF HomeThere, Accepts
<1>8. (\A e \in Devices : Cached(e)) => (\A e \in Devices : Cached(e)')
    BY <1>2 DEF Cached
<1>9. Incoming(l).vers \subseteq mem'[l[1]]
    BY <1>2
<1>10. \A e \in Devices : mem[e] \subseteq mem'[e] /\ rows[e] \subseteq rows'[e]
    BY <1>2
<1>11. QED
    BY <1>2, <1>4, <1>5, <1>6, <1>7, <1>8, <1>9, <1>10, CoverAnswer

(* An update of a note is merged or refused. *)
LEMMA CoverReadNote ==
    ASSUME SyncAssumption, CoverInv, ~failed, CalmInv', NEW l \in Ends, ReadNote(l),
           \A e \in Devices : rows[e] \subseteq rows'[e]
    PROVE  CoverInv'
<1> DEFINE d == l[1]
           m == Incoming(l)
<1>1. /\ KeepInv /\ TypeOK /\ Other(l) \in Ends /\ Shapes(Other(l)) /\ d \in Devices
      /\ Carried(Other(l)) /\ \A e \in Devices : HomeThere(e)
    BY EndsFacts, CarriedThen DEF CoverInv, CalmInv, OneInv, KeepInv
<1>2. PICK doc \in m.doc \cap Notes :
        /\ Answered(l, doc, queue)
        /\ \/ /\ Accepts(d, doc)
              /\ mem' = [mem EXCEPT ![d] = @ \cup m.vers]
              /\ UNCHANGED failed
           \/ ~Accepts(d, doc) /\ UNCHANGED <<mem, failed>>
           \/ failed' = TRUE /\ UNCHANGED mem
    BY DEF ReadNote
<1>3. /\ wire[Other(l)] # << >> /\ l \in up /\ m.type = "Update"
      /\ UNCHANGED <<digests, late, due>>
    BY DEF ReadNote, Reads, Incoming
<1>4. m \in Message /\ m \in Sent(Other(l))
    BY <1>1, <1>3, TailRange DEF Incoming, TypeOK, Sent
<1>5. doc \in Docs /\ m.doc = {doc}
    BY <1>1, <1>2, <1>3, <1>4 DEF Message, Shapes, OneDoc
<1>6. queue \in [Ends -> Seq(Outbound)] /\ \A k \in Ends \ up : queue[k] = << >>
    BY <1>1 DEF TypeOK
<1>7. \A k \in Ends : \A x \in Range(queue[k]) : x.type = "Serve" => x \in Queued(k)
    BY DEF Queued
<1>8. CASE failed' = TRUE /\ UNCHANGED mem
    BY <1>8 DEF CoverInv
<1>9. ASSUME ~Accepts(d, doc), UNCHANGED <<mem, failed>>
      PROVE  CoverInv'
  <2>1. \A e \in Devices : HomeThere(e)'
    <3> SUFFICES ASSUME NEW e \in Devices
                 PROVE  HomeThere(e)'
        OBVIOUS
    <3>1. HomeThere(e)
        BY <1>1
    <3>2. \A x \in Docs : Part(mem'[e], x) # {} => Part(mem[e], x) # {}
        BY <1>9
    <3>3. QED
        BY <3>1, <3>2, HomeKept
  <2>2. (\A e \in Devices : Cached(e)) => (\A e \in Devices : Cached(e)')
      BY <1>3, <1>9 DEF Cached
  <2>3. \A e \in Devices : mem[e] \subseteq mem'[e]
      BY <1>9
  <2>4. QED
      BY <1>2, <1>3, <1>5, <1>6, <1>7, <1>9, <2>1, <2>2, <2>3, CoverAnswer
<1>10. ASSUME Accepts(d, doc), mem' = [mem EXCEPT ![d] = @ \cup m.vers], UNCHANGED failed
       PROVE  CoverInv'
  <2>1. m.vers \subseteq Of(doc)
      BY <1>1, <1>3, <1>4, <1>5 DEF Carried
  <2>2. /\ \A e \in Devices : mem[e] \subseteq mem'[e]
        /\ \A e \in Devices : e # d => mem'[e] = mem[e]
        /\ mem'[d] = mem[d] \cup m.vers
    <3> HIDE DEF d, m
    <3>1. QED
        BY <1>1, <1>10 DEF TypeOK
  <2>3. \A e \in Devices : HomeThere(e)'
    <3> SUFFICES ASSUME NEW e \in Devices
                 PROVE  HomeThere(e)'
        OBVIOUS
    <3>1. HomeThere(e)
        BY <1>1
    <3>2. ASSUME NEW x \in Docs, Part(mem'[e], x) # {}, Part(mem[e], x) = {}
          PROVE  Accepts(e, x)
      <4> HIDE DEF d, m
      <4>1. e = d
          BY <2>2, <3>2
      <4>2. PICK u \in m.vers : u \in Of(x)
          BY <2>2, <3>2, <4>1 DEF Part
      <4>3. x = doc
          BY <2>1, <4>2 DEF Of
      <4>4. QED
          BY <1>10, <4>1, <4>3
    <3>3. QED
        BY <3>1, <3>2, HomeKept
  <2>4. (\A e \in Devices : Cached(e)) => (\A e \in Devices : Cached(e)')
      BY <1>3, <2>2, CachedKept
  <2>5. m.vers \subseteq mem'[d]
      BY <2>2
  <2>6. QED
      BY <1>2, <1>3, <1>5, <1>6, <1>7, <1>10, <2>2, <2>3, <2>4, <2>5, CoverAnswer
<1>11. QED
    BY <1>2, <1>8, <1>9, <1>10

(* What the commit of an import does. *)
Merges(d, doc) ==
    /\ disk' = [disk EXCEPT ![d] = mem[d]]
    /\ rows' = IF tx[d].remote
               THEN [rows EXCEPT ![d] = (@ \ Of(doc)) \cup Part(mem[d], doc)] ELSE rows
    /\ changes' = [changes EXCEPT ![d] = IF tx[d].local \/ tx[d].remote THEN @ \ {doc} ELSE @]
    /\ digests' = IF tx[d].save THEN [digests EXCEPT ![d][doc] = {}] ELSE digests
    /\ silent' = IF tx[d].local \/ (tx[d].remote /\ tx[d].from = {})
                 THEN silent \cup {<<d, doc>>} ELSE silent
    /\ \E q : /\ q = IF tx[d].remote /\ Part(rows[d], doc) = {} THEN Refreshed(d) ELSE queue
             /\ \/ /\ tx[d].from = {} /\ queue' = q
                   /\ UNCHANGED <<wire, wanted, synced, dirty>>
                \/ \E e \in tx[d].from :
                     /\ Answered(<<d, e>>, doc, q)
                     /\ dirty' = FanOut(d, IF tx[d].remote THEN {doc} ELSE {}, {e})

(* The commit of an import, without its record updates. *)
LEMMA CommitImportEffect ==
    ASSUME CalmInv, ~failed, NEW d \in Devices, CommitImport(d)
    PROVE  \E doc \in Facts : tx[d].doc = {doc} /\ Merges(d, doc)
<1>1. /\ KeepInv /\ TypeOK /\ AllKept /\ Faithful(d) /\ Stored(d)
      /\ mem[d] = disk[d] \cup (IF tx[d].save THEN tx[d].held ELSE {})
    BY CalmThen DEF KeepInv
<1>2. Save(d) /\ tx' = [tx EXCEPT ![d] = NoTx] /\ UNCHANGED fallen /\ tx[d].kind = "import"
    BY DEF CommitImport
<1>3. PICK doc \in Facts : /\ tx[d].doc = {doc}
                           /\ rows' = IF tx[d].remote
                                      THEN [rows EXCEPT ![d] = (@ \ Of(doc)) \cup tx[d].held]
                                      ELSE rows
    BY <1>1, ImportedRows
<1>4. PICK x \in tx[d].doc :
        /\ changes' = [changes EXCEPT ![d] = IF tx[d].local \/ tx[d].remote THEN @ \ {x} ELSE @]
        /\ silent' = IF tx[d].local \/ (tx[d].remote /\ tx[d].from = {})
                     THEN silent \cup {<<d, x>>} ELSE silent
        /\ \E q : /\ q = IF tx[d].remote /\ Part(rows[d], x) = {} THEN Refreshed(d) ELSE queue
                  /\ \/ /\ tx[d].from = {} /\ queue' = q
                        /\ UNCHANGED <<wire, wanted, synced, dirty>>
                     \/ \E e \in tx[d].from :
                          /\ Answered(<<d, e>>, x, q)
                          /\ dirty' = FanOut(d, IF tx[d].remote THEN {x} ELSE {}, {e})
    BY DEF CommitImport
<1>5. x = doc
    BY <1>3, <1>4
<1>6. tx[d].remote => tx[d].held = Part(mem[d], doc)
  <2>1. /\ Part(disk[d], doc) \subseteq tx[d].held /\ tx[d].held \subseteq Of(doc)
        /\ tx[d].remote => tx[d].save
      BY <1>1, <1>3 DEF Faithful
  <2>2. QED
      BY <1>1, <2>1 DEF Part
<1>7. rows' = IF tx[d].remote
              THEN [rows EXCEPT ![d] = (@ \ Of(doc)) \cup Part(mem[d], doc)] ELSE rows
    BY <1>3, <1>6
<1>8. disk' = [disk EXCEPT ![d] = mem[d]]
      /\ digests' = IF tx[d].save
                    THEN [digests EXCEPT ![d] =
                            [y \in Docs |-> IF y \in tx[d].doc THEN {} ELSE @[y]]]
                    ELSE digests
    BY <1>2, CalmSave
<1>9. digests' = IF tx[d].save THEN [digests EXCEPT ![d][doc] = {}] ELSE digests
  <2>1. [digests[d] EXCEPT ![doc] = {}]
           = [y \in Docs |-> IF y \in tx[d].doc THEN {} ELSE digests[d][y]]
    <3>1. digests[d] \in [Docs -> SUBSET Updates]
        BY <1>1 DEF TypeOK
    <3>2. QED
        BY <1>3, <3>1
  <2>2. digests \in [Devices -> [Docs -> SUBSET Updates]]
      BY <1>1 DEF TypeOK
  <2>3. QED
      BY <1>8, <2>1, <2>2
<1>10. QED
    BY <1>3, <1>4, <1>5, <1>7, <1>8, <1>9 DEF Merges

(* The answer an import was of is in the document. *)
LEMMA CoverCommitImport ==
    ASSUME SyncAssumption, CoverInv, ~failed, CalmInv', NEW d \in Devices, CommitImport(d),
           \A e \in Devices : rows[e] \subseteq rows'[e]
    PROVE  CoverInv'
<1>1. KeepInv /\ TypeOK /\ Stored(d) /\ Importing(d) /\ \A e \in Devices : HomeThere(e)
    BY DEF CoverInv, CalmInv, OneInv, KeepInv
<1>2. tx[d].kind = "import" /\ UNCHANGED <<mem, late, up, due, failed>>
    BY CalmSave DEF CommitImport, CoverInv
<1>3. PICK doc \in Facts : tx[d].doc = {doc} /\ Merges(d, doc)
    BY CommitImportEffect DEF CoverInv
<1>4. digests' = digests \/ digests' = [digests EXCEPT ![d][doc] = {}]
    BY <1>3 DEF Merges
<1>5. PICK q : /\ q = queue \/ q = Refreshed(d)
               /\ \/ tx[d].from = {} /\ queue' = q /\ UNCHANGED <<wire, wanted, synced>>
                  \/ \E e \in tx[d].from : Answered(<<d, e>>, doc, q)
    BY <1>3 DEF Merges
<1>6. /\ q \in [Ends -> Seq(Outbound)]
      /\ \A k \in Ends : \A x \in Range(q[k]) : x.type = "Serve" => x \in Queued(k)
    BY <1>1, <1>5, RefreshedLinks
<1>7. \A e \in Devices : HomeThere(e)'
  <2> SUFFICES ASSUME NEW e \in Devices
               PROVE  HomeThere(e)'
      OBVIOUS
  <2>1. HomeThere(e)
      BY <1>1
  <2>2. \A x \in Docs : Part(mem'[e], x) # {} => Part(mem[e], x) # {}
      BY <1>2
  <2>3. QED
      BY <2>1, <2>2, HomeKept
<1>8. ASSUME \A e \in Devices : Cached(e)
      PROVE  \A e \in Devices : Cached(e)'
  <2>1. \A e \in Devices, x \in Docs : digests'[e][x] \subseteq digests[e][x]
    <3>1. digests \in [Devices -> [Docs -> SUBSET Updates]] /\ doc \in Docs
        BY <1>1 DEF TypeOK, Facts
    <3>2. CASE digests' = [digests EXCEPT ![d][doc] = {}]
      <4> TAKE e \in Devices, x \in Docs
      <4>1. digests'[e][x] = IF e = d /\ x = doc THEN {} ELSE digests[e][x]
          BY <3>1, <3>2
      <4>2. QED
          BY <4>1
    <3>3. QED
        BY <1>4, <3>2
  <2>2. QED
      BY <1>2, <1>8, <2>1 DEF Cached
<1>9. CASE tx[d].from = {} /\ queue' = q /\ UNCHANGED <<wire, wanted, synced>>
  <2>1. \A k \in Ends : Sent(k)' = Sent(k)
      BY <1>9 DEF Sent
  <2>2. \A k \in Ends : \A x \in Queued(k)' : x.type = "Serve" => x \in Queued(k)
      BY <1>6, <1>9 DEF Queued
  <2>4. ASSUME ~failed'
        PROVE  Honest'
    <3>1. Honest
        BY <1>2, <2>4 DEF CoverInv
    <3>2. \A e \in Devices : Cached(e)'
        BY <1>8, <3>1 DEF Honest
    <3>3. ASSUME NEW k \in Ends
          PROVE  Said(k)' /\ DueMet(k)' /\ SyncedMet(k)'
      <4>1. /\ k[1] \in Devices /\ Other(k) \in Ends
            /\ Said(k) /\ DueMet(k) /\ SyncedMet(k)
          BY <3>1, EndsFacts DEF Honest
      <4>2. Said(k)'
          BY <1>2, <2>1, <2>2, <4>1, SaidKept
      <4>3. DueMet(k)'
          BY <1>2, <1>9, <2>1, <4>1, DueKept
      <4>4. SyncedMet(k)'
          BY <1>2, <1>9, <4>1, SyncedKept
      <4>5. QED
          BY <4>2, <4>3, <4>4
    <3>4. QED
        BY <3>2, <3>3 DEF Honest
  <2>5. QED
      BY <1>7, <2>4 DEF CoverInv
<1>10. ASSUME NEW e \in tx[d].from, tx[d] \in Begun(d), Answered(<<d, e>>, doc, q)
       PROVE  CoverInv'
  <2>1. <<d, e>> \in Ends /\ Other(<<d, e>>) = <<e, d>>
      BY <1>1, <1>10, ImportEnd
  <2>2. wire[Other(<<d, e>>)] # << >> /\ Reading(d, tx[d]) /\ tx[d].held \subseteq mem[d]
      BY <1>1, <1>10, <2>1, CalmThen DEF Importing, Reading, Begun, CoverInv
  <2>3. /\ Incoming(<<d, e>>).type = "Update" /\ Incoming(<<d, e>>).doc = {doc}
        /\ Incoming(<<d, e>>).vers \subseteq mem'[d]
      BY <1>2, <1>3, <1>10, <2>1, <2>2 DEF Reading, Incoming
  <2>4. doc \in Docs /\ <<d, e>>[1] = d
      BY <1>3 DEF Facts
  <2>5. \A f \in Devices : mem[f] \subseteq mem'[f]
      BY <1>2
  <2>6. Incoming(<<d, e>>).vers \subseteq mem'[<<d, e>>[1]]
      BY <2>3, <2>4
  <2>7. failed' = failed /\ due' = due
      BY <1>2
  <2>8. QED
      BY <1>6, <1>7, <1>8, <1>10, <2>1, <2>2, <2>3, <2>4, <2>5, <2>6, <2>7, CoverAnswer
<1>11. tx[d] \in Begun(d)
    BY DEF Begun
<1>12. QED
    BY <1>5, <1>9, <1>10, <1>11

(* A new link has only its summaries. *)
LEMMA CoverConnect ==
    ASSUME CoverInv, ~failed, CalmInv', NEW p \in Pairs, Connect(p)
    PROVE  CoverInv'
<1>1. /\ queue' = [l \in Ends |-> IF l \in EndsOfPair(p) THEN <<SummaryItem>> ELSE queue[l]]
      /\ UNCHANGED <<rows, mem, digests, late, wanted, wire, synced, due, failed>>
    BY DEF Connect, store
<1>2. SummaryItem.type = "Complete" /\ \A x \in Range(<<SummaryItem>>) : x = SummaryItem
    BY Formed DEF Range
<1>3. \A k \in Ends : \A x \in Queued(k)' : x.type = "Serve" => x \in Queued(k)
  <2> TAKE k \in Ends
  <2>1. queue'[k] = IF k \in EndsOfPair(p) THEN <<SummaryItem>> ELSE queue[k]
      BY <1>1
  <2>2. QED
      BY <1>2, <2>1 DEF Queued
<1>4. \A k \in Ends : Sent(k)' = Sent(k)
    BY <1>1 DEF Sent
<1>6. \A d \in Devices : HomeThere(d)'
    BY <1>1 DEF HomeThere, Accepts, CoverInv
<1>7. ASSUME ~failed'
      PROVE  Honest'
  <2>1. Honest
      BY <1>1, <1>7 DEF CoverInv
  <2>2. \A d \in Devices : Cached(d)'
      BY <1>1, <2>1 DEF Honest, Cached
  <2>3. ASSUME NEW k \in Ends
        PROVE  Said(k)' /\ DueMet(k)' /\ SyncedMet(k)'
    <3>1. Other(k) \in Ends /\ Said(k) /\ DueMet(k) /\ SyncedMet(k)
        BY <2>1, EndsFacts DEF Honest
    <3>2. Said(k)'
        BY <1>1, <1>3, <1>4, <3>1, SaidKept
    <3>3. DueMet(k)'
        BY <1>1, <1>4, <3>1, DueKept
    <3>4. SyncedMet(k)'
        BY <1>1, <3>1, SyncedKept
    <3>5. QED
        BY <3>2, <3>3, <3>4
  <2>4. QED
      BY <2>2, <2>3 DEF Honest
<1>8. QED
    BY <1>6, <1>7 DEF CoverInv

(* Some links close, and some devices die with all of theirs. *)
Closing(ends, gone) ==
    /\ ends \subseteq Ends /\ \A l \in ends : Other(l) \in ends
    /\ Close(ends)
    /\ \A l \in Ends : l[1] \in gone => l \in ends
    /\ \A e \in Devices :
         IF e \in gone
         THEN mem'[e] = disk[e] /\ \A doc \in Docs : digests'[e][doc] = {} /\ late'[e][doc] = {}
         ELSE mem'[e] = mem[e] /\ digests'[e] = digests[e] /\ late'[e] = late[e]
    /\ UNCHANGED <<rows, disk, failed>>

(* Links that close have nothing due; a device that dies closes all of its.   *)
LEMMA CoverClosing ==
    ASSUME SyncAssumption, CoverInv, ~failed, CalmInv', NEW ends, NEW gone, Closing(ends, gone)
    PROVE  CoverInv'
<1> ends \subseteq Ends /\ \A l \in ends : Other(l) \in ends
    BY DEF Closing
<1>1. /\ queue' = [l \in Ends |-> IF l \in ends THEN << >> ELSE queue[l]]
      /\ wanted' = [l \in Ends |-> IF l \in ends THEN [doc \in Docs |-> "no"] ELSE wanted[l]]
      /\ wire' = [l \in Ends |-> IF l \in ends THEN << >> ELSE wire[l]]
      /\ synced' = [l \in Ends |-> IF l \in ends THEN FALSE ELSE synced[l]]
      /\ due' = [l \in Ends |-> IF l \in ends THEN {} ELSE due[l]]
    BY DEF Close, Closing
<1>2. \A e \in Devices : mem'[e] \subseteq mem[e] /\ (e \notin gone => mem'[e] = mem[e])
  <2>1. \A e \in Devices : disk[e] \subseteq mem[e]
      BY DEF CoverInv, CalmInv, OneInv, KeepInv, Stored
  <2>2. QED
      BY <2>1 DEF Closing
<1>3. ASSUME NEW k \in Ends
      PROVE  /\ k \in ends => Sent(k)' = {} /\ Queued(k)' = {}
             /\ k \notin ends => Sent(k)' = Sent(k) /\ Queued(k)' = Queued(k)
  <2>1. wire'[k] = (IF k \in ends THEN << >> ELSE wire[k])
        /\ queue'[k] = (IF k \in ends THEN << >> ELSE queue[k])
      BY <1>1
  <2>2. QED
      BY <2>1, EmptyRange DEF Sent, Queued
<1>5. ASSUME NEW e \in Devices
      PROVE  HomeThere(e)'
  <2>1. HomeThere(e) /\ rows[e] \subseteq rows'[e]
      BY DEF CoverInv, Closing
  <2>2. \A doc \in Docs : Part(mem'[e], doc) # {} => Part(mem[e], doc) # {}
      BY <1>2 DEF Part
  <2>3. QED
      BY <2>1, <2>2, HomeKept
<1>6. ASSUME ~failed'
      PROVE  Honest'
  <2>1. Honest
      BY <1>6 DEF CoverInv, Closing
  <2>2. ASSUME NEW e \in Devices
        PROVE  Cached(e)'
    <3>1. Cached(e)
        BY <2>1 DEF Honest
    <3>2. CASE e \in gone
        BY <3>2 DEF Cached, Closing
    <3>3. CASE e \notin gone
        BY <1>2, <3>1, <3>3 DEF Cached, Closing
    <3>4. QED
        BY <3>2, <3>3
  <2>3. ASSUME NEW k \in Ends, k \in ends
        PROVE  Said(k)' /\ DueMet(k)' /\ SyncedMet(k)'
    <3>1. Other(k) \in Ends /\ Other(k) \in ends
        BY <2>3, EndsFacts
    <3>2. Sent(k)' = {} /\ Queued(k)' = {} /\ Sent(Other(k))' = {}
        BY <1>3, <2>3, <3>1
    <3>3. due'[k] = {} /\ synced'[k] = FALSE
        BY <1>1, <2>3
    <3>4. \A doc : Part({}, doc) = {}
        BY DEF Part
    <3>5. Said(k)'
        BY <3>2, <3>3 DEF Said
    <3>6. DueMet(k)'
        BY <3>2, <3>3, <3>4 DEF DueMet
    <3>7. SyncedMet(k)'
        BY <3>3 DEF SyncedMet
    <3>8. QED
        BY <3>5, <3>6, <3>7
  <2>4. ASSUME NEW k \in Ends, k \notin ends
        PROVE  Said(k)' /\ DueMet(k)' /\ SyncedMet(k)'
    <3>1. /\ Other(k) \in Ends /\ Other(k) \notin ends /\ k[1] \in Devices /\ k[2] \in Devices
          /\ Other(k)[1] = k[2] /\ Said(k) /\ DueMet(k) /\ SyncedMet(k)
        BY <2>1, <2>4, EndsFacts DEF Honest
    <3>2. Sent(k)' = Sent(k) /\ Queued(k)' = Queued(k) /\ Sent(Other(k))' = Sent(Other(k))
        BY <1>3, <2>4, <3>1
    <3>3. due'[k] = due[k] /\ synced'[k] = synced[k] /\ wanted'[k] = wanted[k]
        BY <1>1, <2>4
    <3>4. mem'[k[1]] = mem[k[1]] /\ mem'[k[2]] = mem[k[2]]
        BY <1>2, <2>4, <3>1 DEF Closing
    <3>5. Said(k)'
        BY <3>1, <3>2, <3>3, <3>4, SaidKept
    <3>6. DueMet(k)'
        BY <3>1, <3>2, <3>3, <3>4, DueKept DEF Closing
    <3>7. SyncedMet(k)'
        BY <3>1, <3>3, <3>4, SyncedKept
    <3>8. QED
        BY <3>5, <3>6, <3>7
  <2>5. QED
      BY <2>2, <2>3, <2>4 DEF Honest
<1>7. QED
    BY <1>5, <1>6 DEF CoverInv, Closing

(* A step after which nothing of this is different. *)
LEMMA CoverStutter ==
    ASSUME CoverInv, ~failed, CalmInv', UNCHANGED vars
    PROVE  CoverInv'
<1>1. UNCHANGED <<rows, mem, digests, late, queue, wire, wanted, synced, due, failed>>
    BY DEF vars, store, links
<1>2. \A d \in Devices : rows[d] \subseteq rows'[d] /\ mem[d] \subseteq mem'[d] /\ HomeThere(d)'
    BY <1>1 DEF HomeThere, Accepts, CoverInv
<1>3. (\A d \in Devices : Cached(d)) => (\A d \in Devices : Cached(d)')
    BY <1>1 DEF Cached
<1>4. QED
    BY <1>1, <1>2, <1>3, CoverStore

(* A link that breaks closes both its ends; a device that dies, all of its    *)
(* links, and it loses what it had not saved.                                 *)
LEMMA BreakCloses ==
    ASSUME NEW p \in Pairs, Break(p)
    PROVE  Closing(EndsOfPair(p), {})
<1>1. Close(EndsOfPair(p)) /\ UNCHANGED <<rows, disk, mem, digests, late, failed>>
    BY DEF Break
<1>2. EndsOfPair(p) \subseteq Ends /\ \A l \in EndsOfPair(p) : Other(l) \in EndsOfPair(p)
  <2>1. \A l \in Ends : {l[1], l[2]} = {Other(l)[1], Other(l)[2]}
      BY EndsFacts
  <2>2. QED
      BY <2>1, EndsFacts DEF EndsOfPair
<1>3. QED
    BY <1>1, <1>2 DEF Closing

EndsAt(d) == {l \in Ends : d \in {l[1], l[2]}}

(* A restart closes the links of its device and forgets what is not saved. *)
LEMMA RestartCloses ==
    ASSUME TypeOK, NEW d \in Devices, Restart(d)
    PROVE  Closing(EndsAt(d), {d})
<1>1. /\ Close(EndsAt(d)) /\ DropCache(d) /\ late' = [late EXCEPT ![d] = [doc \in Docs |-> {}]]
      /\ UNCHANGED <<rows, disk, failed>>
    BY DEF Restart, EndsAt
<1>2. /\ EndsAt(d) \subseteq Ends /\ \A l \in EndsAt(d) : Other(l) \in EndsAt(d)
      /\ \A l \in Ends : l[1] \in {d} => l \in EndsAt(d)
    BY EndsFacts DEF EndsAt
<1>3. /\ mem' = [mem EXCEPT ![d] = disk[d]]
      /\ digests' = [digests EXCEPT ![d] = [doc \in Docs |-> {}]]
      /\ late' = [late EXCEPT ![d] = [doc \in Docs |-> {}]]
      /\ digests \in [Devices -> [Docs -> SUBSET Updates]]
      /\ late \in [Devices -> [Docs -> SUBSET Updates]]
      /\ mem \in [Devices -> SUBSET Updates]
    BY <1>1 DEF DropCache, TypeOK
<1>4. \A e \in Devices :
        IF e \in {d}
        THEN mem'[e] = disk[e] /\ \A doc \in Docs : digests'[e][doc] = {} /\ late'[e][doc] = {}
        ELSE mem'[e] = mem[e] /\ digests'[e] = digests[e] /\ late'[e] = late[e]
    BY <1>3
<1>5. QED
    BY <1>1, <1>2, <1>4 DEF Closing

(* Every step keeps it. *)
LEMMA CoverStep ==
    ASSUME SyncAssumption, CoverInv, [Next]_vars
    PROVE  CoverInv'
<1> CalmInv'
    BY CalmStep DEF CoverInv
<1> SUFFICES ASSUME ~failed'
             PROVE  CoverInv'
    BY DEF CoverInv
<1>1. ~failed /\ TypeOK /\ \A e \in Devices : rows[e] \subseteq rows'[e]
    BY FailedStays, RowsGrow DEF CoverInv, CalmInv, OneInv, KeepInv
<1>2. CASE \E u \in Updates : LocalEdit(u)
    BY <1>1, <1>2, CoverLocalEdit
<1>3. CASE StoreStep
  <2>1. PICK d \in Devices :
          \/ CommitExport(d) \/ CommitImport(d) \/ RollBack(d) \/ EndFailure(d)
          \/ \E doc \in Facts : BeginExport(d, doc) \/ ReadVersion(d, doc) \/ CacheVersion(d, doc)
      BY <1>3 DEF StoreStep
  <2>2. ~RollBack(d) /\ ~EndFailure(d)
      BY <1>1, NoFailure DEF CoverInv
  <2>3. QED
      BY <1>1, <2>1, <2>2, CoverExports, CoverCommitImport
<1>4. ASSUME NEW l \in Ends, Writer(l) \/ Reader(l) \/ Tick(l)
      PROVE  CoverInv'
    BY <1>1, <1>4, CoverWriteQueued, CoverAnnouncing, CoverReadSummary, CoverReadWant,
       CoverReadEmpty, CoverReadNote, CoverBeginImport DEF Writer, Reader
<1>5. ASSUME NEW p \in Pairs, Break(p)
      PROVE  CoverInv'
  <2>1. Closing(EndsOfPair(p), {})
      BY <1>5, BreakCloses
  <2>2. QED
      BY <1>1, <2>1, CoverClosing
<1>6. ASSUME NEW d \in Devices, Restart(d)
      PROVE  CoverInv'
  <2>1. Closing(EndsAt(d), {d})
      BY <1>1, <1>6, RestartCloses
  <2>2. QED
      BY <1>1, <2>1, CoverClosing
<1>7. CASE UNCHANGED vars
    BY <1>1, <1>7, CoverStutter
<1>8. QED
    BY <1>1, <1>2, <1>3, <1>4, <1>5, <1>6, <1>7, CoverConnect DEF Next, LinkStep

(* At the start nothing is here, said or due. *)
LEMMA CoverInit ==
    ASSUME SyncAssumption, Init
    PROVE  CoverInv
<1>1. CalmInv
    BY CalmInit
<1>2. \A l \in Ends : /\ queue[l] = << >> /\ wire[l] = << >> /\ synced[l] = FALSE /\ due[l] = {}
                      /\ wire[Other(l)] = << >>
    BY EndsFacts DEF Init
<1>3. \A l \in Ends : Sent(l) = {} /\ Queued(l) = {} /\ Sent(Other(l)) = {}
    BY <1>2, EmptyRange DEF Sent, Queued
<1>4. \A d \in Devices : /\ mem[d] = {}
                         /\ \A doc \in Docs : digests[d][doc] = {} /\ late[d][doc] = {}
    BY DEF Init
<1>5. \A doc : Part({}, doc) = {}
    BY DEF Part
<1>7. \A d \in Devices : HomeThere(d)
    BY <1>4, <1>5 DEF HomeThere
<1>8. \A d \in Devices : Cached(d)
    BY <1>4, <1>5 DEF Cached
<1>9. \A l \in Ends : Said(l) /\ DueMet(l) /\ SyncedMet(l)
    BY <1>2, <1>3, <1>5 DEF Said, DueMet, SyncedMet
<1>10. QED
    BY <1>1, <1>7, <1>8, <1>9 DEF CoverInv, Honest

(* PeerStatus::last_synced_unix_ms, "everything the peer had is here": unless *)
(* a merge failed, what the last complete summary announced and this device   *)
(* accepts is merged when the time is stamped.                                *)
THEOREM SyncedMeansCovered == Spec => []SyncedCoversSummary
<1>1. Init => CoverInv
    BY SyncAssumption, CoverInit
<1>2. CoverInv /\ [Next]_vars => CoverInv'
    BY SyncAssumption, CoverStep
<1>3. CoverInv => SyncedCoversSummary
    BY CoverMeans
<1>4. QED
    BY <1>1, <1>2, <1>3, PTL DEF Spec

-----------------------------------------------------------------------------
(* What a quiet link means.                                                   *)

(* A recording that is known somewhere is known where it was created.         *)
Founded ==
    \A note \in Notes, d \in Devices :
        Part(rows[d], Home[note]) # {} =>
            \E u \in Creates : DocOf[u] = Home[note] /\ u \in rows[Maker[u]]

(* What is saved is in the rows; what is not is the transaction's, which      *)
(* knows whether it has something to tell, and to whom.                       *)
Showing(d) ==
    /\ disk[d] \subseteq rows[d]
    /\ \A u \in mem[d] \ disk[d] : DocOf[u] \in tx[d].doc
    /\ tx[d].kind = "export" => mem[d] \subseteq rows[d]
    /\ tx[d].kind = "import" =>
         /\ ~tx[d].local /\ ~tx[d].remote => mem[d] = disk[d]
         /\ ~tx[d].remote => mem[d] \subseteq rows[d]
         /\ ~tx[d].local => \A e \in tx[d].from : mem[d] \ disk[d] \subseteq mem[e]

(* A version that is cached has all that is saved, or was never announced.    *)
Fresh(d) ==
    \A doc \in Docs : digests[d][doc] # {} =>
        /\ doc \in Facts
        /\ <<d, doc>> \in silent \/ Part(disk[d], doc) \subseteq digests[d][doc]

(* What asks for a document, what promises it, and what has an update of it.  *)
Pulls(m, doc) == m.type = "RequestSummary" \/ (m.type = "Want" /\ doc \in m.doc)

Gives(m, doc) == m.type = "Complete" \/ (m.type = "Serve" /\ doc \in m.doc)

Brings(m, u) == m.type \in {"Complete", "Partial", "Update"} /\ DocOf[u] \in m.doc /\ u \in m.vers

(* An update that l[2] has and l[1] has not is not saved, was not announced,  *)
(* is not accepted, or is somewhere between them.                             *)
UnderWay(l, u) ==
    \/ u \notin disk[l[2]]
    \/ <<l[2], DocOf[u]>> \in silent
    \/ ~Accepts(l[1], DocOf[u])
    \/ DocOf[u] \in dirty[Other(l)]
    \/ wanted[l][DocOf[u]] = "stale"
    \/ \E m \in Queued(l) \cup Sent(l) : Pulls(m, DocOf[u])
    \/ \E m \in Queued(Other(l)) : Gives(m, DocOf[u])
    \/ \E m \in Sent(Other(l)) : Brings(m, u)

Flowing(l) == \A u \in mem[l[2]] \ mem[l[1]] : UnderWay(l, u)

Settling ==
    /\ \A d \in Devices : Showing(d) /\ Fresh(d)
    /\ \A l \in up : Flowing(l)

(* Both ends of a link are there, or neither. *)
Paired == \A l \in up : Other(l) \in up

QuietInv == CoverInv /\ Paired /\ (~failed => Founded /\ Settling)

(* A quiet end has nothing under way. *)
LEMMA QuietMeansStill ==
    ASSUME TypeOK, NEW l \in Ends, QuietEnd(l), QuietEnd(Other(l)), NEW u \in Updates,
           u \in disk[l[2]], <<l[2], DocOf[u]>> \notin silent, Accepts(l[1], DocOf[u]),
           SyncAssumption
    PROVE  ~UnderWay(l, u)
<1>1. /\ queue[l] = << >> /\ wire[l] = << >> /\ dirty[Other(l)] = {}
      /\ queue[Other(l)] = << >> /\ wire[Other(l)] = << >>
      /\ \A doc \in Docs : wanted[l][doc] = "no"
    BY DEF QuietEnd, IdleEnd
<1>2. Queued(l) = {} /\ Sent(l) = {} /\ Queued(Other(l)) = {} /\ Sent(Other(l)) = {}
    BY <1>1, EmptyRange DEF Queued, Sent
<1>3. DocOf[u] \in Docs
    BY DEF SyncAssumption
<1>4. QED
    BY <1>1, <1>2, <1>3 DEF UnderWay

(* The rows of a document that has no pending edit are saved. *)
LEMMA QuietRows ==
    ASSUME CalmInv, ~failed, NEW d \in Devices, Showing(d), tx[d] = NoTx, changes[d] = {}
    PROVE  mem[d] = disk[d] /\ \A doc \in Facts : Part(rows[d], doc) = Part(mem[d], doc)
<1>1. mem[d] = disk[d] /\ disk[d] \subseteq rows[d]
    BY CalmThen DEF Showing
<1>2. \A doc \in Facts : Part(rows[d], doc) \subseteq disk[d]
    BY CalmThen DEF Faithful
<1>3. QED
    BY <1>1, <1>2 DEF Part

(* Nothing under way between two quiet ends, nothing different: a note that   *)
(* is not accepted lacks its recording, which would be under way itself.      *)
LEMMA QuietSide ==
    ASSUME SyncAssumption, QuietInv, ~failed, NEW l \in up, QuietEnd(l), QuietEnd(Other(l)),
           NEW doc \in Docs, {l[1], l[2]} \X Needs(doc) \cap silent = {}
    PROVE  Part(mem[l[2]], doc) \subseteq mem[l[1]]
<1>1. /\ KeepInv /\ TypeOK /\ Settling /\ l \in Ends /\ l[1] \in Devices /\ l[2] \in Devices
      /\ HomeThere(l[2])
    BY EndsFacts DEF QuietInv, CoverInv, CalmInv, OneInv, KeepInv, TypeOK
<1>2. /\ tx[l[1]] = NoTx /\ tx[l[2]] = NoTx /\ changes[l[1]] = {} /\ changes[l[2]] = {}
    BY <1>1, EndsFacts DEF QuietEnd, IdleEnd
<1>3. \A d \in {l[1], l[2]} :
         mem[d] = disk[d] /\ \A x \in Facts : Part(rows[d], x) = Part(mem[d], x)
    BY <1>1, <1>2, QuietRows DEF Settling, QuietInv, CoverInv
<1>4. ASSUME NEW x \in Docs, x \in Needs(doc), Accepts(l[1], x)
      PROVE  Part(mem[l[2]], x) \subseteq mem[l[1]]
  <2> SUFFICES ASSUME NEW u \in Part(mem[l[2]], x), u \notin mem[l[1]]
               PROVE  FALSE
      OBVIOUS
  <2>1. u \in mem[l[2]] /\ u \in Updates /\ DocOf[u] = x
      BY DEF Part, Of
  <2>2. UnderWay(l, u)
      BY <1>1, <2>1 DEF Settling, Flowing
  <2>3. <<l[2], DocOf[u]>> \notin silent
      BY <1>4, <2>1
  <2>4. u \in disk[l[2]]
      BY <1>3, <2>1
  <2>5. QED
      BY <1>1, <1>4, <2>1, <2>2, <2>3, <2>4, QuietMeansStill
<1>5. CASE Accepts(l[1], doc)
  <2>1. doc \in Needs(doc)
      BY DEF Needs
  <2>2. QED
      BY <1>4, <1>5, <2>1
<1>6. CASE ~Accepts(l[1], doc)
  <2>1. doc \in Notes /\ Part(rows[l[1]], Home[doc]) = {}
      BY <1>6 DEF Accepts
  <2>2. Home[doc] \in Docs \ Notes /\ Home[doc] \in Needs(doc)
      BY <2>1 DEF SyncAssumption, Needs
  <2>3. Accepts(l[1], Home[doc]) /\ Home[doc] \in Facts
      BY <2>2 DEF Accepts, Facts
  <2>4. Part(mem[l[2]], Home[doc]) \subseteq mem[l[1]]
      BY <1>4, <2>2, <2>3
  <2>5. Part(mem[l[1]], Home[doc]) = {}
      BY <1>3, <2>1, <2>3
  <2>6. Part(rows[l[2]], Home[doc]) = {}
      BY <1>3, <2>3, <2>4, <2>5 DEF Part
  <2>7. ~Accepts(l[2], doc)
      BY <2>1, <2>6 DEF Accepts
  <2>8. Part(mem[l[2]], doc) = {}
      BY <1>1, <2>7 DEF HomeThere
  <2>9. QED
      BY <2>8
<1>7. QED
    BY <1>5, <1>6

(* The invariant has the property. *)
LEMMA QuietMeans ==
    ASSUME SyncAssumption, QuietInv
    PROVE  QuietLinksAgreeOnAnnounced
<1> SUFFICES ASSUME NEW l \in up, QuietEnd(l), QuietEnd(Other(l)), ~failed, NEW doc \in Docs,
                    {l[1], l[2]} \X Needs(doc) \cap silent = {}
             PROVE  Part(mem[l[1]], doc) = Part(mem[l[2]], doc)
    BY DEF QuietLinksAgreeOnAnnounced
<1>1. /\ l \in Ends /\ Other(l) \in up /\ Other(Other(l)) = l
      /\ Other(l)[1] = l[2] /\ Other(l)[2] = l[1]
  <2>1. l \in Ends
      BY DEF QuietInv, CoverInv, CalmInv, OneInv, KeepInv, TypeOK
  <2>2. QED
      BY <2>1, EndsFacts DEF QuietEnd, IdleEnd
<1>2. Part(mem[l[2]], doc) \subseteq mem[l[1]]
    BY QuietSide
<1>3. {Other(l)[1], Other(l)[2]} \X Needs(doc) \cap silent = {}
    BY <1>1
<1>4. Part(mem[Other(l)[2]], doc) \subseteq mem[Other(l)[1]]
  <2>1. Other(l) \in up /\ QuietEnd(Other(l)) /\ QuietEnd(Other(Other(l)))
      BY <1>1
  <2>2. QED
      BY <1>3, <2>1, QuietSide
<1>5. QED
    BY <1>1, <1>2, <1>4 DEF Part

(* A recording is created by one device only. *)
LEMMA FoundedStep ==
    ASSUME SyncAssumption, CalmInv, CalmInv', ~failed, ~failed', Founded, [Next]_vars
    PROVE  Founded'
<1>1. KeepInv /\ AllKept /\ \A d \in Devices : rows[d] \subseteq rows'[d]
    BY RowsGrow DEF CalmInv, OneInv, FactsInv
<1>2. \A u \in Creates : Maker[u] \in Devices
    BY DEF SyncAssumption
<1>3. SUFFICES ASSUME NEW note \in Notes, NEW d \in Devices, Part(rows'[d], Home[note]) # {}
               PROVE  \E u \in Creates : DocOf[u] = Home[note] /\ u \in rows'[Maker[u]]
    BY DEF Founded
<1>4. ASSUME NEW e \in Devices, Part(rows[e], Home[note]) # {}
      PROVE  \E u \in Creates : DocOf[u] = Home[note] /\ u \in rows'[Maker[u]]
  <2>1. PICK u \in Creates : DocOf[u] = Home[note] /\ u \in rows[Maker[u]]
      BY <1>4 DEF Founded
  <2>2. u \in rows'[Maker[u]]
      BY <1>1, <1>2, <2>1
  <2>3. QED
      BY <2>1, <2>2
<1>5. PICK v \in rows'[d] : v \in Of(Home[note])
    BY <1>3 DEF Part
<1>6. CASE v \in rows[d]
  <2>1. Part(rows[d], Home[note]) # {}
      BY <1>5, <1>6 DEF Part
  <2>2. QED
      BY <1>4, <2>1
<1>7. ASSUME v \notin rows[d], NEW u \in Updates, LocalEdit(u)
      PROVE  \E x \in Creates : DocOf[x] = Home[note] /\ x \in rows'[Maker[x]]
  <2>1. /\ rows' = [rows EXCEPT ![Maker[u]] = @ \cup {u}]
        /\ u \in Creates \/ Part(rows[Maker[u]], DocOf[u]) # {}
      BY <1>7 DEF LocalEdit
  <2>2. rows \in [Devices -> SUBSET Updates] /\ Maker[u] \in Devices
      BY <1>1 DEF KeepInv, TypeOK, SyncAssumption
  <2>3. v = u /\ d = Maker[u]
      BY <1>5, <1>7, <2>1, <2>2
  <2>4. DocOf[u] = Home[note] /\ u \in rows'[Maker[u]]
      BY <1>5, <2>3 DEF Of
  <2>5. CASE u \in Creates
      BY <2>4, <2>5
  <2>6. CASE Part(rows[Maker[u]], DocOf[u]) # {}
      BY <1>4, <2>2, <2>4, <2>6
  <2>7. QED
      BY <2>1, <2>5, <2>6
<1>8. ASSUME v \notin rows[d], NEW e \in Devices, Learns(e)
      PROVE  \E u \in Creates : DocOf[u] = Home[note] /\ u \in rows'[Maker[u]]
  <2>1. v \in Authored
    <3>1. d = e
        BY <1>5, <1>8 DEF Learns
    <3>2. QED
        BY <1>5, <1>8, <3>1 DEF Learns
  <2>2. PICK f \in Devices : v \in rows[f]
      BY <2>1 DEF Authored
  <2>3. Part(rows[f], Home[note]) # {}
      BY <1>5, <2>2 DEF Part
  <2>4. QED
      BY <1>4, <2>3
<1>9. QED
    BY <1>1, <1>5, <1>6, <1>7, <1>8, RowsStep

(* What a step can take of the things that show an update under way. *)
Lost(l, u) ==
    \/ DocOf[u] \in dirty[Other(l)] /\ DocOf[u] \notin dirty'[Other(l)]
    \/ wanted[l][DocOf[u]] = "stale" /\ wanted'[l][DocOf[u]] # "stale"
    \/ \E m \in Queued(l) : m \notin Queued(l)' /\ Pulls(m, DocOf[u])
    \/ \E m \in Sent(l) : m \notin Sent(l)' /\ Pulls(m, DocOf[u])
    \/ \E m \in Queued(Other(l)) : m \notin Queued(Other(l))' /\ Gives(m, DocOf[u])
    \/ \E m \in Sent(Other(l)) : m \notin Sent(Other(l))' /\ Brings(m, u)

(* What is under way stays under way, unless the step took what showed it.    *)
LEMMA GoesOn ==
    ASSUME NEW l, NEW u, UnderWay(l, u), silent \subseteq silent'
    PROVE  \/ UnderWay(l, u)'
           \/ u \in disk'[l[2]] /\ u \notin disk[l[2]]
           \/ Accepts(l[1], DocOf[u])' /\ ~Accepts(l[1], DocOf[u])
           \/ Lost(l, u)
<1>1. CASE u \notin disk[l[2]]
    BY <1>1 DEF UnderWay, Lost
<1>2. CASE <<l[2], DocOf[u]>> \in silent
    BY <1>2 DEF UnderWay, Lost
<1>3. CASE ~Accepts(l[1], DocOf[u])
    BY <1>3 DEF UnderWay, Lost
<1>4. CASE DocOf[u] \in dirty[Other(l)]
    BY <1>4 DEF UnderWay, Lost
<1>5. CASE wanted[l][DocOf[u]] = "stale"
    BY <1>5 DEF UnderWay, Lost
<1>6. ASSUME NEW m \in Queued(l), Pulls(m, DocOf[u])
      PROVE  UnderWay(l, u)' \/ m \notin Queued(l)'
    BY <1>6 DEF UnderWay, Pulls
<1>7. ASSUME NEW m \in Sent(l), Pulls(m, DocOf[u])
      PROVE  UnderWay(l, u)' \/ m \notin Sent(l)'
    BY <1>7 DEF UnderWay, Pulls
<1>8. ASSUME NEW m \in Queued(Other(l)), Gives(m, DocOf[u])
      PROVE  UnderWay(l, u)' \/ m \notin Queued(Other(l))'
    BY <1>8 DEF UnderWay, Gives
<1>9. ASSUME NEW m \in Sent(Other(l)), Brings(m, u)
      PROVE  UnderWay(l, u)' \/ m \notin Sent(Other(l))'
    BY <1>9 DEF UnderWay, Brings
<1>10. QED
    BY <1>1, <1>2, <1>3, <1>4, <1>5, <1>6, <1>7, <1>8, <1>9 DEF UnderWay, Lost

(* A store that learns nothing that it does not show. *)
LEMMA ShowingKept ==
    ASSUME NEW d \in Devices, Showing(d), NEW S,
           mem'[d] = mem[d] \cup S, disk'[d] = disk[d] \cup S, S \subseteq rows'[d],
           rows[d] \subseteq rows'[d],
           tx'[d].kind = tx[d].kind, tx'[d].doc = tx[d].doc, tx'[d].local = tx[d].local,
           tx'[d].remote = tx[d].remote, tx'[d].from \subseteq tx[d].from,
           \A e \in tx'[d].from : mem[e] \subseteq mem'[e]
    PROVE  Showing(d)'
    BY DEF Showing

(* The same, when only rows are gained. *)
LEMMA ShowingSame ==
    ASSUME NEW d \in Devices, Showing(d), UNCHANGED <<mem, disk, tx>>, rows[d] \subseteq rows'[d]
    PROVE  Showing(d)'
    BY DEF Showing

(* A cached version that stays, goes, or is made of the document. *)
LEMMA FreshKept ==
    ASSUME NEW d \in Devices, Fresh(d), silent \subseteq silent',
           \A doc \in Docs :
              \/ digests'[d][doc] = {}
              \/ digests'[d][doc] = digests[d][doc] /\ Part(disk'[d], doc) \subseteq Part(disk[d], doc)
              \/ doc \in Facts /\ Part(disk'[d], doc) \subseteq digests'[d][doc]
    PROVE  Fresh(d)'
    BY DEF Fresh

(* A version that is cached when it is computed is fresh. *)
LEMMA FreshCache ==
    ASSUME KeepInv, NEW d \in Devices, NEW docs \in SUBSET Docs, Cache(d, docs),
           UNCHANGED <<disk, silent>>, \A e \in Devices : Fresh(e)
    PROVE  \A e \in Devices : Fresh(e)'
<1> SUFFICES ASSUME NEW e \in Devices
             PROVE  Fresh(e)'
    OBVIOUS
<1>1. TypeOK /\ disk[d] \subseteq mem[d] /\ Fresh(e)
    BY DEF KeepInv, Stored
<1>2. /\ \A f \in Devices \ {d} : digests'[f] = digests[f]
      /\ \A doc \in Docs : digests'[d][doc] =
            IF doc \in docs \ Notes THEN VersionOf(d, doc) ELSE digests[d][doc]
    BY <1>1, CacheType
<1>3. \A doc \in Docs : Part(disk'[e], doc) = Part(disk[e], doc)
    OBVIOUS
<1>4. \A doc \in Docs : \/ digests'[e][doc] = digests[e][doc]
                        \/ doc \in Facts /\ Part(disk'[e], doc) \subseteq digests'[e][doc]
  <2> TAKE doc \in Docs
  <2>1. CASE e # d
      BY <1>2, <2>1
  <2>2. CASE e = d /\ ~(doc \in docs \ Notes)
      BY <1>2, <2>2
  <2>3. CASE e = d /\ doc \in docs \ Notes
    <3>1. digests'[d][doc] = VersionOf(d, doc) /\ doc \in Facts
        BY <1>2, <2>3 DEF Facts
    <3>2. Part(disk[d], doc) \subseteq Part(mem[d], doc)
        BY <1>1 DEF Part
    <3>3. CASE digests[d][doc] = {}
        BY <1>3, <2>3, <3>1, <3>2, <3>3 DEF VersionOf
    <3>4. CASE digests[d][doc] # {}
        BY <2>3, <3>1, <3>4 DEF VersionOf
    <3>5. QED
        BY <3>3, <3>4
  <2>4. QED
      BY <2>1, <2>2, <2>3
<1>5. QED
    BY <1>1, <1>3, <1>4, FreshKept

(* A summary has what is saved and was announced. *)
LEMMA SummaryBrings ==
    ASSUME SyncAssumption, NEW c \in BOOLEAN, NEW d \in Devices, NEW docs, Fresh(d), NEW u \in Updates,
           u \in mem[d], u \in disk[d], <<d, DocOf[u]>> \notin silent, DocOf[u] \in docs
    PROVE  Brings(Summary(c, d, docs), u)
<1>1. DocOf[u] \in Docs /\ u \in Part(mem[d], DocOf[u]) /\ u \in Part(disk[d], DocOf[u])
    BY DEF SyncAssumption, Part, Of
<1>2. Present(d, DocOf[u])
    BY <1>1 DEF Present
<1>3. u \in VersionOf(d, DocOf[u])
    BY <1>1 DEF Fresh, VersionOf
<1>4. /\ Summary(c, d, docs).doc = {doc \in docs : Present(d, doc)}
      /\ Summary(c, d, docs).vers
           = UNION {VersionOf(d, doc) : doc \in {x \in docs : Present(d, x)}}
    BY SummaryParts
<1>5. Summary(c, d, docs).type \in {"Complete", "Partial"}
    BY DEF Summary
<1>6. DocOf[u] \in Summary(c, d, docs).doc /\ u \in Summary(c, d, docs).vers
    BY <1>2, <1>3, <1>4
<1>7. QED
    BY <1>5, <1>6 DEF Brings

(* An update that the peer has saved and announced, and this end accepts. *)
Owed(l, u) ==
    /\ u \in mem[l[2]] /\ u \notin mem[l[1]] /\ u \in disk[l[2]]
    /\ <<l[2], DocOf[u]>> \notin silent
    /\ Accepts(l[1], DocOf[u])

(* A step of a link only moves what is under way. *)
LEMMA LinkFlows ==
    ASSUME TypeOK, Settling, UNCHANGED <<rows, disk, mem, tx, silent, up>>,
           \A d \in Devices : Fresh(d)',
           \A k \in up, u \in Updates : Owed(k, u) /\ Lost(k, u) => UnderWay(k, u)'
    PROVE  Settling'
<1>1. ASSUME NEW d \in Devices
      PROVE  Showing(d)'
  <2>1. Showing(d) /\ UNCHANGED <<mem, disk, tx>> /\ rows[d] \subseteq rows'[d]
      BY DEF Settling
  <2>2. QED
      BY <2>1, ShowingSame
<1>2. ASSUME NEW k \in up, NEW u \in mem[k[2]] \ mem[k[1]]
      PROVE  UnderWay(k, u)'
  <2>1. UnderWay(k, u) /\ u \in Updates
    <3>1. k[2] \in Devices
        BY EndsFacts DEF TypeOK
    <3>2. u \in Updates
        BY <3>1 DEF TypeOK
    <3>3. QED
        BY <3>2 DEF Settling, Flowing
  <2>2. \/ UnderWay(k, u)' \/ Lost(k, u)
    <3>1. Accepts(k[1], DocOf[u])' <=> Accepts(k[1], DocOf[u])
        BY DEF Accepts
    <3>2. QED
        BY <2>1, <3>1, GoesOn
  <2>3. Owed(k, u) \/ UnderWay(k, u)'
    <3>1. Accepts(k[1], DocOf[u])' <=> Accepts(k[1], DocOf[u])
        BY DEF Accepts
    <3>2. QED
        BY <3>1 DEF Owed, UnderWay
  <2>4. QED
      BY <2>1, <2>2, <2>3
<1>3. \A k \in up' : Flowing(k)'
    BY <1>2 DEF Flowing
<1>4. QED
    BY <1>1, <1>3 DEF Settling

(* What the queue promised is now in a message. *)
LEMMA FlowWriteQueued ==
    ASSUME SyncAssumption, CoverInv, Settling, ~failed, NEW l \in Ends, WriteQueued(l)
    PROVE  Settling'
<1>1. KeepInv /\ TypeOK /\ Shapes(l) /\ Said(l) /\ \A d \in Devices : Fresh(d)
    BY DEF CoverInv, CalmInv, OneInv, KeepInv, Honest, Settling
<1>2. /\ \E item \in Outbound : item \in Queued(l) /\ WritesItem(l, item)
      /\ Only(wire, wire', Message, {l}) /\ Only(queue, queue', Outbound, {l})
      /\ l \in up /\ UNCHANGED <<Rest, dirty>>
    BY <1>1, WriteQueuedEffect
<1>3. PICK item \in Outbound : item \in Queued(l) /\ WritesItem(l, item)
    BY <1>2
<1>4. UNCHANGED <<rows, disk, mem, tx, silent, up, dirty, wanted>>
    BY <1>2 DEF Rest
<1>5. l[1] \in Devices /\ l[2] \in Devices /\ Other(l) \in Ends
    BY EndsFacts
<1>6. \A d \in Devices : Fresh(d)'
  <2>1. UNCHANGED digests \/ \E docs \in SUBSET Docs : Cache(l[1], docs)
    <3>1. \/ Cache(l[1], Docs) \/ UNCHANGED digests \/ \E doc \in Docs : Cache(l[1], {doc})
        BY <1>3 DEF WritesItem
    <3>2. Docs \in SUBSET Docs /\ \A doc \in Docs : {doc} \in SUBSET Docs
        OBVIOUS
    <3>3. QED
        BY <3>1, <3>2
  <2>2. CASE UNCHANGED digests
      BY <1>1, <1>4, <2>2 DEF Fresh
  <2>3. ASSUME NEW docs \in SUBSET Docs, Cache(l[1], docs)
        PROVE  \A d \in Devices : Fresh(d)'
      BY <1>1, <1>4, <1>5, <2>3, FreshCache
  <2>4. QED
      BY <2>1, <2>2, <2>3
<1>7. /\ \A k \in Ends : Sent(k) \subseteq Sent(k)'
      /\ \A k \in Ends \ {l} : Queued(k)' = Queued(k)
      /\ Queued(l) \subseteq Queued(l)' \cup {item}
  <2>1. /\ \E m : Adds(Message, wire[l], wire'[l], m)
        /\ Takes(Outbound, queue[l], queue'[l], item)
           \/ \E rest \in Outbound : Swaps(Outbound, queue[l], queue'[l], item, rest)
      BY <1>3 DEF WritesItem
  <2>2. Sent(l) \subseteq Sent(l)' /\ Queued(l) \subseteq Queued(l)' \cup {item}
      BY <2>1 DEF Sent, Queued, Adds, Takes, Swaps
  <2>3. QED
      BY <1>2, <2>2 DEF Only, Sent, Queued
<1>8. ASSUME NEW k \in up, NEW u \in Updates, Owed(k, u), Lost(k, u)
      PROVE  UnderWay(k, u)'
  <2>1. k \in Ends /\ Other(k) \in Ends /\ (Other(k) = l => k = Other(l)) /\ DocOf[u] \in Docs
      BY <1>1, EndsFacts DEF TypeOK, SyncAssumption
  <2>2. \/ k = l /\ Pulls(item, DocOf[u])
        \/ k = Other(l) /\ Gives(item, DocOf[u])
      BY <1>4, <1>7, <1>8, <2>1 DEF Lost
  <2>3. CASE k = l /\ Pulls(item, DocOf[u])
    <3>1. CASE item.type = "RequestSummary"
      <4>1. RequestSummary \in Sent(l)'
          BY <1>3, <3>1 DEF WritesItem, Adds, Sent
      <4>2. Pulls(RequestSummary, DocOf[u])
          BY Formed DEF Pulls
      <4>3. QED
          BY <2>3, <4>1, <4>2 DEF UnderWay, Pulls
    <3>2. CASE item.type = "Want"
      <4>1. DocOf[u] \in item.doc
          BY <2>3, <3>2 DEF Pulls
      <4>2. PICK doc \in Docs :
              /\ Adds(Message, wire[l], wire'[l], Want(doc, VersionOf(l[1], doc)))
              /\ \/ item.doc = {doc}
                 \/ \E rest \in Outbound :
                      /\ rest.type = "Want" /\ rest.doc = item.doc \ {doc}
                      /\ Swaps(Outbound, queue[l], queue'[l], item, rest)
          BY <1>3, <3>2 DEF WritesItem
      <4>3. CASE doc = DocOf[u]
        <5>1. Want(doc, VersionOf(l[1], doc)) \in Sent(l)'
            BY <4>2 DEF Adds, Sent
        <5>2. Pulls(Want(doc, VersionOf(l[1], doc)), DocOf[u])
            BY <4>3 DEF Pulls, Want
        <5>3. QED
            BY <2>3, <5>1, <5>2 DEF UnderWay, Pulls
      <4>4. CASE doc # DocOf[u]
        <5>1. PICK rest \in Outbound :
                /\ rest.type = "Want" /\ rest.doc = item.doc \ {doc}
                /\ Swaps(Outbound, queue[l], queue'[l], item, rest)
            BY <4>1, <4>2, <4>4
        <5>2. rest \in Queued(l)' /\ Pulls(rest, DocOf[u])
            BY <4>1, <4>4, <5>1 DEF Swaps, Queued, Pulls
        <5>3. QED
            BY <2>3, <5>2 DEF UnderWay, Pulls
      <4>5. QED
          BY <4>3, <4>4
    <3>3. QED
        BY <2>3, <3>1, <3>2 DEF Pulls
  <2>4. CASE k = Other(l) /\ Gives(item, DocOf[u])
    <3>1. /\ k[1] = l[2] /\ k[2] = l[1] /\ Other(k) = l
          /\ u \in mem[l[1]] /\ u \notin mem[l[2]] /\ u \in disk[l[1]]
          /\ <<l[1], DocOf[u]>> \notin silent
        BY <1>8, <2>4, EndsFacts DEF Owed
    <3>2. SUFFICES \E m \in Sent(l)' : Brings(m, u)
        BY <3>1 DEF UnderWay, Brings
    <3>3. CASE item.type = "Complete"
      <4>1. Summary(TRUE, l[1], Docs) \in Sent(l)'
          BY <1>3, <3>3 DEF WritesItem, Adds, Sent
      <4>2. Brings(Summary(TRUE, l[1], Docs), u)
          BY <1>1, <1>5, <2>1, <3>1, SummaryBrings
      <4>3. QED
          BY <4>1, <4>2
    <3>4. CASE item.type = "Serve"
      <4>1. PICK doc \in Docs :
              /\ item.doc = {doc}
              /\ Adds(Message, wire[l], wire'[l], Update(doc, Part(mem[l[1]], doc) \ item.vers))
          BY <1>3, <3>4 DEF WritesItem
      <4>2. doc = DocOf[u]
          BY <2>4, <3>4, <4>1 DEF Gives
      <4>3. u \notin item.vers
          BY <1>1, <1>3, <3>1, <3>4 DEF Said
      <4>4. u \in Part(mem[l[1]], doc) \ item.vers
          BY <3>1, <4>2, <4>3 DEF Part, Of
      <4>5. Update(doc, Part(mem[l[1]], doc) \ item.vers) \in Sent(l)'
          BY <4>1 DEF Adds, Sent
      <4>6. Brings(Update(doc, Part(mem[l[1]], doc) \ item.vers), u)
          BY <4>2, <4>4 DEF Brings, Update
      <4>7. QED
          BY <4>5, <4>6
    <3>5. QED
        BY <2>4, <3>3, <3>4 DEF Gives
  <2>5. QED
      BY <2>2, <2>3, <2>4
<1>9. QED
    BY <1>1, <1>4, <1>6, <1>8, LinkFlows

(* What was dirty is now in a summary. *)
LEMMA FlowAnnouncing ==
    ASSUME SyncAssumption, CoverInv, Settling, NEW l \in Ends, WriteDirty(l) \/ Tick(l)
    PROVE  Settling'
<1>1. KeepInv /\ TypeOK /\ \A d \in Devices : Fresh(d)
    BY DEF CoverInv, CalmInv, OneInv, KeepInv, Settling
<1>2. l[1] \in Devices /\ l[2] \in Devices /\ Other(l) \in Ends
    BY EndsFacts
<1>3. dirty[l] \in SUBSET Docs /\ Docs \in SUBSET Docs
    BY <1>1 DEF TypeOK
<1>4. /\ Only(wire, wire', Message, {l}) /\ UNCHANGED <<Rest, queue>>
      /\ \A k \in Ends : k # l => dirty'[k] = dirty[k]
      /\ UNCHANGED digests \/ \E docs \in SUBSET Docs : Cache(l[1], docs)
      /\ wire' = wire \/ \E m : Adds(Message, wire[l], wire'[l], m)
      /\ \/ dirty' = dirty
         \/ (\E doc \in dirty[l] : Present(l[1], doc)) =>
               Adds(Message, wire[l], wire'[l], Summary(FALSE, l[1], dirty[l]))
  <2>1. CASE WriteDirty(l)
    <3>1. /\ \/ /\ \E doc \in dirty[l] : Present(l[1], doc)
                /\ Adds(Message, wire[l], wire'[l], Summary(FALSE, l[1], dirty[l]))
                /\ Cache(l[1], dirty[l])
             \/ ~(\E doc \in dirty[l] : Present(l[1], doc)) /\ UNCHANGED <<wire, digests>>
          /\ Only(wire, wire', Message, {l}) /\ UNCHANGED <<Rest, queue>>
          /\ dirty' = [dirty EXCEPT ![l] = {}]
        BY <1>1, <2>1, WriteDirtyEffect
    <3>2. \A k \in Ends : k # l => dirty'[k] = dirty[k]
        BY <1>1, <3>1 DEF TypeOK
    <3>3. QED
        BY <1>3, <3>1, <3>2
  <2>2. CASE Tick(l)
    <3>1. /\ Adds(Message, wire[l], wire'[l], Summary(TRUE, l[1], Docs)) /\ Cache(l[1], Docs)
          /\ Only(wire, wire', Message, {l}) /\ UNCHANGED <<Rest, queue, dirty>>
        BY <1>1, <2>2, TickEffect
    <3>2. QED
        BY <1>3, <3>1
  <2>3. QED
      BY <2>1, <2>2
<1>5. UNCHANGED <<rows, disk, mem, tx, silent, up, wanted, queue>>
    BY <1>4 DEF Rest
<1>6. \A d \in Devices : Fresh(d)'
  <2>1. CASE UNCHANGED digests
      BY <1>1, <1>5, <2>1 DEF Fresh
  <2>2. ASSUME NEW docs \in SUBSET Docs, Cache(l[1], docs)
        PROVE  \A d \in Devices : Fresh(d)'
      BY <1>1, <1>2, <1>5, <2>2, FreshCache
  <2>3. QED
      BY <1>4, <2>1, <2>2
<1>7. \A k \in Ends : Sent(k) \subseteq Sent(k)'
    BY <1>4 DEF Only, Sent, Adds
<1>8. ASSUME NEW k \in up, NEW u \in Updates, Owed(k, u), Lost(k, u)
      PROVE  UnderWay(k, u)'
  <2>1. k \in Ends /\ Other(k) \in Ends /\ DocOf[u] \in Docs
      BY <1>1, EndsFacts DEF TypeOK, SyncAssumption
  <2>2. DocOf[u] \in dirty[Other(k)] /\ DocOf[u] \notin dirty'[Other(k)]
      BY <1>5, <1>7, <1>8, <2>1 DEF Lost, Queued
  <2>3. Other(k) = l
      BY <1>4, <2>1, <2>2
  <2>4. k[2] = l[1]
      BY <2>1, <2>3, EndsFacts
  <2>5. u \in mem[l[1]] /\ u \in disk[l[1]] /\ <<l[1], DocOf[u]>> \notin silent
      BY <1>8, <2>4 DEF Owed
  <2>6. Present(l[1], DocOf[u])
      BY <2>5 DEF Present, Part, Of
  <2>7. Adds(Message, wire[l], wire'[l], Summary(FALSE, l[1], dirty[l]))
      BY <1>4, <2>2, <2>3, <2>6
  <2>8. Brings(Summary(FALSE, l[1], dirty[l]), u)
      BY <1>1, <1>2, <2>2, <2>3, <2>5, SummaryBrings
  <2>9. Summary(FALSE, l[1], dirty[l]) \in Sent(l)'
      BY <2>7 DEF Adds, Sent
  <2>10. \E m \in Sent(Other(k))' : Brings(m, u)
      BY <2>3, <2>8, <2>9
  <2>11. QED
      BY <2>10 DEF UnderWay, Brings
<1>9. QED
    BY <1>1, <1>5, <1>6, <1>8, LinkFlows

(* What was asked for is now to be served. *)
LEMMA FlowReadWant ==
    ASSUME SyncAssumption, CoverInv, Settling, NEW l \in Ends, ReadWant(l) \/ ReadRequest(l)
    PROVE  Settling'
<1>1. KeepInv /\ TypeOK /\ \A d \in Devices : Fresh(d)
    BY DEF CoverInv, CalmInv, OneInv, KeepInv, Settling
<1>2. Other(l) \in Ends /\ Other(Other(l)) = l
    BY EndsFacts
<1>3. /\ \E m \in Message : ReadsWant(l, m)
      /\ Only(wire, wire', Message, {Other(l)}) /\ Only(queue, queue', Outbound, {l})
      /\ UNCHANGED <<store, up, dirty, wanted, synced, due, silent, troubles, failed, overtaken>>
    BY <1>1, ReadWantEffect
<1>4. PICK m \in Message : ReadsWant(l, m)
    BY <1>3
<1>5. UNCHANGED <<rows, disk, mem, tx, silent, up, wanted, dirty, digests>>
    BY <1>3 DEF store
<1>6. \A d \in Devices : Fresh(d)'
    BY <1>1, <1>5 DEF Fresh
<1>7. /\ \A k \in Ends : Queued(k) \subseteq Queued(k)'
      /\ \A k \in Ends \ {Other(l)} : Sent(k)' = Sent(k)
      /\ Sent(Other(l)) \subseteq Sent(Other(l))' \cup {m}
    BY <1>3, <1>4 DEF ReadsWant, Takes, Adds, Only, Sent, Queued
<1>8. ASSUME NEW k \in up, NEW u \in Updates, Owed(k, u), Lost(k, u)
      PROVE  UnderWay(k, u)'
  <2>1. k \in Ends /\ Other(k) \in Ends /\ (Other(k) = Other(l) => k = l) /\ DocOf[u] \in Docs
      BY <1>1, <1>2, EndsFacts DEF TypeOK, SyncAssumption
  <2>2. \/ k = Other(l) /\ Pulls(m, DocOf[u])
        \/ k = l /\ Brings(m, u)
      BY <1>5, <1>7, <1>8, <2>1 DEF Lost
  <2>3. k = Other(l) /\ Pulls(m, DocOf[u])
      BY <1>4, <2>2 DEF ReadsWant, Brings
  <2>4. CASE m.type = "Want"
    <3>1. ServeItem(m) \in Queued(l)'
        BY <1>4, <2>4 DEF ReadsWant, Adds, Queued
    <3>2. Gives(ServeItem(m), DocOf[u])
        BY <2>3, <2>4, Formed DEF Gives, Pulls
    <3>3. QED
        BY <1>2, <2>3, <3>1, <3>2 DEF UnderWay, Gives
  <2>5. CASE m.type = "RequestSummary"
    <3>1. SummaryItem \in Queued(l)'
        BY <1>4, <2>5 DEF ReadsWant, Adds, Queued
    <3>2. Gives(SummaryItem, DocOf[u])
        BY Formed DEF Gives
    <3>3. QED
        BY <1>2, <2>3, <3>1, <3>2 DEF UnderWay, Gives
  <2>6. QED
      BY <1>4, <2>4, <2>5 DEF ReadsWant
<1>9. QED
    BY <1>1, <1>5, <1>6, <1>8, LinkFlows

(* What a summary brings is asked for, or marked to be asked again. *)
LEMMA FlowReadSummary ==
    ASSUME SyncAssumption, CoverInv, Settling, ~failed, NEW l \in Ends, ReadSummary(l)
    PROVE  Settling'
<1>1. KeepInv /\ TypeOK /\ \A d \in Devices : Fresh(d) /\ Cached(d)
    BY DEF CoverInv, CalmInv, OneInv, KeepInv, Honest, Settling
<1>2. Other(l) \in Ends /\ Other(Other(l)) = l /\ l[1] \in Devices
    BY EndsFacts
<1>3. /\ \E m \in Message : ReadsSummary(l, m)
      /\ Only(wire, wire', Message, {Other(l)}) /\ Only(queue, queue', Outbound, {l})
      /\ UNCHANGED <<rows, changes, disk, mem, late, tx, fallen, up, dirty, silent, troubles, failed, overtaken>>
    BY <1>1, ReadSummaryEffect
<1>4. PICK m \in Message : ReadsSummary(l, m)
    BY <1>3
<1>5. \A d \in Devices : Fresh(d)'
  <2>1. Cache(l[1], m.doc) /\ m.doc \in SUBSET Docs
      BY <1>4 DEF ReadsSummary, Message
  <2>2. QED
      BY <1>1, <1>2, <1>3, <2>1, FreshCache
<1>6. /\ \A k \in Ends : Queued(k) \subseteq Queued(k)'
      /\ \A k \in Ends \ {Other(l)} : Sent(k)' = Sent(k)
      /\ Sent(Other(l)) \subseteq Sent(Other(l))' \cup {m}
      /\ \A k \in Ends \ {l} : wanted'[k] = wanted[k]
    BY <1>3, <1>4 DEF ReadsSummary, Takes, Adds, Only, Sent, Queued
<1>7. \A doc \in Docs : wanted[l][doc] = "stale" => wanted'[l][doc] = "stale"
    BY <1>4 DEF ReadsSummary, New
<1>8. ASSUME NEW k \in up, NEW u \in Updates, Owed(k, u), Lost(k, u)
      PROVE  UnderWay(k, u)'
  <2>1. k \in Ends /\ Other(k) \in Ends /\ (Other(k) = Other(l) => k = l) /\ DocOf[u] \in Docs
      BY <1>1, <1>2, EndsFacts DEF TypeOK, SyncAssumption
  <2>2. \/ k = Other(l) /\ Pulls(m, DocOf[u])
        \/ k = l /\ Brings(m, u)
      BY <1>3, <1>6, <1>7, <1>8, <2>1 DEF Lost
  <2>3. k = l /\ Brings(m, u)
      BY <1>4, <2>2 DEF ReadsSummary, Pulls
  <2>4. u \notin mem[l[1]] /\ Accepts(l[1], DocOf[u]) /\ DocOf[u] \in m.doc /\ u \in m.vers
      BY <1>8, <2>3 DEF Owed, Brings
  <2>5. u \notin VersionOf(l[1], DocOf[u])
    <3>1. VersionOf(l[1], DocOf[u]) \subseteq Part(mem[l[1]], DocOf[u])
        BY <1>1, <1>2, <2>1, VersionThere
    <3>2. QED
        BY <2>4, <3>1 DEF Part
  <2>6. u \in Part(m.vers, DocOf[u])
      BY <2>4 DEF Part, Of
  <2>7. DocOf[u] \in Differing(l, m)
      BY <2>4, <2>5, <2>6 DEF Differing
  <2>8. CASE DocOf[u] \in New(l, m)
    <3>1. WantItem(New(l, m)) \in Queued(l)'
        BY <1>4, <2>8 DEF ReadsSummary, Adds, Queued
    <3>2. Pulls(WantItem(New(l, m)), DocOf[u])
        BY <2>8 DEF Pulls, WantItem, NoMessage
    <3>3. QED
        BY <2>3, <3>1, <3>2 DEF UnderWay, Pulls
  <2>9. CASE DocOf[u] \notin New(l, m)
    <3>1. wanted'[l][DocOf[u]] = "stale"
        BY <1>4, <2>1, <2>7, <2>9 DEF ReadsSummary
    <3>2. QED
        BY <2>3, <3>1 DEF UnderWay
  <2>10. QED
      BY <2>8, <2>9
<1>9. QED
    BY <1>1, <1>3, <1>5, <1>8, LinkFlows

(* What a step may do while nothing under way is forgotten: what it saves and *)
(* what it makes acceptable is announced or asked for.                        *)
LEMMA StoreFlows ==
    ASSUME KeepInv, Settling, silent \subseteq silent', up' = up,
           \A d \in Devices : Showing(d)' /\ Fresh(d)' /\ mem[d] \subseteq mem'[d],
           \A k \in up, u \in Updates : Lost(k, u) => UnderWay(k, u)' \/ u \in mem'[k[1]],
           \A k \in up, u \in Updates :
              u \in disk'[k[2]] /\ u \notin disk[k[2]] /\ u \notin mem'[k[1]] => UnderWay(k, u)',
           \A k \in up, u \in Updates :
              /\ u \in mem[k[2]] /\ u \notin mem'[k[1]]
              /\ Accepts(k[1], DocOf[u])' /\ ~Accepts(k[1], DocOf[u])
              => UnderWay(k, u)',
           mem' \in [Devices -> SUBSET Updates]
    PROVE  Settling'
<1>1. ASSUME NEW k \in up, NEW u \in mem'[k[2]] \ mem'[k[1]]
      PROVE  UnderWay(k, u)'
  <2>1. k \in Ends /\ k[1] \in Devices /\ k[2] \in Devices
      BY EndsFacts DEF KeepInv, TypeOK
  <2>2. u \in Updates /\ u \notin mem[k[1]] /\ disk[k[2]] \subseteq mem[k[2]]
      BY <2>1 DEF KeepInv, Stored
  <2>3. CASE u \in mem[k[2]]
    <3>1. UnderWay(k, u)
        BY <2>2, <2>3 DEF Settling, Flowing
    <3>2. \/ UnderWay(k, u)'
          \/ u \in disk'[k[2]] /\ u \notin disk[k[2]]
          \/ Accepts(k[1], DocOf[u])' /\ ~Accepts(k[1], DocOf[u])
          \/ Lost(k, u)
        BY <3>1, GoesOn
    <3>3. QED
        BY <2>2, <2>3, <3>2
  <2>4. CASE u \notin mem[k[2]] /\ u \in disk'[k[2]]
      BY <2>2, <2>4
  <2>5. CASE u \notin disk'[k[2]]
      BY <2>5 DEF UnderWay
  <2>6. QED
      BY <2>3, <2>4, <2>5
<1>2. \A k \in up' : Flowing(k)'
    BY <1>1 DEF Flowing
<1>3. QED
    BY <1>2 DEF Settling

(* A step of a store that takes nothing from the links. *)
LEMMA NothingLost ==
    ASSUME \A k \in Ends : dirty[k] \subseteq dirty'[k] /\ Queued(k) \subseteq Queued(k)',
           UNCHANGED <<wanted, wire>>, up \subseteq Ends
    PROVE  \A k \in up, u \in Updates : ~Lost(k, u)
<1>1. \A k \in up : k \in Ends /\ Other(k) \in Ends
    BY EndsFacts
<1>2. QED
    BY <1>1 DEF Lost, Sent

(* The stores of the other devices, while one of them works. *)
LEMMA OthersShowing ==
    ASSUME NEW d \in Devices, \A e \in Devices : Showing(e),
           \A e \in Devices \ {d} :
              mem'[e] = mem[e] /\ disk'[e] = disk[e] /\ tx'[e] = tx[e] /\ rows[e] \subseteq rows'[e],
           \A e \in Devices : mem[e] \subseteq mem'[e],
           TypeOK
    PROVE  \A e \in Devices \ {d} : Showing(e)'
<1> SUFFICES ASSUME NEW e \in Devices \ {d}
             PROVE  Showing(e)'
    OBVIOUS
<1>1. /\ Showing(e) /\ mem'[e] = mem[e] \cup {} /\ disk'[e] = disk[e] \cup {} /\ {} \subseteq rows'[e]
      /\ rows[e] \subseteq rows'[e]
    OBVIOUS
<1>2. tx'[e] = tx[e] /\ \A f \in tx'[e].from : mem[f] \subseteq mem'[f]
  <2>1. tx'[e] = tx[e] /\ tx[e] \in Tx
      BY DEF TypeOK
  <2>2. tx[e].from \subseteq Devices
      BY <2>1 DEF Tx
  <2>3. QED
      BY <2>1, <2>2
<1>3. QED
    BY <1>1, <1>2 DEF Showing

(* What an export puts into memory is not saved yet. *)
LEMMA FlowBeginExport ==
    ASSUME CalmInv, ~failed, KeepInv', Settling, NEW d \in Devices, NEW doc \in Facts,
           BeginExport(d, doc)
    PROVE  Settling'
<1>1. UNCHANGED <<rows, disk, digests, silent, up, queue, dirty, wanted, wire>>
    BY DEF BeginExport, links
<1>2. KeepInv /\ TypeOK /\ \A e \in Devices : Showing(e) /\ Fresh(e)
    BY DEF CalmInv, OneInv, KeepInv, Settling
<1>3. /\ mem'[d] = mem[d] \cup Part(rows[d], doc)
      /\ \A e \in Devices \ {d} : mem'[e] = mem[e] /\ tx'[e] = tx[e]
      /\ tx'[d].kind = "export" /\ tx'[d].doc = {doc}
      /\ mem[d] = disk[d]
    BY CalmBeginExport
<1>4. \A e \in Devices : mem[e] \subseteq mem'[e]
    BY <1>3
<1>5. \A e \in Devices \ {d} : Showing(e)'
    BY <1>1, <1>2, <1>3, <1>4, OthersShowing
<1>6. Showing(d)'
    BY <1>1, <1>2, <1>3 DEF Showing, Part, Of
<1>7. \A e \in Devices : Fresh(e)'
    BY <1>1, <1>2 DEF Fresh
<1>8. \A k \in up, u \in Updates : ~Lost(k, u)
    BY <1>1, <1>2, NothingLost DEF TypeOK, Queued
<1>9. \A k \in up, u \in Updates : Accepts(k[1], DocOf[u])' => Accepts(k[1], DocOf[u])
    BY <1>1 DEF Accepts
<1>10. mem' \in [Devices -> SUBSET Updates]
    BY DEF KeepInv, TypeOK
<1>11. QED
    BY <1>1, <1>2, <1>4, <1>5, <1>6, <1>7, <1>8, <1>9, <1>10, StoreFlows

(* A version that is cached late is not fresh, and its document silent. *)
LEMMA FlowVersions ==
    ASSUME KeepInv, KeepInv', Settling, NEW d \in Devices, NEW doc \in Facts,
           ReadVersion(d, doc) \/ CacheVersion(d, doc)
    PROVE  Settling'
<1>1. UNCHANGED <<rows, disk, mem, tx, up, queue, dirty, wanted, wire>>
    BY DEF ReadVersion, CacheVersion, links
<1>2. TypeOK /\ disk[d] \subseteq mem[d] /\ \A e \in Devices : Showing(e) /\ Fresh(e)
    BY DEF KeepInv, Stored, Settling
<1>3. silent \subseteq silent'
    BY DEF ReadVersion, CacheVersion
<1>4. \A e \in Devices : Showing(e)'
    BY <1>1, <1>2, ShowingSame
<1>5. \A e \in Devices : Fresh(e)'
  <2>1. CASE ReadVersion(d, doc)
    <3>1. UNCHANGED <<digests, silent>>
        BY <2>1 DEF ReadVersion
    <3>2. QED
        BY <1>1, <1>2, <3>1 DEF Fresh
  <2>2. CASE CacheVersion(d, doc)
    <3>1. /\ \A e \in Devices, x \in Docs :
               e # d \/ x # doc => digests'[e][x] = digests[e][x]
          /\ digests'[d][doc] = late[d][doc]
          /\ late[d][doc] = Part(mem[d], doc) \/ <<d, doc>> \in silent'
        BY <1>2, <2>2 DEF CacheVersion, TypeOK, Facts
    <3>2. Part(disk[d], doc) \subseteq Part(mem[d], doc)
        BY <1>2 DEF Part
    <3>3. QED
        BY <1>1, <1>2, <1>3, <3>1, <3>2 DEF Fresh
  <2>3. QED
      BY <2>1, <2>2
<1>6. \A k \in up, u \in Updates : ~Lost(k, u)
    BY <1>1, <1>2, NothingLost DEF TypeOK, Queued
<1>7. \A k \in up, u \in Updates : Accepts(k[1], DocOf[u])' => Accepts(k[1], DocOf[u])
    BY <1>1 DEF Accepts
<1>8. mem' \in [Devices -> SUBSET Updates]
    BY DEF KeepInv, TypeOK
<1>9. QED
    BY <1>1, <1>3, <1>4, <1>5, <1>6, <1>7, <1>8, StoreFlows

(* What an export saves, it announces. *)
LEMMA FlowCommitExport ==
    ASSUME CalmInv, ~failed, KeepInv', Paired, Settling, NEW d \in Devices, CommitExport(d)
    PROVE  Settling'
<1>1. /\ tx[d].kind = "export"
      /\ disk' = [disk EXCEPT ![d] = mem[d]]
      /\ digests' = IF tx[d].save
                    THEN [digests EXCEPT ![d] =
                            [doc \in Docs |-> IF doc \in tx[d].doc THEN {} ELSE @[doc]]]
                    ELSE digests
      /\ dirty' = FanOut(d, IF tx[d].save THEN tx[d].doc ELSE {}, {})
      /\ tx' = [tx EXCEPT ![d] = NoTx]
      /\ UNCHANGED <<rows, mem, up, queue, wanted, wire, silent>>
      /\ ~tx[d].save => mem[d] = disk[d]
  <2>1. /\ tx[d].kind = "export" /\ Save(d) /\ UNCHANGED fallen
        /\ dirty' = FanOut(d, IF tx[d].save THEN tx[d].doc ELSE {}, {})
        /\ tx' = [tx EXCEPT ![d] = NoTx]
        /\ UNCHANGED <<rows, up, queue, wanted, wire, silent>>
      BY DEF CommitExport
  <2>2. ~tx[d].save => mem[d] = disk[d]
      BY CalmThen
  <2>3. QED
      BY <2>1, <2>2, CalmSave
<1>2. KeepInv /\ TypeOK /\ disk[d] \subseteq mem[d] /\ \A e \in Devices : Showing(e) /\ Fresh(e)
    BY DEF CalmInv, OneInv, KeepInv, Stored, Settling
<1>3. /\ disk'[d] = mem[d] /\ tx'[d] = NoTx /\ mem[d] \subseteq rows[d]
      /\ \A e \in Devices \ {d} : disk'[e] = disk[e] /\ tx'[e] = tx[e]
      /\ \A u \in mem[d] \ disk[d] : DocOf[u] \in tx[d].doc
  <2>1. disk'[d] = mem[d] /\ tx'[d] = NoTx
        /\ \A e \in Devices \ {d} : disk'[e] = disk[e] /\ tx'[e] = tx[e]
      BY <1>1, <1>2 DEF TypeOK
  <2>2. QED
      BY <1>1, <1>2, <2>1 DEF Showing
<1>4. \A e \in Devices \ {d} : Showing(e)'
    BY <1>1, <1>2, <1>3, OthersShowing
<1>5. Showing(d)'
    BY <1>1, <1>3 DEF Showing, NoTx
<1>6. \A e \in Devices : Fresh(e)'
  <2>1. \A e \in Devices \ {d} : digests'[e] = digests[e]
      BY <1>1, <1>2 DEF TypeOK
  <2>2. \A doc \in Docs : digests'[d][doc] =
           IF tx[d].save /\ doc \in tx[d].doc THEN {} ELSE digests[d][doc]
      BY <1>1, <1>2 DEF TypeOK
  <2>3. \A doc \in Docs : ~(tx[d].save /\ doc \in tx[d].doc)
                             => Part(disk'[d], doc) \subseteq Part(disk[d], doc)
      BY <1>1, <1>3 DEF Part, Of
  <2>4. \A doc \in Docs :
           \/ digests'[d][doc] = {}
           \/ digests'[d][doc] = digests[d][doc] /\ Part(disk'[d], doc) \subseteq Part(disk[d], doc)
      BY <2>2, <2>3
  <2>5. Fresh(d)'
      BY <1>1, <1>2, <2>4, FreshKept
  <2>6. QED
      BY <1>1, <1>2, <1>3, <2>1, <2>5 DEF Fresh
<1>7. \A k \in up, u \in Updates : ~Lost(k, u)
  <2>1. \A k \in Ends : dirty[k] \subseteq dirty'[k]
      BY <1>1 DEF FanOut
  <2>2. QED
      BY <1>1, <1>2, <2>1, NothingLost DEF TypeOK, Queued
<1>8. ASSUME NEW k \in up, NEW u \in Updates, u \in disk'[k[2]], u \notin disk[k[2]]
      PROVE  UnderWay(k, u)'
  <2>1. k \in Ends /\ Other(k) \in up /\ Other(k) \in Ends /\ Other(k)[1] = k[2] /\ k[2] \in Devices
      BY <1>2, EndsFacts DEF Paired, TypeOK
  <2>2. k[2] = d
      BY <1>3, <1>8, <2>1
  <2>3. u \in mem[d] \ disk[d]
      BY <1>3, <1>8, <2>2
  <2>4. DocOf[u] \in tx[d].doc /\ tx[d].save
      BY <1>1, <1>3, <2>3
  <2>5. dirty' = FanOut(d, tx[d].doc, {})
      BY <1>1, <2>4
  <2>6. DocOf[u] \in dirty'[Other(k)]
      BY <2>1, <2>2, <2>4, <2>5 DEF FanOut
  <2>7. QED
      BY <2>6 DEF UnderWay
<1>9. \A k \in up, u \in Updates : Accepts(k[1], DocOf[u])' => Accepts(k[1], DocOf[u])
    BY <1>1 DEF Accepts
<1>10. mem' \in [Devices -> SUBSET Updates]
    BY DEF KeepInv, TypeOK
<1>11. silent \subseteq silent' /\ \A e \in Devices : mem[e] \subseteq mem'[e]
    BY <1>1
<1>12. QED
    BY <1>1, <1>2, <1>4, <1>5, <1>6, <1>7, <1>8, <1>9, <1>10, <1>11, StoreFlows

(* An edit of a note is announced at once. *)
LEMMA FlowLocalNote ==
    ASSUME SyncAssumption, KeepInv, KeepInv', Paired, Settling, NEW v \in Updates, LocalEdit(v),
           DocOf[v] \in Notes
    PROVE  Settling'
<1> DEFINE d == Maker[v]
<1>1. /\ rows' = [rows EXCEPT ![d] = @ \cup {v}]
      /\ mem' = [mem EXCEPT ![d] = @ \cup {v}]
      /\ disk' = [disk EXCEPT ![d] = @ \cup {v}]
      /\ dirty' = FanOut(d, {DocOf[v]}, {})
      /\ UNCHANGED <<digests, tx, up, queue, wanted, wire, silent>>
    BY DEF LocalEdit
<1>2. TypeOK /\ d \in Devices /\ \A e \in Devices : Showing(e) /\ Fresh(e)
    BY DEF KeepInv, Settling, SyncAssumption
<1> HIDE DEF d
<1>3. /\ rows'[d] = rows[d] \cup {v} /\ mem'[d] = mem[d] \cup {v} /\ disk'[d] = disk[d] \cup {v}
      /\ \A e \in Devices \ {d} : rows'[e] = rows[e] /\ mem'[e] = mem[e] /\ disk'[e] = disk[e]
    BY <1>1, <1>2 DEF TypeOK
<1>4. \A e \in Devices : mem[e] \subseteq mem'[e] /\ rows[e] \subseteq rows'[e]
    BY <1>3
<1>5. \A e \in Devices \ {d} : Showing(e)'
    BY <1>1, <1>2, <1>3, <1>4, OthersShowing
<1>6. Showing(d)'
  <2>1. tx'[d] = tx[d] /\ \A f \in tx'[d].from : mem[f] \subseteq mem'[f]
    <3>1. tx[d] \in Tx
        BY <1>2 DEF TypeOK
    <3>2. tx[d].from \subseteq Devices
        BY <3>1 DEF Tx
    <3>3. QED
        BY <1>1, <1>4, <3>2
  <2>2. Showing(d) /\ {v} \subseteq rows'[d] /\ rows[d] \subseteq rows'[d]
      BY <1>2, <1>3
  <2>3. QED
      BY <1>2, <1>3, <2>1, <2>2, ShowingKept
<1>7. \A e \in Devices : Fresh(e)'
  <2>1. \A e \in Devices, doc \in Facts : Part(disk'[e], doc) = Part(disk[e], doc)
      BY <1>2, <1>3 DEF Part, Of, Facts
  <2>2. ASSUME NEW e \in Devices, NEW x \in Docs, digests'[e][x] # {}
        PROVE  x \in Facts /\ (<<e, x>> \in silent' \/ Part(disk'[e], x) \subseteq digests'[e][x])
    <3>1. Fresh(e) /\ digests[e][x] # {}
        BY <1>1, <1>2, <2>2
    <3>2. x \in Facts /\ (<<e, x>> \in silent \/ Part(disk[e], x) \subseteq digests[e][x])
        BY <3>1 DEF Fresh
    <3>3. QED
        BY <1>1, <2>1, <3>2
  <2>3. QED
      BY <2>2 DEF Fresh
<1>8. \A k \in up, u \in Updates : ~Lost(k, u)
  <2>1. \A k \in Ends : dirty[k] \subseteq dirty'[k]
      BY <1>1 DEF FanOut
  <2>2. QED
      BY <1>1, <1>2, <2>1, NothingLost DEF TypeOK, Queued
<1>9. ASSUME NEW k \in up, NEW u \in Updates, u \in disk'[k[2]], u \notin disk[k[2]]
      PROVE  UnderWay(k, u)'
  <2>1. k \in Ends /\ Other(k) \in up /\ Other(k) \in Ends /\ Other(k)[1] = k[2] /\ k[2] \in Devices
      BY <1>2, EndsFacts DEF Paired, TypeOK
  <2>2. k[2] = d /\ u = v
      BY <1>3, <1>9, <2>1
  <2>3. DocOf[u] \in dirty'[Other(k)]
      BY <1>1, <2>1, <2>2 DEF FanOut
  <2>4. QED
      BY <2>3 DEF UnderWay
<1>10. ASSUME NEW k \in up, NEW u \in Updates, Accepts(k[1], DocOf[u])'
       PROVE  Accepts(k[1], DocOf[u])
  <2>1. k[1] \in Devices
      BY <1>2, EndsFacts DEF TypeOK
  <2>2. CASE DocOf[u] \in Notes
    <3>1. Home[DocOf[u]] \in Docs \ Notes
        BY <2>2 DEF SyncAssumption
    <3>2. Part(rows'[k[1]], Home[DocOf[u]]) = Part(rows[k[1]], Home[DocOf[u]])
        BY <1>3, <2>1, <3>1 DEF Part, Of
    <3>3. QED
        BY <1>10, <2>2, <3>2 DEF Accepts
  <2>3. QED
      BY <2>2 DEF Accepts
<1>11. mem' \in [Devices -> SUBSET Updates]
    BY DEF KeepInv, TypeOK
<1>12. silent \subseteq silent'
    BY <1>1
<1>13. QED
    BY <1>1, <1>2, <1>4, <1>5, <1>6, <1>7, <1>8, <1>9, <1>10, <1>11, <1>12, StoreFlows

(* A recording that is created is not awaited by a note of another device. *)
LEMMA FlowLocalFact ==
    ASSUME SyncAssumption, KeepInv, KeepInv', Founded, \A e \in Devices : HomeThere(e), Settling,
           NEW v \in Updates, LocalEdit(v), DocOf[v] \notin Notes
    PROVE  Settling'
<1> DEFINE d == Maker[v]
<1>1. /\ rows' = [rows EXCEPT ![d] = @ \cup {v}]
      /\ v \in Creates \/ Part(rows[d], DocOf[v]) # {}
      /\ UNCHANGED <<mem, disk, dirty, digests, tx, up, queue, wanted, wire, silent>>
    BY DEF LocalEdit, Facts, SyncAssumption
<1>2. TypeOK /\ d \in Devices /\ \A e \in Devices : Showing(e) /\ Fresh(e)
    BY DEF KeepInv, Settling, SyncAssumption
<1> HIDE DEF d
<1>3. rows'[d] = rows[d] \cup {v} /\ \A e \in Devices \ {d} : rows'[e] = rows[e]
    BY <1>1, <1>2 DEF TypeOK
<1>4. \A e \in Devices : Showing(e)'
    BY <1>1, <1>2, <1>3, ShowingSame
<1>5. \A e \in Devices : Fresh(e)'
    BY <1>1, <1>2 DEF Fresh
<1>6. \A k \in up, u \in Updates : ~Lost(k, u)
    BY <1>1, <1>2, NothingLost DEF TypeOK, Queued
<1>7. ASSUME NEW k \in up, NEW u \in Updates, u \in mem[k[2]],
             Accepts(k[1], DocOf[u])', ~Accepts(k[1], DocOf[u])
      PROVE  FALSE
  <2> DEFINE home == Home[DocOf[u]]
  <2>1. k[1] \in Devices /\ k[2] \in Devices
      BY <1>2, EndsFacts DEF TypeOK
  <2>2. DocOf[u] \in Notes /\ Part(rows[k[1]], home) = {} /\ Part(rows'[k[1]], home) # {}
      BY <1>7 DEF Accepts
  <2>3. k[1] = d /\ DocOf[v] = home
      BY <1>3, <2>1, <2>2 DEF Part, Of
  <2>4. v \in Creates
      BY <1>1, <2>2, <2>3
  <2>5. Part(mem[k[2]], DocOf[u]) # {} /\ DocOf[u] \in Docs
      BY <1>7, <2>2 DEF Part, Of, SyncAssumption
  <2>6. Part(rows[k[2]], home) # {}
    <3>1. HomeThere(k[2])
        BY <2>1
    <3>2. QED
        BY <2>2, <2>5, <3>1 DEF HomeThere, Accepts
  <2>7. PICK w \in Creates : DocOf[w] = home /\ w \in rows[Maker[w]]
      BY <2>1, <2>2, <2>6 DEF Founded
  <2>8. Maker[w] = Maker[v]
      BY <2>2, <2>3, <2>4, <2>7 DEF SyncAssumption
  <2>9. w \in rows[k[1]] /\ w \in Updates
      BY <2>3, <2>7, <2>8 DEF d, SyncAssumption
  <2>10. w \in Part(rows[k[1]], home)
      BY <2>7, <2>9 DEF Part, Of
  <2>11. QED
      BY <2>2, <2>10
<1>8. mem' \in [Devices -> SUBSET Updates]
    BY DEF KeepInv, TypeOK
<1>9. silent \subseteq silent' /\ \A e \in Devices : mem[e] \subseteq mem'[e]
    BY <1>1
<1>10. QED
    BY <1>1, <1>4, <1>5, <1>6, <1>7, <1>8, <1>9, StoreFlows

(* An answer takes one message, and repeats a request that went stale.        *)
LEMMA AnswerFlows ==
    ASSUME SyncAssumption, TypeOK, NEW l \in Ends, NEW doc \in Docs,
           NEW q \in [Ends -> Seq(Outbound)], \A k \in Ends : Queued(k) \subseteq Range(q[k]),
           wire[Other(l)] # << >>, Incoming(l).type = "Update", Incoming(l).doc = {doc},
           Answered(l, doc, q), \A k \in Ends : dirty[k] \subseteq dirty'[k],
           Incoming(l).vers \subseteq mem'[l[1]] \/ ~Accepts(l[1], doc)'
    PROVE  /\ \A k \in up, u \in Updates : Lost(k, u) => UnderWay(k, u)' \/ u \in mem'[k[1]]
           /\ \A k \in Ends : Range(q[k]) \subseteq Queued(k)'
<1>1. /\ Answers(l, doc, q)
      /\ Only(wire, wire', Message, {Other(l)}) /\ Only(q, queue', Outbound, {l})
    BY AnsweredEffect
<1>2. /\ \A k \in Ends : Range(q[k]) \subseteq Queued(k)'
      /\ \A k \in Ends \ {Other(l)} : Sent(k)' = Sent(k)
      /\ Sent(Other(l)) \subseteq Sent(Other(l))' \cup {Incoming(l)}
      /\ \A k \in Ends, x \in Docs : k # l \/ x # doc => wanted'[k][x] = wanted[k][x]
  <2>1. queue'[l] = q[l] \/ Range(queue'[l]) = Range(q[l]) \cup {WantItem({doc})}
      BY <1>1 DEF Answers, Adds
  <2>2. \A k \in Ends : Range(q[k]) \subseteq Queued(k)'
      BY <1>1, <2>1 DEF Only, Queued
  <2>3. \A k \in Ends \ {Other(l)} : Sent(k)' = Sent(k)
      BY <1>1 DEF Only, Sent
  <2>4. Sent(Other(l)) \subseteq Sent(Other(l))' \cup {Incoming(l)}
      BY <1>1 DEF Answers, Takes, Sent
  <2>5. \A k \in Ends, x \in Docs : k # l \/ x # doc => wanted'[k][x] = wanted[k][x]
      BY <1>1 DEF Answers
  <2>6. QED
      BY <2>2, <2>3, <2>4, <2>5
<1>3. Other(l) \in Ends /\ Other(Other(l)) = l
    BY EndsFacts
<1>4. ASSUME NEW k \in up, NEW u \in Updates, Lost(k, u)
      PROVE  UnderWay(k, u)' \/ u \in mem'[k[1]]
  <2>1. k \in Ends /\ Other(k) \in Ends /\ (Other(k) = Other(l) => k = l) /\ DocOf[u] \in Docs
      BY <1>3, EndsFacts DEF TypeOK, SyncAssumption
  <2>2. \/ k = Other(l) /\ Pulls(Incoming(l), DocOf[u])
        \/ k = l /\ Brings(Incoming(l), u)
        \/ k = l /\ DocOf[u] = doc /\ wanted[l][doc] = "stale"
      BY <1>2, <1>4, <2>1 DEF Lost
  <2>3. ~Pulls(Incoming(l), DocOf[u])
      BY DEF Pulls
  <2>4. CASE k = l /\ Brings(Incoming(l), u)
    <3>1. DocOf[u] = doc /\ u \in Incoming(l).vers
        BY <2>4 DEF Brings
    <3>2. QED
        BY <2>4, <3>1 DEF UnderWay
  <2>5. CASE k = l /\ DocOf[u] = doc /\ wanted[l][doc] = "stale"
    <3>1. WantItem({doc}) \in Queued(l)'
        BY <1>1, <2>5 DEF Answers, Adds, Queued
    <3>2. Pulls(WantItem({doc}), DocOf[u])
        BY <2>5 DEF Pulls, WantItem, NoMessage
    <3>3. QED
        BY <2>5, <3>1, <3>2 DEF UnderWay, Pulls
  <2>6. QED
      BY <2>2, <2>3, <2>4, <2>5
<1>5. QED
    BY <1>2, <1>4

(* An empty answer brings nothing. *)
LEMMA FlowReadEmpty ==
    ASSUME SyncAssumption, KeepInv, KeepInv', Settling, NEW l \in Ends, ReadEmpty(l)
    PROVE  Settling'
<1>1. TypeOK /\ l[1] \in Devices /\ Shapes(Other(l)) /\ Other(l) \in Ends
      /\ \A d \in Devices : Showing(d) /\ Fresh(d)
    BY EndsFacts DEF KeepInv, Settling
<1>2. /\ wire[Other(l)] # << >> /\ Incoming(l).type = "Update" /\ Incoming(l).vers = {}
      /\ \E doc \in Incoming(l).doc : Answered(l, doc, queue)
      /\ UNCHANGED <<rows, disk, mem, digests, tx, up, dirty, silent>>
    BY DEF ReadEmpty, Reads, Incoming, store
<1>3. PICK doc \in Incoming(l).doc : Answered(l, doc, queue)
    BY <1>2
<1>4. doc \in Docs /\ Incoming(l).doc = {doc}
  <2>1. Incoming(l) \in Sent(Other(l))
      BY <1>1, <1>2, QueueTypes, TailRange DEF Incoming, Sent
  <2>2. QED
      BY <1>1, <1>2, <1>3, <2>1 DEF Shapes, OneDoc
<1>5. queue \in [Ends -> Seq(Outbound)] /\ \A k \in Ends : Queued(k) \subseteq Range(queue[k])
    BY <1>1 DEF TypeOK, Queued
<1>6. \A k \in up, u \in Updates : Lost(k, u) => UnderWay(k, u)' \/ u \in mem'[k[1]]
  <2>1. /\ \A k \in Ends : dirty[k] \subseteq dirty'[k]
        /\ Incoming(l).vers \subseteq mem'[l[1]] \/ ~Accepts(l[1], doc)'
      BY <1>2
  <2>2. QED
      BY <1>1, <1>2, <1>3, <1>4, <1>5, <2>1, AnswerFlows
<1>7. \A d \in Devices : Showing(d)' /\ Fresh(d)' /\ mem[d] \subseteq mem'[d]
  <2>1. \A d \in Devices : Showing(d)'
      BY <1>1, <1>2, ShowingSame
  <2>2. \A d \in Devices : Fresh(d)'
      BY <1>1, <1>2 DEF Fresh
  <2>3. QED
      BY <1>2, <2>1, <2>2
<1>8. \A k \in up, u \in Updates : Accepts(k[1], DocOf[u])' => Accepts(k[1], DocOf[u])
    BY <1>2 DEF Accepts
<1>9. mem' \in [Devices -> SUBSET Updates]
    BY DEF KeepInv, TypeOK
<1>10. QED
    BY <1>2, <1>6, <1>7, <1>8, <1>9, StoreFlows

(* What an import puts into memory its sender has. *)
LEMMA FlowBeginImport ==
    ASSUME SyncAssumption, CoverInv, KeepInv', Settling, ~failed, NEW l \in Ends, BeginImport(l)
    PROVE  Settling'
<1> DEFINE d == l[1]
           V == Incoming(l).vers
<1>1. PICK doc \in Facts :
         /\ doc \in Incoming(l).doc /\ V \subseteq Of(doc)
         /\ Pending(d, doc) \subseteq Part(rows[d], doc)
         /\ doc \notin changes[d] => Pending(d, doc) = {}
         /\ mem'[d] = (mem[d] \cup Pending(d, doc)) \cup V
         /\ \A e \in Devices \ {d} : mem'[e] = mem[e] /\ tx'[e] = tx[e]
         /\ tx'[d].kind = "import" /\ tx'[d].doc = {doc} /\ tx'[d].from = {l[2]}
         /\ tx'[d].local = (doc \in changes[d])
         /\ tx'[d].remote = ~(V \subseteq mem[d] \cup Pending(d, doc))
    BY CalmBeginImport DEF CoverInv
<1>2. /\ wire[Other(l)] # << >> /\ Incoming(l).type = "Update"
      /\ UNCHANGED <<rows, disk, digests, up, queue, dirty, wanted, wire, silent>>
    BY DEF BeginImport, Reads, Incoming, links
<1>3. /\ KeepInv /\ TypeOK /\ Said(Other(l))
      /\ \A e \in Devices : Showing(e) /\ Fresh(e)
      /\ d \in Devices /\ l[2] \in Devices /\ l[2] # d /\ Other(l) \in Ends /\ Other(l)[1] = l[2]
      /\ mem[d] = disk[d]
    BY EndsFacts, CalmBeginImport DEF CoverInv, CalmInv, OneInv, KeepInv, Honest, Settling
<1> HIDE DEF d
<1>4. V \subseteq Of(doc) /\ V \subseteq mem[l[2]]
  <2>1. Incoming(l) \in Sent(Other(l))
      BY <1>2, <1>3, QueueTypes, TailRange DEF Incoming, Sent
  <2>2. QED
      BY <1>1, <1>2, <1>3, <2>1 DEF Said
<1>5. Pending(d, doc) \subseteq Of(doc) /\ Pending(d, doc) \subseteq rows[d]
      /\ (doc \notin changes[d] => Pending(d, doc) = {})
    BY <1>1 DEF Part
<1> HIDE DEF V
<1>6. /\ mem'[d] = (mem[d] \cup Pending(d, doc)) \cup V
      /\ tx'[d].kind = "import" /\ tx'[d].doc = {doc} /\ tx'[d].from = {l[2]}
      /\ tx'[d].local = (doc \in changes[d])
      /\ tx'[d].remote = ~(V \subseteq mem[d] \cup Pending(d, doc))
      /\ \A e \in Devices \ {d} : mem'[e] = mem[e] /\ tx'[e] = tx[e]
      /\ mem[d] = disk[d]
    BY <1>1, <1>3
<1>7. \A e \in Devices : mem[e] \subseteq mem'[e]
    BY <1>6
<1>8. \A e \in Devices \ {d} : Showing(e)'
    BY <1>2, <1>3, <1>6, <1>7, OthersShowing
<1>9. Showing(d)'
  <2>1. disk[d] \subseteq rows[d] /\ disk' = disk /\ rows' = rows
      BY <1>2, <1>3 DEF Showing
  <2>2. \A u \in mem'[d] \ disk'[d] : DocOf[u] \in tx'[d].doc
    <3>1. \A u \in mem'[d] \ disk'[d] : u \in Of(doc)
        BY <1>4, <1>5, <1>6, <2>1
    <3>2. QED
        BY <1>6, <3>1 DEF Of
  <2>3. /\ ~tx'[d].local /\ ~tx'[d].remote => mem'[d] = disk'[d]
        /\ ~tx'[d].remote => mem'[d] \subseteq rows'[d]
      BY <1>5, <1>6, <2>1
  <2>4. ASSUME ~tx'[d].local, NEW e \in tx'[d].from
        PROVE  mem'[d] \ disk'[d] \subseteq mem'[e]
    <3>1. e = l[2] /\ mem'[e] = mem[l[2]]
        BY <1>3, <1>6, <2>4
    <3>2. mem'[d] \ disk'[d] \subseteq V
        BY <1>5, <1>6, <2>1, <2>4
    <3>3. QED
        BY <1>4, <3>1, <3>2
  <2>5. QED
      BY <1>6, <2>1, <2>2, <2>3, <2>4 DEF Showing
<1>10. \A e \in Devices : Fresh(e)'
    BY <1>2, <1>3 DEF Fresh
<1>11. \A k \in up, u \in Updates : ~Lost(k, u)
    BY <1>2, <1>3, NothingLost DEF TypeOK, Queued
<1>12. \A k \in up, u \in Updates : Accepts(k[1], DocOf[u])' => Accepts(k[1], DocOf[u])
    BY <1>2 DEF Accepts
<1>13. mem' \in [Devices -> SUBSET Updates]
    BY DEF KeepInv, TypeOK
<1>14. QED
    BY <1>2, <1>3, <1>7, <1>8, <1>9, <1>10, <1>11, <1>12, <1>13, StoreFlows

(* A note that is refused is not accepted. *)
LEMMA FlowRefuseNote ==
    ASSUME SyncAssumption, KeepInv, KeepInv', Settling, NEW l \in Ends, NEW doc \in Docs,
           wire[Other(l)] # << >>, Incoming(l).type = "Update", Incoming(l).doc = {doc},
           Answered(l, doc, queue), ~Accepts(l[1], doc),
           UNCHANGED <<rows, disk, mem, digests, tx, up, dirty, silent>>
    PROVE  Settling'
<1>1. TypeOK /\ \A d \in Devices : Showing(d) /\ Fresh(d)
    BY DEF KeepInv, Settling
<1>2. queue \in [Ends -> Seq(Outbound)] /\ \A k \in Ends : Queued(k) \subseteq Range(queue[k])
    BY <1>1 DEF TypeOK, Queued
<1>3. \A k \in up, u \in Updates : Accepts(k[1], DocOf[u])' => Accepts(k[1], DocOf[u])
    BY DEF Accepts
<1>4. ~Accepts(l[1], doc)'
    BY DEF Accepts
<1>5. \A k \in up, u \in Updates : Lost(k, u) => UnderWay(k, u)' \/ u \in mem'[k[1]]
  <2>1. \A k \in Ends : dirty[k] \subseteq dirty'[k]
      OBVIOUS
  <2>2. QED
      BY <1>1, <1>2, <1>4, <2>1, AnswerFlows
<1>6. \A d \in Devices : Showing(d)' /\ Fresh(d)' /\ mem[d] \subseteq mem'[d]
  <2>1. \A d \in Devices : Showing(d)'
      BY <1>1, ShowingSame
  <2>2. \A d \in Devices : Fresh(d)'
      BY <1>1 DEF Fresh
  <2>3. QED
      BY <2>1, <2>2
<1>7. mem' \in [Devices -> SUBSET Updates]
    BY DEF KeepInv, TypeOK
<1>8. QED
    BY <1>3, <1>5, <1>6, <1>7, StoreFlows

(* Merging(l, doc, V): the note document doc takes V and tells every link     *)
(* but the one it came from.                                                  *)
Merging(l, doc, V) ==
    LET d == l[1] IN
    /\ mem' = [mem EXCEPT ![d] = @ \cup V]
    /\ disk' = [disk EXCEPT ![d] = @ \cup V]
    /\ rows' = [rows EXCEPT ![d] = @ \cup V]
    /\ dirty' = IF V \subseteq mem[d] THEN dirty ELSE FanOut(d, {doc}, {l[2]})
    /\ UNCHANGED <<digests, tx, up, silent>>

(* A merged note is announced to all but its sender, who has it. *)
LEMMA FlowMergeNote ==
    ASSUME SyncAssumption, CoverInv, KeepInv', Paired, Settling, ~failed, NEW l \in Ends,
           NEW doc \in Notes,
           wire[Other(l)] # << >>, Incoming(l).type = "Update", Incoming(l).doc = {doc},
           Answered(l, doc, queue), Merging(l, doc, Incoming(l).vers)
    PROVE  Settling'
<1> DEFINE d == l[1]
           V == Incoming(l).vers
<1>1. /\ mem' = [mem EXCEPT ![d] = @ \cup V]
      /\ disk' = [disk EXCEPT ![d] = @ \cup V]
      /\ rows' = [rows EXCEPT ![d] = @ \cup V]
      /\ dirty' = IF V \subseteq mem[d] THEN dirty ELSE FanOut(d, {doc}, {l[2]})
      /\ UNCHANGED <<digests, tx, up, silent>>
    BY DEF Merging
<1>2. /\ KeepInv /\ TypeOK /\ Carried(Other(l)) /\ Said(Other(l)) /\ Shapes(Other(l))
      /\ \A e \in Devices : Showing(e) /\ Fresh(e)
      /\ d \in Devices /\ l[2] \in Devices /\ l[2] # d /\ Other(l) \in Ends /\ Other(l)[1] = l[2]
      /\ doc \in Docs /\ doc \notin Facts
    BY EndsFacts, CarriedThen DEF CoverInv, CalmInv, OneInv, KeepInv, Honest, Settling,
       SyncAssumption, Facts
<1>3. V \subseteq Of(doc) /\ V \subseteq mem[l[2]]
  <2>1. Incoming(l) \in Sent(Other(l))
      BY <1>2, QueueTypes, TailRange DEF Incoming, Sent
  <2>2. QED
      BY <1>2, <2>1 DEF Carried, Said
<1>4. /\ rows'[d] = rows[d] \cup V /\ mem'[d] = mem[d] \cup V /\ disk'[d] = disk[d] \cup V
      /\ \A e \in Devices \ {d} : rows'[e] = rows[e] /\ mem'[e] = mem[e] /\ disk'[e] = disk[e]
  <2> HIDE DEF d, V
  <2>1. QED
      BY <1>1, <1>2 DEF TypeOK
<1>5. \A k \in up, u \in Updates : Lost(k, u) => UnderWay(k, u)' \/ u \in mem'[k[1]]
  <2>1. V \subseteq mem'[d]
      BY <1>4
  <2>2. \A k \in Ends : dirty[k] \subseteq dirty'[k]
      BY <1>1 DEF FanOut
  <2>3. queue \in [Ends -> Seq(Outbound)] /\ \A k \in Ends : Queued(k) \subseteq Range(queue[k])
      BY <1>2 DEF TypeOK, Queued
  <2>4. QED
      BY <1>2, <2>1, <2>2, <2>3, AnswerFlows
<1> HIDE DEF d, V
<1>6. \A e \in Devices : mem[e] \subseteq mem'[e] /\ rows[e] \subseteq rows'[e]
    BY <1>4
<1>7. \A e \in Devices \ {d} : Showing(e)'
    BY <1>1, <1>2, <1>4, <1>6, OthersShowing
<1>8. Showing(d)'
  <2>1. tx'[d] = tx[d] /\ \A f \in tx'[d].from : mem[f] \subseteq mem'[f]
    <3>1. tx[d] \in Tx
        BY <1>2 DEF TypeOK
    <3>2. tx[d].from \subseteq Devices
        BY <3>1 DEF Tx
    <3>3. QED
        BY <1>1, <1>6, <3>2
  <2>2. Showing(d) /\ V \subseteq rows'[d] /\ rows[d] \subseteq rows'[d]
      BY <1>2, <1>4
  <2>3. QED
      BY <1>2, <1>4, <2>1, <2>2, ShowingKept
<1>9. \A e \in Devices : Fresh(e)'
  <2>1. \A e \in Devices, x \in Facts : Part(disk'[e], x) = Part(disk[e], x)
      BY <1>2, <1>3, <1>4 DEF Part, Of
  <2>2. ASSUME NEW e \in Devices, NEW x \in Docs, digests'[e][x] # {}
        PROVE  x \in Facts /\ (<<e, x>> \in silent' \/ Part(disk'[e], x) \subseteq digests'[e][x])
    <3>1. Fresh(e) /\ digests[e][x] # {}
        BY <1>1, <1>2, <2>2
    <3>2. x \in Facts /\ (<<e, x>> \in silent \/ Part(disk[e], x) \subseteq digests[e][x])
        BY <3>1 DEF Fresh
    <3>3. QED
        BY <1>1, <2>1, <3>2
  <2>3. QED
      BY <2>2 DEF Fresh
<1>10. ASSUME NEW k \in up, NEW u \in Updates, u \in disk'[k[2]], u \notin disk[k[2]],
              u \notin mem'[k[1]]
       PROVE  UnderWay(k, u)'
  <2>1. k \in Ends /\ Other(k) \in up /\ Other(k) \in Ends /\ Other(k)[1] = k[2]
        /\ Other(k)[2] = k[1] /\ k[2] \in Devices
      BY <1>2, EndsFacts DEF Paired, TypeOK
  <2>2. k[2] = d /\ u \in V
      BY <1>4, <1>10, <2>1
  <2>3. DocOf[u] = doc
      BY <1>3, <2>2 DEF Of
  <2>4. k[1] # l[2]
      BY <1>2, <1>3, <1>4, <1>10, <2>2
  <2>5. u \notin mem[d]
    <3>1. /\ \A x \in mem[d] \ disk[d] : DocOf[x] \in tx[d].doc
          /\ tx[d] \in Tx
        BY <1>2 DEF Showing, TypeOK
    <3>2. tx[d].doc \subseteq Facts
        BY <3>1 DEF Tx
    <3>3. QED
        BY <1>2, <1>10, <2>2, <2>3, <3>1, <3>2
  <2>6. dirty' = FanOut(d, {doc}, {l[2]})
      BY <1>1, <2>2, <2>5
  <2>7. DocOf[u] \in dirty'[Other(k)]
      BY <2>1, <2>2, <2>3, <2>4, <2>6 DEF FanOut
  <2>8. QED
      BY <2>7 DEF UnderWay
<1>11. ASSUME NEW k \in up, NEW u \in Updates, Accepts(k[1], DocOf[u])'
       PROVE  Accepts(k[1], DocOf[u])
  <2>1. k[1] \in Devices
      BY <1>2, EndsFacts DEF TypeOK
  <2>2. CASE DocOf[u] \in Notes
    <3>1. Home[DocOf[u]] # doc
        BY <2>2 DEF SyncAssumption
    <3>2. Part(rows'[k[1]], Home[DocOf[u]]) = Part(rows[k[1]], Home[DocOf[u]])
        BY <1>3, <1>4, <2>1, <3>1 DEF Part, Of
    <3>3. QED
        BY <1>11, <2>2, <3>2 DEF Accepts
  <2>3. QED
      BY <2>2 DEF Accepts
<1>12. mem' \in [Devices -> SUBSET Updates]
    BY DEF KeepInv, TypeOK
<1>13. silent \subseteq silent' /\ up' = up
    BY <1>1
<1>14. QED
    BY <1>2, <1>5, <1>6, <1>7, <1>8, <1>9, <1>10, <1>11, <1>12, <1>13, StoreFlows

(* read_loop on a note: merged or refused. *)
LEMMA FlowReadNote ==
    ASSUME SyncAssumption, CoverInv, KeepInv', Paired, Settling, ~failed, ~failed',
           NEW l \in Ends, ReadNote(l)
    PROVE  Settling'
<1>1. KeepInv /\ TypeOK /\ Shapes(Other(l)) /\ Other(l) \in Ends
    BY EndsFacts DEF CoverInv, CalmInv, OneInv, KeepInv
<1>2. /\ wire[Other(l)] # << >> /\ Incoming(l).type = "Update"
      /\ UNCHANGED <<digests, tx, up, silent>>
      /\ \E doc \in Incoming(l).doc \cap Notes :
           /\ Answered(l, doc, queue)
           /\ \/ Merging(l, doc, Incoming(l).vers)
              \/ ~Accepts(l[1], doc) /\ UNCHANGED <<mem, disk, rows, dirty>>
    BY DEF ReadNote, Reads, Incoming, Merging
<1>3. PICK doc \in Incoming(l).doc \cap Notes :
           /\ Answered(l, doc, queue)
           /\ \/ Merging(l, doc, Incoming(l).vers)
              \/ ~Accepts(l[1], doc) /\ UNCHANGED <<mem, disk, rows, dirty>>
    BY <1>2
<1>4. doc \in Docs /\ doc \in Notes /\ Incoming(l).doc = {doc}
  <2>1. Incoming(l) \in Sent(Other(l))
      BY <1>1, <1>2, QueueTypes, TailRange DEF Incoming, Sent
  <2>2. QED
      BY <1>1, <1>2, <1>3, <2>1 DEF Shapes, OneDoc, SyncAssumption
<1>5. CASE Merging(l, doc, Incoming(l).vers)
    BY <1>2, <1>3, <1>4, <1>5, FlowMergeNote
<1>6. CASE ~Accepts(l[1], doc) /\ UNCHANGED <<mem, disk, rows, dirty>>
    BY <1>1, <1>2, <1>3, <1>4, <1>6, FlowRefuseNote
<1>7. QED
    BY <1>3, <1>5, <1>6

(* What an import saves it announces to the others, or it is silent about it. *)
LEMMA FlowCommitImport ==
    ASSUME SyncAssumption, CoverInv, KeepInv', Paired, Settling, ~failed,
           NEW d \in Devices, CommitImport(d)
    PROVE  Settling'
<1>1. KeepInv /\ TypeOK /\ \A e \in Devices : Showing(e) /\ Fresh(e)
    BY DEF CoverInv, CalmInv, OneInv, KeepInv, Settling
<1>2. PICK doc \in Facts : tx[d].doc = {doc} /\ Merges(d, doc)
    BY CommitImportEffect DEF CoverInv
<1>3. /\ tx[d].kind = "import" /\ tx' = [tx EXCEPT ![d] = NoTx]
      /\ UNCHANGED <<mem, up>> /\ (~tx[d].save => mem[d] = disk[d])
      /\ tx[d].held \subseteq mem[d]
  <2>1. /\ tx[d].kind = "import" /\ Save(d) /\ UNCHANGED <<fallen, up>>
        /\ tx' = [tx EXCEPT ![d] = NoTx]
      BY DEF CommitImport
  <2>2. CalmInv
      BY DEF CoverInv
  <2>3. (~tx[d].save => mem[d] = disk[d]) /\ tx[d].held \subseteq mem[d]
    <3>1. /\ tx[d].held \subseteq mem[d]
          /\ mem[d] = disk[d] \cup (IF tx[d].save THEN tx[d].held ELSE {})
        BY <2>2, CalmThen
    <3>2. QED
        BY <3>1
  <2>4. mem' = mem
      BY <2>1, <2>2, CalmSave
  <2>5. QED
      BY <2>1, <2>3, <2>4
<1>4. doc \in Docs /\ doc \notin Notes /\ disk[d] \subseteq mem[d] /\ Importing(d)
    BY <1>1 DEF Facts, KeepInv, Stored
<1>5. /\ disk'[d] = mem[d] /\ tx'[d] = NoTx
      /\ rows'[d] = IF tx[d].remote THEN (rows[d] \ Of(doc)) \cup Part(mem[d], doc) ELSE rows[d]
      /\ \A e \in Devices \ {d} : disk'[e] = disk[e] /\ tx'[e] = tx[e] /\ rows'[e] = rows[e]
    BY <1>1, <1>2, <1>3 DEF TypeOK, Merges
<1>6. /\ disk[d] \subseteq rows[d]
      /\ \A u \in mem[d] \ disk[d] : DocOf[u] = doc
      /\ ~tx[d].local /\ ~tx[d].remote => mem[d] = disk[d]
      /\ ~tx[d].remote => mem[d] \subseteq rows[d]
      /\ ~tx[d].local => \A e \in tx[d].from : mem[d] \ disk[d] \subseteq mem[e]
    BY <1>1, <1>2, <1>3 DEF Showing
<1>7. \A e \in Devices \ {d} : Showing(e)'
  <2>1. \A e \in Devices : mem[e] \subseteq mem'[e]
      BY <1>3
  <2>2. \A e \in Devices \ {d} :
           mem'[e] = mem[e] /\ disk'[e] = disk[e] /\ tx'[e] = tx[e] /\ rows[e] \subseteq rows'[e]
      BY <1>3, <1>5
  <2>3. QED
      BY <1>1, <2>1, <2>2, OthersShowing
<1>8. Showing(d)'
  <2>1. mem[d] \subseteq rows'[d]
    <3>1. CASE ~tx[d].remote
        BY <1>5, <1>6, <3>1
    <3>2. CASE tx[d].remote
      <4>1. mem[d] \subseteq Updates
          BY <1>1 DEF TypeOK
      <4>2. \A u \in mem[d] : u \in Of(doc) \/ u \in disk[d]
          BY <1>6, <4>1 DEF Of
      <4>3. QED
          BY <1>5, <1>6, <3>2, <4>2 DEF Part
    <3>3. QED
        BY <3>1, <3>2
  <2>2. QED
      BY <1>3, <1>5, <2>1 DEF Showing, NoTx
<1>9. silent \subseteq silent'
    BY <1>2 DEF Merges
<1>10. \A e \in Devices : Fresh(e)'
  <2>1. /\ \A e \in Devices \ {d} : digests'[e] = digests[e]
        /\ \A x \in Docs : digests'[d][x] = {} \/ digests'[d][x] = digests[d][x]
        /\ digests'[d][doc] = {} \/ mem[d] = disk[d]
    <3>1. digests' = IF tx[d].save THEN [digests EXCEPT ![d][doc] = {}] ELSE digests
        BY <1>2 DEF Merges
    <3>2. CASE ~tx[d].save
        BY <1>3, <3>1, <3>2
    <3>3. CASE tx[d].save
        BY <1>1, <1>4, <3>1, <3>3 DEF TypeOK
    <3>4. QED
        BY <3>2, <3>3
  <2>2. \A x \in Docs :
           \/ digests'[d][x] = {}
           \/ digests'[d][x] = digests[d][x] /\ Part(disk'[d], x) \subseteq Part(disk[d], x)
    <3>1. \A x \in Docs : x # doc \/ mem[d] = disk[d] => Part(disk'[d], x) \subseteq Part(disk[d], x)
        BY <1>5, <1>6 DEF Part, Of
    <3>2. QED
        BY <2>1, <3>1
  <2>3. Fresh(d)'
      BY <1>1, <1>9, <2>2, FreshKept
  <2>4. QED
      BY <1>1, <1>5, <1>9, <2>1, <2>3 DEF Fresh
<1>11. PICK q : /\ q = IF tx[d].remote /\ Part(rows[d], doc) = {} THEN Refreshed(d) ELSE queue
                /\ \/ /\ tx[d].from = {} /\ queue' = q
                      /\ UNCHANGED <<wire, wanted, synced, dirty>>
                   \/ \E e \in tx[d].from :
                        /\ Answered(<<d, e>>, doc, q)
                        /\ dirty' = FanOut(d, IF tx[d].remote THEN {doc} ELSE {}, {e})
    BY <1>2 DEF Merges
<1>12. /\ q \in [Ends -> Seq(Outbound)]
       /\ \A k \in Ends : Queued(k) \subseteq Range(q[k])
       /\ tx[d].remote /\ Part(rows[d], doc) = {} =>
             \A k \in up : k[1] = d => RequestSummary \in Range(q[k])
  <2>1. CASE q = queue /\ ~(tx[d].remote /\ Part(rows[d], doc) = {})
      BY <1>1, <2>1 DEF TypeOK, Queued
  <2>2. CASE q = Refreshed(d)
    <3>1. /\ q \in [Ends -> Seq(Outbound)]
          /\ \A l \in Ends : IF l \in up /\ l[1] = d
                             THEN Adds(Outbound, queue[l], q[l], RequestSummary)
                             ELSE q[l] = queue[l]
        BY <1>1, <2>2, RefreshedEffect
    <3>2. \A k \in Ends : Queued(k) \subseteq Range(q[k])
                          /\ (k \in up /\ k[1] = d => RequestSummary \in Range(q[k]))
        BY <3>1 DEF Adds, Queued
    <3>3. up \subseteq Ends
        BY <1>1 DEF TypeOK
    <3>4. QED
        BY <3>1, <3>2, <3>3
  <2>3. QED
      BY <1>11, <2>1, <2>2
<1>13. /\ \A k \in up, u \in Updates : Lost(k, u) => UnderWay(k, u)' \/ u \in mem'[k[1]]
       /\ \A k \in Ends : Range(q[k]) \subseteq Queued(k)'
  <2>1. CASE queue' = q /\ UNCHANGED <<wire, wanted, dirty>>
    <3>1. /\ \A k \in Ends : dirty[k] \subseteq dirty'[k] /\ Queued(k) \subseteq Queued(k)'
          /\ up \subseteq Ends
        BY <1>1, <1>12, <2>1 DEF Queued, TypeOK
    <3>2. \A k \in up, u \in Updates : ~Lost(k, u)
        BY <2>1, <3>1, NothingLost
    <3>3. QED
        BY <2>1, <3>2 DEF Queued
  <2>2. ASSUME NEW e \in tx[d].from, Answered(<<d, e>>, doc, q),
               dirty' = FanOut(d, IF tx[d].remote THEN {doc} ELSE {}, {e})
        PROVE  /\ \A k \in up, u \in Updates : Lost(k, u) => UnderWay(k, u)' \/ u \in mem'[k[1]]
               /\ \A k \in Ends : Range(q[k]) \subseteq Queued(k)'
    <3>1. <<d, e>> \in Ends /\ Other(<<d, e>>) = <<e, d>> /\ <<d, e>>[1] = d
        BY <1>1, <1>4, <2>2, ImportEnd DEF Begun
    <3>2. /\ wire[<<e, d>>] # << >> /\ Head(wire[<<e, d>>]).type = "Update"
          /\ Head(wire[<<e, d>>]).doc = {doc} /\ Head(wire[<<e, d>>]).vers \subseteq mem[d]
        BY <1>2, <1>3, <1>4, <2>2 DEF Importing, Begun, Reading
    <3>3. /\ wire[Other(<<d, e>>)] # << >> /\ Incoming(<<d, e>>).type = "Update"
          /\ Incoming(<<d, e>>).doc = {doc} /\ Incoming(<<d, e>>).vers \subseteq mem'[<<d, e>>[1]]
        BY <1>3, <3>1, <3>2 DEF Incoming
    <3>4. \A k \in Ends : dirty[k] \subseteq dirty'[k]
        BY <2>2 DEF FanOut
    <3>5. QED
        BY <1>1, <1>4, <1>12, <2>2, <3>1, <3>3, <3>4, AnswerFlows
  <2>3. QED
      BY <1>11, <2>1, <2>2
<1>14. ASSUME NEW k \in up, NEW u \in Updates, u \in disk'[k[2]], u \notin disk[k[2]],
              u \notin mem'[k[1]]
       PROVE  UnderWay(k, u)'
  <2>1. k \in Ends /\ Other(k) \in up /\ Other(k) \in Ends /\ Other(k)[1] = k[2]
        /\ Other(k)[2] = k[1] /\ k[2] \in Devices
      BY <1>1, EndsFacts DEF Paired, TypeOK
  <2>2. k[2] = d /\ u \in mem[d] \ disk[d] /\ u \notin mem[k[1]]
      BY <1>3, <1>5, <1>14, <2>1
  <2>3. DocOf[u] = doc
      BY <1>6, <2>2
  <2>4. CASE tx[d].local \/ (tx[d].remote /\ tx[d].from = {})
    <3>1. <<d, doc>> \in silent'
        BY <1>2, <2>4 DEF Merges
    <3>2. QED
        BY <2>2, <2>3, <3>1 DEF UnderWay
  <2>5. CASE ~tx[d].local /\ ~(tx[d].remote /\ tx[d].from = {})
    <3>1. tx[d].remote /\ tx[d].from # {}
        BY <1>6, <2>2, <2>5
    <3>2. PICK e \in tx[d].from : dirty' = FanOut(d, {doc}, {e})
        BY <1>11, <3>1
    <3>3. k[1] # e
        BY <1>6, <2>2, <2>5, <3>2
    <3>4. DocOf[u] \in dirty'[Other(k)]
        BY <2>1, <2>2, <2>3, <3>2, <3>3 DEF FanOut
    <3>5. QED
        BY <3>4 DEF UnderWay
  <2>6. QED
      BY <2>4, <2>5
<1>15. ASSUME NEW k \in up, NEW u \in Updates,
              Accepts(k[1], DocOf[u])', ~Accepts(k[1], DocOf[u])
       PROVE  UnderWay(k, u)'
  <2>1. k \in Ends /\ k[1] \in Devices
      BY <1>1, EndsFacts DEF TypeOK
  <2>2. DocOf[u] \in Notes /\ Part(rows[k[1]], Home[DocOf[u]]) = {}
        /\ Part(rows'[k[1]], Home[DocOf[u]]) # {}
      BY <1>15 DEF Accepts
  <2>3. k[1] = d /\ tx[d].remote
      BY <1>5, <2>1, <2>2
  <2>4. Home[DocOf[u]] = doc
      BY <1>5, <2>2, <2>3 DEF Part, Of
  <2>5. RequestSummary \in Queued(k)'
      BY <1>12, <1>13, <2>1, <2>2, <2>3, <2>4
  <2>6. Pulls(RequestSummary, DocOf[u])
      BY Formed DEF Pulls
  <2>7. QED
      BY <2>5, <2>6 DEF UnderWay, Pulls
<1>16. mem' \in [Devices -> SUBSET Updates]
    BY DEF KeepInv, TypeOK
<1>17. \A e \in Devices : mem[e] \subseteq mem'[e]
    BY <1>3
<1>18. QED
    BY <1>1, <1>3, <1>7, <1>8, <1>9, <1>10, <1>13, <1>14, <1>15, <1>16, <1>17, StoreFlows

(* A new link starts with both summaries queued. *)
LEMMA FlowConnect ==
    ASSUME SyncAssumption, KeepInv, Settling, NEW p \in Pairs, Connect(p)
    PROVE  Settling'
<1>1. /\ EndsOfPair(p) \cap up = {} /\ up' = up \cup EndsOfPair(p)
      /\ queue' = [l \in Ends |-> IF l \in EndsOfPair(p) THEN <<SummaryItem>> ELSE queue[l]]
      /\ UNCHANGED <<rows, disk, mem, digests, tx, silent, wanted, wire, dirty>>
    BY DEF Connect, store
<1>2. TypeOK /\ \A e \in Devices : Showing(e) /\ Fresh(e)
    BY DEF KeepInv, Settling
<1>3. \A e \in Devices : Showing(e)' /\ Fresh(e)'
  <2>1. \A e \in Devices : Showing(e)'
      BY <1>1, <1>2, ShowingSame
  <2>2. QED
      BY <1>1, <1>2, <2>1 DEF Fresh
<1>4. /\ EndsOfPair(p) \subseteq Ends /\ up \subseteq Ends
      /\ \A l \in Ends : l \in EndsOfPair(p) <=> Other(l) \in EndsOfPair(p)
  <2>1. \A l \in Ends : {l[1], l[2]} = {Other(l)[1], Other(l)[2]}
      BY EndsFacts
  <2>2. QED
      BY <1>2, <2>1, EndsFacts DEF EndsOfPair, TypeOK
<1>5. ASSUME NEW k \in up, NEW u \in mem'[k[2]] \ mem'[k[1]]
      PROVE  UnderWay(k, u)'
  <2>1. UnderWay(k, u)
      BY <1>1 DEF Settling, Flowing
  <2>2. k \notin EndsOfPair(p) /\ Other(k) \notin EndsOfPair(p) /\ k \in Ends /\ Other(k) \in Ends
      BY <1>1, <1>4, EndsFacts
  <2>3. queue'[k] = queue[k] /\ queue'[Other(k)] = queue[Other(k)]
      BY <1>1, <2>2
  <2>4. ~Lost(k, u)
      BY <1>1, <2>3 DEF Lost, Queued, Sent
  <2>5. Accepts(k[1], DocOf[u])' => Accepts(k[1], DocOf[u])
      BY <1>1 DEF Accepts
  <2>6. QED
      BY <1>1, <2>1, <2>4, <2>5, GoesOn
<1>6. ASSUME NEW k \in EndsOfPair(p), NEW u
      PROVE  UnderWay(k, u)'
  <2>1. Other(k) \in EndsOfPair(p) /\ Other(k) \in Ends
      BY <1>4, EndsFacts
  <2>2. queue'[Other(k)] = <<SummaryItem>>
      BY <1>1, <2>1
  <2>3. SummaryItem \in Queued(Other(k))'
      BY <2>2 DEF Queued, Range
  <2>4. Gives(SummaryItem, DocOf[u])
      BY Formed DEF Gives
  <2>5. QED
      BY <2>3, <2>4 DEF UnderWay, Gives
<1>7. \A k \in up' : Flowing(k)'
    BY <1>1, <1>5, <1>6 DEF Flowing
<1>8. QED
    BY <1>3, <1>7 DEF Settling

(* What a device that goes on working knows, when some of its links close.    *)
Orphans(ends, gone) ==
    /\ \A e \in Devices : tx'[e] = IF e \in gone THEN NoTx ELSE Orphaned(tx[e], e, ends)
    /\ silent' = silent

(* What a closed link forgot is not missed by the others. *)
LEMMA FlowClosing ==
    ASSUME SyncAssumption, KeepInv, KeepInv', Settling, NEW ends, NEW gone,
           Closing(ends, gone), Orphans(ends, gone)
    PROVE  Settling'
<1>1. /\ ends \subseteq Ends /\ \A l \in ends : Other(l) \in ends
      /\ \A l \in Ends : l[1] \in gone => l \in ends
      /\ \A e \in Devices :
           IF e \in gone
           THEN mem'[e] = disk[e] /\ \A doc \in Docs : digests'[e][doc] = {}
           ELSE mem'[e] = mem[e] /\ digests'[e] = digests[e]
      /\ up' = up \ ends
      /\ \A k \in Ends \ ends : /\ queue'[k] = queue[k] /\ dirty'[k] = dirty[k]
                                /\ wanted'[k] = wanted[k] /\ wire'[k] = wire[k]
      /\ UNCHANGED <<rows, disk, silent>>
    BY DEF Closing, Close, Orphans
<1>2. TypeOK /\ \A e \in Devices : Showing(e) /\ Fresh(e) /\ Importing(e)
    BY DEF KeepInv, Settling
<1>3. ASSUME NEW e \in Devices
      PROVE  Showing(e)'
  <2>1. Showing(e) /\ tx[e] \in Tx
      BY <1>2 DEF TypeOK
  <2>2. CASE e \in gone
    <3>1. tx'[e] = NoTx /\ mem'[e] = disk'[e]
        BY <1>1, <2>2 DEF Orphans
    <3>2. QED
        BY <1>1, <2>1, <3>1 DEF Showing, NoTx
  <2>3. CASE e \notin gone
    <3>1. /\ tx'[e].kind = tx[e].kind /\ tx'[e].doc = tx[e].doc /\ tx'[e].local = tx[e].local
          /\ tx'[e].remote = tx[e].remote
          /\ tx'[e].from = {f \in tx[e].from : <<e, f>> \notin ends}
      <4> DEFINE left == {f \in tx[e].from : <<e, f>> \notin ends}
      <4>1. tx'[e] = [tx[e] EXCEPT !.from = left]
          BY <2>3 DEF Orphans, Orphaned
      <4> HIDE DEF left
      <4>2. /\ tx'[e].kind = tx[e].kind /\ tx'[e].doc = tx[e].doc /\ tx'[e].local = tx[e].local
            /\ tx'[e].remote = tx[e].remote /\ tx'[e].from = left
          BY <2>1, <4>1 DEF Tx
      <4>3. QED
          BY <4>2 DEF left
    <3>2. ASSUME NEW f \in tx'[e].from
          PROVE  mem'[f] = mem[f]
      <4>1. f \in tx[e].from /\ <<e, f>> \notin ends
          BY <3>1
      <4>2. <<e, f>> \in Ends /\ <<f, e>> \in Ends /\ Other(<<e, f>>) = <<f, e>>
            /\ Other(<<f, e>>) = <<e, f>>
          BY <1>2, <4>1, ImportEnd, EndsFacts DEF Begun
      <4>3. <<f, e>> \notin ends
          BY <1>1, <4>1, <4>2
      <4>4. f \notin gone /\ f \in Devices
        <5>1. <<f, e>>[1] = f
            OBVIOUS
        <5>2. QED
            BY <1>1, <4>2, <4>3, <5>1, EndsFacts
      <4>5. QED
          BY <1>1, <4>4
    <3>3. mem'[e] = mem[e] /\ disk'[e] = disk[e] /\ rows'[e] = rows[e]
        BY <1>1, <2>3
    <3>4. QED
        BY <2>1, <3>1, <3>2, <3>3 DEF Showing
  <2>4. QED
      BY <2>2, <2>3
<1>4. \A e \in Devices : Fresh(e)'
    BY <1>1, <1>2 DEF Fresh
<1>5. ASSUME NEW k \in up', NEW u \in mem'[k[2]] \ mem'[k[1]]
      PROVE  UnderWay(k, u)'
  <2>1. /\ k \in up /\ k \in Ends \ ends /\ Other(k) \in Ends \ ends
        /\ k[1] \in Devices /\ k[2] \in Devices /\ Other(k)[1] = k[2]
      BY <1>1, <1>2, EndsFacts DEF TypeOK
  <2>2. mem'[k[1]] = mem[k[1]] /\ mem'[k[2]] = mem[k[2]]
      BY <1>1, <2>1
  <2>3. UnderWay(k, u)
      BY <2>1, <2>2 DEF Settling, Flowing
  <2>4. ~Lost(k, u)
      BY <1>1, <2>1 DEF Lost, Queued, Sent
  <2>5. Accepts(k[1], DocOf[u])' => Accepts(k[1], DocOf[u])
      BY <1>1 DEF Accepts
  <2>6. QED
      BY <1>1, <2>3, <2>4, <2>5, GoesOn
<1>6. \A k \in up' : Flowing(k)'
    BY <1>5 DEF Flowing
<1>7. QED
    BY <1>3, <1>4, <1>6 DEF Settling

(* Both ends of a link come and go together. *)
LEMMA PairedStep ==
    ASSUME KeepInv, Paired, [Next]_vars
    PROVE  Paired'
<1>1. TypeOK
    BY DEF KeepInv
<1>2. CASE up' = up
    BY <1>2 DEF Paired
<1>3. ASSUME NEW p \in Pairs, Connect(p)
      PROVE  Paired'
  <2>1. \A l \in EndsOfPair(p) : Other(l) \in EndsOfPair(p)
    <3>1. \A l \in Ends : {l[1], l[2]} = {Other(l)[1], Other(l)[2]}
        BY EndsFacts
    <3>2. QED
        BY <3>1, EndsFacts DEF EndsOfPair
  <2>2. up' = up \cup EndsOfPair(p)
      BY <1>3 DEF Connect
  <2>3. QED
      BY <2>1, <2>2 DEF Paired
<1>4. ASSUME NEW ends, NEW gone, Closing(ends, gone)
      PROVE  Paired'
  <2>1. up' = up \ ends /\ \A l \in ends : Other(l) \in ends
      BY <1>4 DEF Closing, Close
  <2>2. \A l \in up : Other(Other(l)) = l
      BY <1>1, EndsFacts DEF TypeOK
  <2>3. QED
      BY <2>1, <2>2 DEF Paired
<1>5. ASSUME NEW d \in Devices, CommitImport(d)
      PROVE  up' = up
    BY <1>5 DEF CommitImport
<1>6. ASSUME NEW d \in Devices, Restart(d)
      PROVE  Paired'
  <2>1. Closing(EndsAt(d), {d})
      BY <1>1, <1>6, RestartCloses
  <2>2. QED
      BY <1>4, <2>1
<1>7. ASSUME NEW p \in Pairs, Break(p)
      PROVE  Paired'
  <2>1. Closing(EndsOfPair(p), {})
      BY <1>7, BreakCloses
  <2>2. QED
      BY <1>4, <2>1
<1>8. CASE StoreStep
  <2>1. up' = up
    <3>1. PICK d \in Devices :
            \/ CommitExport(d) \/ CommitImport(d) \/ RollBack(d) \/ EndFailure(d)
            \/ \E doc \in Facts : BeginExport(d, doc) \/ ReadVersion(d, doc) \/ CacheVersion(d, doc)
        BY <1>8 DEF StoreStep
    <3>2. CASE CommitExport(d) \/ RollBack(d) \/ EndFailure(d)
        BY <3>2 DEF CommitExport, RollBack, EndFailure, links
    <3>3. CASE \E doc \in Facts : BeginExport(d, doc) \/ ReadVersion(d, doc) \/ CacheVersion(d, doc)
        BY <3>3 DEF BeginExport, ReadVersion, CacheVersion, links
    <3>4. QED
        BY <1>5, <3>1, <3>2, <3>3
  <2>2. QED
      BY <1>2, <2>1
<1>9. CASE LinkStep
  <2>1. up' = up
      BY <1>9 DEF LinkStep, Writer, Reader, WriteQueued, WriteDirty, ReadSummary, ReadWant,
         ReadRequest, ReadEmpty, ReadNote, BeginImport, Tick, links
  <2>2. QED
      BY <1>2, <2>1
<1>10. CASE \E u \in Updates : LocalEdit(u)
  <2>1. up' = up
      BY <1>10 DEF LocalEdit
  <2>2. QED
      BY <1>2, <2>1
<1>11. CASE UNCHANGED vars
  <2>1. up' = up
      BY <1>11 DEF vars, links
  <2>2. QED
      BY <1>2, <2>1
<1>12. QED
    BY <1>3, <1>6, <1>7, <1>8, <1>9, <1>10, <1>11 DEF Next

(* Nothing happens. *)
LEMMA FlowStutter ==
    ASSUME Settling, UNCHANGED vars
    PROVE  Settling'
<1>1. UNCHANGED <<rows, disk, mem, digests, tx, up, queue, dirty, wanted, wire, silent>>
    BY DEF vars, store, links
<1>2. QED
    BY <1>1 DEF Settling, Showing, Fresh, Flowing, UnderWay, Accepts, Queued, Sent

(* Nothing is forgotten by a step that does not fail. *)
LEMMA SettlingStep ==
    ASSUME SyncAssumption, CoverInv, KeepInv', Founded, Paired, Settling, ~failed, ~failed',
           [Next]_vars
    PROVE  Settling'
<1>1. CalmInv /\ KeepInv /\ TypeOK /\ \A e \in Devices : HomeThere(e)
    BY DEF CoverInv, CalmInv, OneInv, KeepInv
<1>2. ASSUME NEW u \in Updates, LocalEdit(u)
      PROVE  Settling'
    BY <1>1, <1>2, FlowLocalNote, FlowLocalFact
<1>3. ASSUME NEW d \in Devices,
             \/ CommitExport(d) \/ CommitImport(d) \/ RollBack(d) \/ EndFailure(d)
             \/ \E doc \in Facts : BeginExport(d, doc) \/ ReadVersion(d, doc) \/ CacheVersion(d, doc)
      PROVE  Settling'
  <2>1. ~RollBack(d) /\ ~EndFailure(d)
      BY <1>1, NoFailure
  <2>2. QED
      BY <1>1, <1>3, <2>1, FlowCommitExport, FlowCommitImport, FlowBeginExport, FlowVersions
<1>4. ASSUME NEW l \in Ends, Writer(l) \/ Reader(l) \/ Tick(l)
      PROVE  Settling'
    BY <1>1, <1>4, FlowWriteQueued, FlowAnnouncing, FlowReadSummary, FlowReadWant,
       FlowReadEmpty, FlowReadNote, FlowBeginImport DEF Writer, Reader
<1>5. ASSUME NEW p \in Pairs, Break(p)
      PROVE  Settling'
  <2>1. Closing(EndsOfPair(p), {})
      BY <1>5, BreakCloses
  <2>2. Orphans(EndsOfPair(p), {})
      BY <1>5 DEF Break, Orphans
  <2>3. QED
      BY <1>1, <2>1, <2>2, FlowClosing
<1>6. ASSUME NEW d \in Devices, Restart(d)
      PROVE  Settling'
  <2>1. Closing(EndsAt(d), {d})
      BY <1>1, <1>6, RestartCloses
  <2>2. Orphans(EndsAt(d), {d})
      BY <1>6 DEF Restart, Orphans, EndsAt
  <2>3. QED
      BY <1>1, <2>1, <2>2, FlowClosing
<1>7. CASE UNCHANGED vars
    BY <1>7, FlowStutter
<1>8. ASSUME NEW p \in Pairs, Connect(p)
      PROVE  Settling'
    BY <1>1, <1>8, FlowConnect
<1>9. QED
    BY <1>2, <1>3, <1>4, <1>5, <1>6, <1>7, <1>8 DEF Next, StoreStep, LinkStep

(* Every step keeps it. *)
LEMMA QuietStep ==
    ASSUME SyncAssumption, QuietInv, [Next]_vars
    PROVE  QuietInv'
<1>1. /\ CoverInv /\ CalmInv /\ KeepInv /\ Paired
      /\ ~failed => Founded /\ Settling
    BY DEF QuietInv, CoverInv, CalmInv, OneInv
<1>2. CoverInv'
    BY <1>1, CoverStep
<1>3. CalmInv' /\ KeepInv'
    BY <1>2 DEF CoverInv, CalmInv, OneInv
<1>4. Paired'
    BY <1>1, PairedStep
<1>5. ~failed' => ~failed
    BY FailedStays
<1>6. ~failed' => Founded'
    BY <1>1, <1>3, <1>5, FoundedStep
<1>7. ~failed' => Settling'
    BY <1>1, <1>3, <1>5, SettlingStep
<1>8. QED
    BY <1>2, <1>4, <1>6, <1>7 DEF QuietInv

(* At the start nothing is known. *)
LEMMA QuietInit ==
    ASSUME SyncAssumption, Init
    PROVE  QuietInv
<1>1. CoverInv
    BY CoverInit
<1>2. \A d \in Devices : /\ rows[d] = {} /\ mem[d] = {} /\ disk[d] = {} /\ tx[d] = NoTx
                         /\ \A doc \in Docs : digests[d][doc] = {}
    BY DEF Init
<1>3. Founded
    BY <1>2 DEF Founded, Part
<1>4. up = {}
    BY DEF Init
<1>5. Paired
    BY <1>4 DEF Paired
<1>6. Settling
    BY <1>2, <1>4 DEF Settling, Showing, Fresh, NoTx
<1>7. QED
    BY <1>1, <1>3, <1>5, <1>6 DEF QuietInv

(* protocol.rs, "the peer is told of that document and pulls it": two ends    *)
(* with nothing queued, sent, wanted or to be exported have the same          *)
(* documents, but for those that the code saved without telling every link.   *)
THEOREM QuietMeansAgreed == Spec => []QuietLinksAgreeOnAnnounced
<1>1. Init => QuietInv
    BY SyncAssumption, QuietInit
<1>2. QuietInv /\ [Next]_vars => QuietInv'
    BY SyncAssumption, QuietStep
<1>3. QuietInv => QuietLinksAgreeOnAnnounced
    BY SyncAssumption, QuietMeans
<1>4. QED
    BY <1>1, <1>2, <1>3, PTL DEF Spec

(* What a link has said, asked and answered adds up: read_loop's pending map  *)
(* has one request or answer under way for every document it awaits, and a    *)
(* quiet link has left nothing out.                                           *)
THEOREM BooksBalance == Spec => []LinksAddUp
<1>1. OneRequestEach /\ QuietLinksAgreeOnAnnounced => LinksAddUp
    BY DEF LinksAddUp
<1>2. QED
    BY <1>1, OneRequest, QuietMeansAgreed, PTL
=============================================================================
