---------------------------- MODULE HistoryProofs ---------------------------
(***************************************************************************)
(* Proofs about what a turn is told of the turns before it: Continuity,    *)
(* for any number of turns, sources and messages and any budgets, and      *)
(* SessionEvidence, for any documents, limits and number of answers.       *)
(***************************************************************************)
EXTENDS Continuity, SessionEvidence, FiniteSetTheorems, SequenceTheorems, WellFoundedInduction, TLAPS

-----------------------------------------------------------------------------
(* Least and greatest numbers, and parts of sequences. *)

LEMMA Least == ASSUME NEW T, T \subseteq Nat, T # {} PROVE \E n \in T : \A m \in T : n <= m
<1>1. PICK x \in T : \A y \in T : ~(<<y, x>> \in OpToRel(<, Nat))
  BY WFMin, NatLessThanWellFounded
<1>2. \A y \in Nat : y < x => <<y, x>> \in OpToRel(<, Nat)
  BY Zenon DEF OpToRel
<1>3. \A y \in T : ~(y < x)
  BY <1>1, <1>2, Zenon
<1> QED  BY <1>3

LEMMA MinIs == ASSUME NEW T, T \subseteq Nat, T # {} PROVE Min(T) \in T /\ \A m \in T : Min(T) <= m
BY Least DEF Min

LEMMA MaxIs == ASSUME NEW n \in Nat, NEW T, T \subseteq 0..n, T # {} PROVE Max(T) \in T /\ \A m \in T : m <= Max(T)
<1> DEFINE U == {n - m : m \in T}
<1>1. U \subseteq Nat /\ U # {}
  <2>1. \A m \in T : m \in 0..n /\ n - m \in Nat
    OBVIOUS
  <2> QED  BY <2>1
<1>2. PICK u \in U : \A v \in U : u <= v
  BY <1>1, Least
<1>3. PICK m \in T : u = n - m
  OBVIOUS
<1>4. \A k \in T : m >= k
  <2> SUFFICES ASSUME NEW k \in T PROVE m >= k
    OBVIOUS
  <2>1. n - k \in U /\ k \in 0..n /\ m \in 0..n
    OBVIOUS
  <2>2. n - m <= n - k
    BY <1>2, <1>3, <2>1
  <2> QED  BY <2>1, <2>2
<1>5. \E x \in T : \A y \in T : x >= y
  BY <1>4
<1>6. Max(T) \in T /\ \A y \in T : Max(T) >= y
  BY <1>5 DEF Max
<1> DEFINE x == Max(T)
<1>7. x \in T /\ \A y \in T : x >= y
  BY <1>6
<1> HIDE DEF x
<1>8. \A y \in T : y \in Int /\ x \in Int
  <2>1. T \subseteq Int
    OBVIOUS
  <2> QED  BY <1>7, <2>1, Zenon
<1>9. \A y \in T : y <= x
  BY <1>7, <1>8
<1> QED  BY <1>7, <1>9 DEF x

LEMMA MinTwo == ASSUME NEW a \in Nat, NEW b \in Nat PROVE Min({a, b}) = IF a <= b THEN a ELSE b
<1>1. Min({a, b}) \in {a, b} /\ \A m \in {a, b} : Min({a, b}) <= m
  BY MinIs
<1> QED  BY <1>1

\* The messages from one to another.
LEMMA Part ==
    ASSUME NEW S, NEW s \in Seq(S), NEW m \in Nat \ {0}, NEW n \in Nat, n <= Len(s), m <= n + 1
    PROVE  /\ SubSeq(s, m, n) \in Seq(S) /\ Len(SubSeq(s, m, n)) = n - m + 1
           /\ \A i \in 1..(n - m + 1) : SubSeq(s, m, n)[i] = s[m + i - 1]
<1>1. \A i \in m..n : s[i] \in S
  OBVIOUS
<1> QED  BY <1>1, SubSeqProperties

\* A part of a part.
LEMMA PartOfPart ==
    ASSUME NEW S, NEW s \in Seq(S), NEW m \in Nat \ {0}, NEW n \in Nat, n <= Len(s), m <= n + 1,
           NEW p \in Nat \ {0}, NEW q \in Nat, q <= n - m + 1, p <= q + 1
    PROVE  SubSeq(SubSeq(s, m, n), p, q) = SubSeq(s, m + p - 1, m + q - 1)
<1> DEFINE t == SubSeq(s, m, n)
           a == SubSeq(t, p, q)
           b == SubSeq(s, m + p - 1, m + q - 1)
<1>1. t \in Seq(S) /\ Len(t) = n - m + 1 /\ \A i \in 1..(n - m + 1) : t[i] = s[m + i - 1]
  BY Part
<1>2. m + p - 1 \in Nat \ {0} /\ m + q - 1 \in Nat /\ m + q - 1 <= Len(s) /\ m + p - 1 <= (m + q - 1) + 1
      /\ (m + q - 1) - (m + p - 1) + 1 = q - p + 1
  OBVIOUS
<1>3. b \in Seq(S) /\ Len(b) = q - p + 1 /\ \A i \in 1..(q - p + 1) : b[i] = s[(m + p - 1) + i - 1]
  BY <1>2, Part
<1> HIDE DEF t, b
<1>4. a \in Seq(S) /\ Len(a) = q - p + 1 /\ \A i \in 1..(q - p + 1) : a[i] = t[p + i - 1]
  BY <1>1, Part
<1> HIDE DEF a
<1>5. \A i \in 1..(q - p + 1) : a[i] = b[i]
  <2> SUFFICES ASSUME NEW i \in 1..(q - p + 1) PROVE a[i] = b[i]
    OBVIOUS
  <2>1. p + i - 1 \in 1..(n - m + 1) /\ m + (p + i - 1) - 1 = (m + p - 1) + i - 1
    OBVIOUS
  <2> QED  BY <1>1, <1>3, <1>4, <2>1
<1>6. a = b
  BY <1>3, <1>4, <1>5, SeqEqual
<1> QED  BY <1>6 DEF a, b, t

-----------------------------------------------------------------------------
(* The rows. *)

MessageRow == [id : Nat \ {0}, role : {"user", "assistant"}, size : Sizes, source : Sources \cup {NoSource}]
EntryRow == [id : Nat, withheld : BOOLEAN]
SummaryRow == [covered : Nat, entries : SUBSET EntryRow]
BuildRow == [at : {"new", "summarizing", "delivered", "abandoned"}, all : Seq(MessageRow), tail : Seq(MessageRow),
             was : SummaryRow, row : SummaryRow, masked : SUBSET Nat, gone : SUBSET Sources, prefix : Seq(MessageRow), round : Nat,
             sel : Seq(MessageRow), incomplete : BOOLEAN]

\* Messages in the order of their ids.
Rising(s) == \A i, j \in 1..Len(s) : i < j => s[i].id < s[j].id

-----------------------------------------------------------------------------
(* Selection. *)

LEMMA IdsOf == ASSUME NEW s \in Seq(MessageRow) PROVE \A x : x \in Ids(s) <=> \E i \in 1..Len(s) : x = s[i].id
BY DEF Ids

\* What is recent is an end of the messages, and not longer than the ceiling, or a single one.
LEMMA RecentIs ==
    ASSUME NEW s \in Seq(MessageRow), s # << >>, NEW budget \in Nat, NEW ceiling \in Nat
    PROVE  \E k \in 1..Len(s) : /\ SelectRecent(s, budget, ceiling) = SubSeq(s, k, Len(s))
                                /\ Len(s) - k + 1 <= ceiling \/ k = Len(s)
<1> DEFINE len == Len(s)
           fits == {k \in 1..len : k = 1 \/ (Tokens(LastN(s, k)) <= budget /\ k <= ceiling)}
           f == Max(fits)
           m == len - f + 1
           kept == SubSeq(s, m, len)
           starts == {i \in DOMAIN kept : i = Len(kept) \/ kept[i].role = "user"}
           p == Min(starts)
<1>1. len \in Nat /\ len >= 1
  OBVIOUS
<1>2. fits \subseteq 0..len /\ 1 \in fits
  BY <1>1
<1>3. f \in fits
  <2> HIDE DEF fits, len
  <2> QED  BY <1>1, <1>2, MaxIs
<1>4. f \in 1..len /\ (f = 1 \/ f <= ceiling)
  BY <1>3
<1> HIDE DEF f, fits
<1>5. m \in Nat \ {0} /\ m <= len /\ len - m + 1 = f /\ m <= len + 1
  BY <1>1, <1>4
<1>6. kept \in Seq(MessageRow) /\ Len(kept) = f /\ DOMAIN kept = 1..f
  <2>1. kept \in Seq(MessageRow) /\ Len(kept) = len - m + 1
    BY <1>1, <1>5, Part
  <2> HIDE DEF kept
  <2> QED  BY <1>5, <2>1
<1> HIDE DEF m
<1>7. starts \subseteq Nat /\ f \in starts
  <2> HIDE DEF kept
  <2> QED  BY <1>4, <1>6
<1>8. p \in starts
  <2> HIDE DEF starts
  <2> QED  BY <1>7, MinIs
<1>9. p \in 1..f
  <2> HIDE DEF p, kept
  <2> QED  BY <1>6, <1>8
<1> HIDE DEF p
<1>10. SubSeq(kept, p, Len(kept)) = SubSeq(s, m + p - 1, len)
  <2>1. SubSeq(SubSeq(s, m, len), p, f) = SubSeq(s, m + p - 1, m + f - 1)
    <3> HIDE DEF len
    <3>1. p \in Nat \ {0} /\ f \in Nat /\ f <= len - m + 1 /\ p <= f + 1
      BY <1>1, <1>4, <1>5, <1>9
    <3> QED  BY <1>1, <1>5, <3>1, PartOfPart DEF len
  <2>2. m + f - 1 = len
    BY <1>1, <1>4, <1>5
  <2> QED  BY <1>6, <2>1, <2>2
<1>11. SelectRecent(s, budget, ceiling) = SubSeq(kept, p, Len(kept))
  <2>1. LastN(s, f) = kept
    BY DEF LastN, m
  <2>2. kept # << >>
    <3> HIDE DEF kept
    <3> QED  BY <1>4, <1>6
  <2> HIDE DEF kept, starts
  <2>3. SelectRecent(s, budget, ceiling) =
          LET k == IF s = << >> THEN s ELSE LastN(s, Max(fits))
              st == {i \in DOMAIN k : i = Len(k) \/ k[i].role = "user"}
          IN  IF k = << >> THEN k ELSE SubSeq(k, Min(st), Len(k))
    BY DEF SelectRecent, fits, len
  <2> QED  BY <2>1, <2>2, <2>3 DEF f, p, starts
<1>12. m + p - 1 \in 1..len /\ (len - (m + p - 1) + 1 <= ceiling \/ m + p - 1 = len)
  BY <1>1, <1>4, <1>5, <1>9
<1> QED  BY <1>10, <1>11, <1>12

\* What lies after the covered message is the end of the messages with greater ids.
LEMMA AfterIs ==
    ASSUME NEW s \in Seq(MessageRow), Rising(s), NEW covered \in Nat
    PROVE  \E k \in 1..(Len(s) + 1) :
              /\ AfterCovered(s, covered) = SubSeq(s, k, Len(s))
              /\ \A i \in 1..Len(s) : i < k <=> s[i].id <= covered
<1> DEFINE later == {i \in DOMAIN s : s[i].id > covered}
           len == Len(s)
<1>0. \A i \in 1..len : s[i] \in MessageRow
  OBVIOUS
<1>1. len \in Nat /\ DOMAIN s = 1..len /\ \A i \in 1..len : s[i].id \in Nat
  BY <1>0 DEF MessageRow
<1>2. CASE later = {}
  <2>1. AfterCovered(s, covered) = << >>
    BY <1>2 DEF AfterCovered
  <2>2. SubSeq(s, len + 1, len) = << >>
    <3>1. SubSeq(s, len + 1, len) \in Seq(MessageRow) /\ Len(SubSeq(s, len + 1, len)) = len - (len + 1) + 1
      BY <1>1, Part
    <3> HIDE DEF len
    <3> DEFINE t == SubSeq(s, len + 1, len)
    <3>2. t \in Seq(MessageRow) /\ Len(t) = 0
      BY <1>1, <3>1
    <3> HIDE DEF t
    <3>3. t = << >>
      BY <3>2
    <3> QED  BY <3>3 DEF t
  <2>3. \A i \in 1..len : i < len + 1 /\ s[i].id <= covered
    BY <1>1, <1>2
  <2> QED  BY <1>1, <2>1, <2>2, <2>3
<1>3. CASE later # {}
  <2> DEFINE k == Min(later)
  <2>1. k \in later /\ \A i \in later : k <= i
    <3>1. later \subseteq Nat
      BY <1>1
    <3> HIDE DEF later
    <3> QED  BY <1>3, <3>1, MinIs
  <2>2. AfterCovered(s, covered) = SubSeq(s, k, Len(s))
    BY <1>3 DEF AfterCovered
  <2> HIDE DEF k
  <2>3. k \in 1..len /\ s[k].id > covered
    BY <1>1, <2>1
  <2>4. ASSUME NEW i \in 1..len PROVE i < k <=> s[i].id <= covered
    <3>1. CASE i < k
      BY <1>1, <2>1, <2>3, <3>1
    <3>2. CASE ~(i < k)
      <4>1. i = k \/ s[k].id < s[i].id
        BY <1>1, <2>3, <3>2 DEF Rising
      <4> QED  BY <1>1, <2>3, <3>2, <4>1
    <3> QED  BY <3>1, <3>2
  <2> QED  BY <1>1, <2>2, <2>3, <2>4
<1> QED  BY <1>2, <1>3

\* The ids of an end of the messages.
LEMMA EndIds ==
    ASSUME NEW s \in Seq(MessageRow), NEW k \in 1..Len(s)
    PROVE  LET e == SubSeq(s, k, Len(s))
           IN  /\ e \in Seq(MessageRow) /\ Len(e) = Len(s) - k + 1 /\ e # << >>
               /\ \A i \in 1..Len(e) : e[i] = s[k + i - 1]
               /\ \A i \in k..Len(s) : s[i].id \in Ids(e)
               /\ \A i \in 1..Len(e) : \E j \in k..Len(s) : e[i] = s[j]
               /\ Rising(s) => Rising(e)
<1> DEFINE len == Len(s)
           e == SubSeq(s, k, len)
<1>1. k \in Nat \ {0} /\ len \in Nat /\ k <= len
  OBVIOUS
<1>2. e \in Seq(MessageRow) /\ Len(e) = len - k + 1 /\ \A i \in 1..(len - k + 1) : e[i] = s[k + i - 1]
  BY <1>1, Part
<1> HIDE DEF e
<1>3. Len(e) >= 1 /\ e # << >>
  BY <1>1, <1>2
<1>4. ASSUME NEW i \in k..len PROVE s[i].id \in Ids(e)
  <2>1. i - k + 1 \in 1..Len(e) /\ k + (i - k + 1) - 1 = i
    BY <1>1, <1>2
  <2>2. e[i - k + 1] = s[i]
    BY <1>2, <2>1
  <2> QED  BY <1>2, <2>1, <2>2, IdsOf
<1>5. ASSUME NEW i \in 1..Len(e) PROVE k + i - 1 \in k..len /\ e[i] = s[k + i - 1]
  <2>1. i \in 1..(len - k + 1)
    BY <1>2, <1>5
  <2>2. k + i - 1 \in k..len
    <3> HIDE DEF len
    <3> QED  BY <1>1, <2>1
  <2> QED  BY <1>2, <2>1, <2>2, Zenon
<1>6. ASSUME Rising(s) PROVE Rising(e)
  <2> SUFFICES ASSUME NEW i \in 1..Len(e), NEW j \in 1..Len(e), i < j PROVE e[i].id < e[j].id
    BY DEF Rising
  <2>1. e[i] = s[k + i - 1] /\ e[j] = s[k + j - 1] /\ k + i - 1 \in 1..len /\ k + j - 1 \in 1..len /\ k + i - 1 < k + j - 1
    BY <1>1, <1>2, <1>5
  <2> QED  BY <1>6, <2>1 DEF Rising
<1> QED  BY <1>2, <1>3, <1>4, <1>5, <1>6 DEF e

\* The tail is the end of the transcript, as long as the limit or all of it.
LEMMA TailIs ==
    ASSUME NEW s \in Seq(MessageRow), s # << >>
    PROVE  \E k \in 1..Len(s) :
              /\ Tail65(s) = SubSeq(s, k, Len(s))
              /\ k = 1 \/ Len(s) - k + 1 = TailLimit
<1> DEFINE len == Len(s)
           n == Min({len, TailLimit})
<1>1. len \in Nat /\ len >= 1 /\ TailLimit \in Nat /\ TailLimit >= 1
  BY ContinuityAssumption
<1>2. n = IF len <= TailLimit THEN len ELSE TailLimit
  BY <1>1, MinTwo
<1>3. Tail65(s) = SubSeq(s, len - n + 1, len)
  BY DEF Tail65, LastN
<1> HIDE DEF n
<1>4. len - n + 1 \in 1..len /\ (len - n + 1 = 1 \/ len - (len - n + 1) + 1 = TailLimit)
  BY <1>1, <1>2
<1> QED  BY <1>3, <1>4

LEMMA TailShort == ASSUME NEW s \in Seq(MessageRow), s # << >> PROVE Len(Tail65(s)) <= TailLimit
<1> DEFINE len == Len(s)
           n == Min({len, TailLimit})
<1>1. len \in Nat /\ len >= 1 /\ TailLimit \in Nat /\ TailLimit >= 1
  BY ContinuityAssumption
<1>2. n = IF len <= TailLimit THEN len ELSE TailLimit
  BY <1>1, MinTwo
<1>3. Tail65(s) = SubSeq(s, len - n + 1, len)
  BY DEF Tail65, LastN
<1> HIDE DEF n
<1>4. len - n + 1 \in 1..len /\ len - (len - n + 1) + 1 <= TailLimit
  BY <1>1, <1>2
<1>5. Len(SubSeq(s, len - n + 1, len)) = len - (len - n + 1) + 1
  BY <1>1, <1>4, EndIds
<1> QED  BY <1>3, <1>4, <1>5

\* Covering up to a message separates no message of the user from its reply.
Whole(s, covered) ==
    \A i \in 1..(Len(s) - 1) : s[i].id = covered => ~(s[i].role = "user" /\ s[i + 1].role = "assistant")

\* Everything the compaction reads of the transcript.
LEMMA PrefixIs ==
    ASSUME NEW s \in Seq(MessageRow), s # << >>, Rising(s), NEW covered \in Nat, NEW protected, s[Len(s)].id \in protected,
           Prefix(s, covered, protected) # << >>
    PROVE  LET p == Prefix(s, covered, protected)
           IN  /\ p \in Seq(MessageRow) /\ p[Len(p)].id < s[Len(s)].id /\ p[Len(p)].id \in Nat
               /\ Whole(s, p[Len(p)].id)
<1> DEFINE len == Len(s)
           after == AfterCovered(s, covered)
           m == Min({Len(after), TailLimit})
           read == SubSeq(after, 1, m)
           ok(n) == /\ Ids(SubSeq(read, 1, n)) \cap protected = {}
                    /\ Tokens(SubSeq(read, 1, n)) <= PrefixBudget
                    /\ read[1].role = "user"
           good == {0} \cup {n \in 1..Len(read) : ok(n)}
           n == Max(good)
           cut == SubSeq(read, 1, n)
           p == WholeTurns(cut)
<1>1. len \in Nat /\ len >= 1 /\ TailLimit \in Nat
  BY ContinuityAssumption
<1>2. PICK k \in 1..(len + 1) : after = SubSeq(s, k, len)
  BY AfterIs
<1>3. after \in Seq(MessageRow) /\ Len(after) = len - k + 1
  BY <1>1, <1>2, Part
<1> HIDE DEF after
<1>4. m \in Nat /\ m <= Len(after) /\ m <= len - k + 1
  BY <1>1, <1>3, MinTwo
<1> HIDE DEF m
<1>5. read = SubSeq(s, k, k + m - 1)
  <2>1. SubSeq(SubSeq(s, k, len), 1, m) = SubSeq(s, k + 1 - 1, k + m - 1)
    <3> HIDE DEF len
    <3> QED  BY <1>1, <1>2, <1>4, PartOfPart DEF len
  <2>2. k + 1 - 1 = k
    OBVIOUS
  <2> QED  BY <1>2, <2>1, <2>2
<1>6. read \in Seq(MessageRow) /\ Len(read) = m
  BY <1>1, <1>3, <1>4, Part
<1>7. Prefix(s, covered, protected) = p
  BY DEF Prefix, after, m
<1> HIDE DEF read
<1>8. n \in good
  <2>1. good \subseteq 0..m /\ good # {}
    BY <1>4, <1>6
  <2> HIDE DEF good
  <2> QED  BY <1>4, <2>1, MaxIs
<1>9. n \in 0..m
  <2> HIDE DEF n
  <2> QED  BY <1>4, <1>6, <1>8
<1>10. n # 0 => Ids(cut) \cap protected = {}
  <2> HIDE DEF n
  <2> QED  BY <1>8
<1> HIDE DEF n, good
<1>11. cut \in Seq(MessageRow) /\ Len(cut) = n /\ \A i \in 1..n : cut[i] = s[k + i - 1]
  <2>1. cut = SubSeq(s, k, k + n - 1)
    <3>1. k \in Nat \ {0} /\ k + m - 1 \in Nat /\ k + m - 1 <= len /\ k <= (k + m - 1) + 1
          /\ n \in Nat /\ n <= (k + m - 1) - k + 1 /\ 1 <= n + 1
      BY <1>1, <1>4, <1>9
    <3>2. SubSeq(SubSeq(s, k, k + m - 1), 1, n) = SubSeq(s, k + 1 - 1, k + n - 1)
      <4>1. 1 \in Nat \ {0}
        OBVIOUS
      <4> QED  BY <3>1, <4>1, PartOfPart
    <3>3. k + 1 - 1 = k
      OBVIOUS
    <3> QED  BY <1>5, <3>2, <3>3
  <2>2. k \in Nat \ {0} /\ k + n - 1 \in Nat /\ k + n - 1 <= len /\ k <= (k + n - 1) + 1 /\ (k + n - 1) - k + 1 = n
    BY <1>1, <1>4, <1>9
  <2>3. SubSeq(s, k, k + n - 1) \in Seq(MessageRow) /\ Len(SubSeq(s, k, k + n - 1)) = (k + n - 1) - k + 1
        /\ \A i \in 1..((k + n - 1) - k + 1) : SubSeq(s, k, k + n - 1)[i] = s[k + i - 1]
    BY <2>2, Part
  <2> HIDE DEF cut
  <2> QED  BY <2>1, <2>2, <2>3
<1> HIDE DEF cut
<1>12. cut # << >> /\ n >= 1
  <2>1. cut = << >> => p = << >>
    BY DEF WholeTurns
  <2> QED  BY <1>7, <1>9, <1>11, <2>1
<1>13. k + n - 1 < len /\ k + n - 1 >= 1
  <2>1. cut[n].id \in Ids(cut) /\ cut[n] = s[k + n - 1]
    BY <1>9, <1>11, <1>12, IdsOf
  <2>2. s[k + n - 1].id \notin protected
    BY <1>9, <1>10, <1>12, <2>1
  <2>3. k + n - 1 # len
    BY <2>2
  <2>4. k + n - 1 <= len /\ k + n - 1 >= 1
    BY <1>1, <1>4, <1>9, <1>12
  <2> QED  BY <1>1, <1>9, <2>3, <2>4
\* The place of the last message that is covered.
<1>14. \E e \in 1..(len - 1) : /\ p \in Seq(MessageRow) /\ Len(p) >= 1 /\ p[Len(p)] = s[e]
                               /\ s[e].role = "assistant" \/ s[e + 1].role = "user"
  <2>1. CASE cut[n].role = "user"
    <3>1. p = SubSeq(cut, 1, n - 1)
      BY <1>11, <1>12, <2>1 DEF WholeTurns, Front
    <3>2. p \in Seq(MessageRow) /\ Len(p) = n - 1 /\ \A i \in 1..(n - 1) : p[i] = cut[i]
      <4>1. SubSeq(cut, 1, n - 1) \in Seq(MessageRow) /\ Len(SubSeq(cut, 1, n - 1)) = (n - 1) - 1 + 1
            /\ \A i \in 1..((n - 1) - 1 + 1) : SubSeq(cut, 1, n - 1)[i] = cut[1 + i - 1]
        <5>1. n - 1 \in Nat /\ n - 1 <= Len(cut) /\ 1 <= (n - 1) + 1 /\ 1 \in Nat \ {0}
          BY <1>9, <1>11, <1>12
        <5> QED  BY <1>11, <5>1, Part
      <4>2. (n - 1) - 1 + 1 = n - 1 /\ \A i \in 1..(n - 1) : 1 + i - 1 = i
        BY <1>9
      <4> HIDE DEF p
      <4> QED  BY <3>1, <4>1, <4>2
    <3> HIDE DEF p
    <3>3. n - 1 >= 1
      <4>1. Len(p) # 0
        BY <1>7, <3>2
      <4> QED  BY <1>9, <1>12, <3>2, <4>1
    <3> DEFINE e == k + n - 2
    <3>4. e \in 1..(len - 1) /\ n - 1 \in 1..n /\ n - 1 \in 1..(n - 1) /\ k + (n - 1) - 1 = e /\ e + 1 = k + n - 1
      BY <1>1, <1>9, <1>13, <3>3
    <3>5. p[n - 1] = s[e] /\ cut[n] = s[e + 1]
      <4>1. cut[n - 1] = s[k + (n - 1) - 1] /\ cut[n] = s[k + n - 1]
        BY <1>9, <1>11, <1>12, <3>4
      <4> QED  BY <3>2, <3>4, <4>1
    <3> HIDE DEF e
    <3> QED  BY <2>1, <3>2, <3>3, <3>4, <3>5
  <2>2. CASE cut[n].role # "user"
    <3>1. p = cut
      BY <1>11, <2>2 DEF WholeTurns
    <3>2. cut[n] \in MessageRow /\ cut[n] = s[k + n - 1]
      BY <1>9, <1>11, <1>12
    <3>3. s[k + n - 1].role = "assistant" /\ k + n - 1 \in 1..(len - 1)
      BY <1>1, <1>9, <1>13, <2>2, <3>2 DEF MessageRow
    <3> HIDE DEF p
    <3> QED  BY <1>11, <1>12, <3>1, <3>2, <3>3
  <2> QED  BY <2>1, <2>2
<1> HIDE DEF p
<1>15. PICK e \in 1..(len - 1) : /\ p \in Seq(MessageRow) /\ Len(p) >= 1 /\ p[Len(p)] = s[e]
                                 /\ s[e].role = "assistant" \/ s[e + 1].role = "user"
  BY <1>14
<1>16. s[e].id < s[len].id /\ s[e].id \in Nat
  <2>1. e \in 1..len /\ len \in 1..len /\ e < len /\ s[e] \in MessageRow
    BY <1>1
  <2> QED  BY <2>1 DEF Rising, MessageRow
<1>17. Whole(s, s[e].id)
  <2> SUFFICES ASSUME NEW i \in 1..(len - 1), s[i].id = s[e].id PROVE ~(s[i].role = "user" /\ s[i + 1].role = "assistant")
    BY DEF Whole
  <2>1. i = e
    <3>1. i \in 1..len /\ e \in 1..len /\ s[i] \in MessageRow /\ s[e] \in MessageRow /\ i \in Int /\ e \in Int
      BY <1>1
    <3>2. s[i].id \in Nat /\ s[e].id \in Nat
      BY <3>1 DEF MessageRow
    <3>3. ~(i < e) /\ ~(e < i)
      BY <3>1, <3>2 DEF Rising
    <3> QED  BY <3>1, <3>3
  <2> QED  BY <1>15, <2>1
<1> QED  BY <1>7, <1>15, <1>16, <1>17

-----------------------------------------------------------------------------
(* What a build has read, and what it delivers. *)

\* What a build in flight works from; what this turn had summarized of a masked reply
\* was withheld.
Base(t) ==
    /\ t \in BuildRow /\ t.all # << >> /\ Rising(t.all) /\ t.tail = Tail65(t.all)
    /\ t.row.covered < t.all[Len(t.all)].id
    /\ t.masked = HiddenMessages(t.all, t.was, t.gone)
    /\ t.row # t.was => \A e \in t.row.entries : e.id \in t.masked => e.withheld

\* Its part of ContextSound.
Honest(t) ==
    /\ t.all[Len(t.all)].id \in Ids(t.sel)
    /\ t.incomplete \/ \A m \in Range(t.all) : m.id <= t.row.covered \/ m.id \in Ids(t.sel)
    /\ \A m \in Range(t.sel) : m.id \in Derived(t) => m.id \in t.masked
    /\ \A e \in Filtered(t.row.entries, t.masked) : e.id \in Derived(t) => OutOfScan(t, e.id)
    /\ t.row # t.was => \A e \in t.row.entries : e.id \in Derived(t) => e.withheld \/ OutOfScan(t, e.id)

\* No more replies come after a message than messages.
LEMMA LaterIs ==
    ASSUME NEW s \in Seq(MessageRow), NEW i \in 1..Len(s)
    PROVE  Cardinality(Later(s, i)) \in Nat /\ Cardinality(Later(s, i)) <= Len(s) - i
<1> DEFINE len == Len(s)
           rest == (i + 1)..len
<1>1. len \in Nat /\ i \in Int /\ i <= len /\ DOMAIN s = 1..len
  OBVIOUS
<1>2. IsFiniteSet(rest) /\ Cardinality(rest) = len - i
  <2>1. i + 1 \in Int /\ len \in Int /\ len - (i + 1) + 1 = len - i
    BY <1>1
  <2>2. IsFiniteSet(rest) /\ Cardinality(rest) = IF i + 1 > len THEN 0 ELSE len - (i + 1) + 1
    BY <2>1, FS_Interval
  <2> QED  BY <1>1, <2>1, <2>2
<1>3. Later(s, i) \subseteq rest
  BY <1>1 DEF Later
<1> HIDE DEF rest
<1>4. IsFiniteSet(Later(s, i)) /\ Cardinality(Later(s, i)) <= Cardinality(rest)
  BY <1>2, <1>3, FS_Subset
<1> QED  BY <1>2, <1>4, FS_CardinalityType

\* A reply that rests on a lost source and is not masked is out of the scan.
LEMMA MissedOnly ==
    ASSUME NEW t, t.all \in Seq(MessageRow), t.masked = HiddenMessages(t.all, t.was, t.gone),
           NEW i \in Derived(t), i \notin t.masked
    PROVE  OutOfScan(t, i)
<1> DEFINE s == t.all
<1>1. PICK k \in DOMAIN s : s[k].id = i /\ s[k].source \in t.gone
  BY DEF Derived, Range
<1>2. s[k].source \notin Linked /\ s[k].id \notin Scanned(s, t.was)
  BY <1>1 DEF HiddenMessages
<1>3. i \notin Cited(t.was) /\ ~(Cardinality(Later(s, k)) < ScanLimit)
  BY <1>1, <1>2 DEF Scanned
<1>4. Cardinality(Later(s, k)) >= ScanLimit
  <2>1. Cardinality(Later(s, k)) \in Nat
    BY LaterIs
  <2>2. ScanLimit \in Nat
    BY ContinuityAssumption
  <2> HIDE DEF s
  <2> QED  BY <1>3, <2>1, <2>2
<1> QED  BY <1>1, <1>2, <1>3, <1>4 DEF OutOfScan

\* A rising sequence has no id twice.
LEMMA OnePlace == ASSUME NEW s \in Seq(MessageRow), Rising(s), NEW i \in 1..Len(s), NEW j \in 1..Len(s), s[i].id = s[j].id
    PROVE  i = j
<1>1. s[i] \in MessageRow /\ s[j] \in MessageRow
  OBVIOUS
<1>2. s[i].id \in Nat /\ s[j].id \in Nat
  BY <1>1 DEF MessageRow
<1>3. ~(i < j) /\ ~(j < i)
  BY <1>2 DEF Rising
<1> QED  BY <1>3

LEMMA DeliveredHonest ==
    ASSUME NEW t, Base(t)
    PROVE  /\ Delivered(t) \in BuildRow /\ Delivered(t).at = "delivered" /\ Honest(Delivered(t))
           /\ Delivered(t).row = t.row /\ Delivered(t).all = t.all
<1> DEFINE s == t.all
           len == Len(s)
           tail == t.tail
           covered == t.row.covered
           recent == Recent(t)
           sel == SelectRecent(recent, RecentBudget, Ceiling)
           d == Delivered(t)
<1>1. /\ t \in BuildRow /\ s \in Seq(MessageRow) /\ s # << >> /\ Rising(s) /\ tail = Tail65(s)
      /\ covered \in Nat /\ covered < s[len].id
      /\ t.row \in SummaryRow /\ t.masked \subseteq Nat /\ t.gone \subseteq Sources
  BY DEF Base, BuildRow, SummaryRow
<1>2. /\ Ceiling \in Nat /\ TailLimit \in Nat /\ Ceiling >= 1 /\ Ceiling < TailLimit /\ RecentBudget \in Nat
  BY ContinuityAssumption
<1>3. d = [t EXCEPT !.at = "delivered", !.prefix = << >>, !.sel = sel,
                    !.incomplete = (recent # << >> /\ sel[1].id # recent[1].id) \/ (Len(tail) = TailLimit /\ covered = 0)]
  BY DEF Delivered
<1> HIDE DEF s, tail, covered
<1>4. len \in Nat /\ len >= 1
  BY <1>1
<1>5. PICK k \in 1..len : tail = SubSeq(s, k, len) /\ (k = 1 \/ len - k + 1 = TailLimit)
  BY <1>1, TailIs
<1>6. /\ tail \in Seq(MessageRow) /\ Len(tail) = len - k + 1 /\ Rising(tail)
      /\ \A i \in 1..Len(tail) : tail[i] = s[k + i - 1]
  BY <1>1, <1>5, EndIds
<1>7. PICK j \in 1..(Len(tail) + 1) :
         /\ AfterCovered(tail, covered) = SubSeq(tail, j, Len(tail))
         /\ \A i \in 1..Len(tail) : i < j <=> tail[i].id <= covered
  BY <1>1, <1>6, AfterIs
<1>8. recent = SubSeq(tail, j, Len(tail))
  BY <1>7 DEF Recent, tail, covered
<1> HIDE DEF recent
<1>9. j \in 1..Len(tail)
  <2>1. Len(tail) \in 1..Len(tail) /\ k + Len(tail) - 1 = len
    BY <1>4, <1>5, <1>6
  <2>2. tail[Len(tail)] = s[len]
    BY <1>6, <2>1
  <2>3. s[len].id \in Nat
    <3>1. s[len] \in MessageRow
      BY <1>1, <1>4
    <3> QED  BY <3>1 DEF MessageRow
  <2>4. ~(s[len].id <= covered)
    BY <1>1, <2>3
  <2>5. ~(Len(tail) < j)
    BY <1>7, <2>1, <2>2, <2>4
  <2> QED  BY <1>7, <2>1, <2>5
<1>10. /\ recent \in Seq(MessageRow) /\ Len(recent) = Len(tail) - j + 1 /\ recent # << >>
       /\ \A i \in 1..Len(recent) : recent[i] = tail[j + i - 1]
  BY <1>6, <1>8, <1>9, EndIds
<1>11. PICK p \in 1..Len(recent) : sel = SubSeq(recent, p, Len(recent)) /\ (Len(recent) - p + 1 <= Ceiling \/ p = Len(recent))
  BY <1>2, <1>10, RecentIs
<1> HIDE DEF sel
<1> DEFINE h == k + j - 1
           q == h + p - 1
<1>12. /\ sel \in Seq(MessageRow) /\ Len(sel) = Len(recent) - p + 1 /\ Len(sel) >= 1
       /\ \A i \in 1..Len(sel) : sel[i] = recent[p + i - 1]
  BY <1>10, <1>11, EndIds
<1>13. /\ h \in 1..len /\ q \in h..len /\ Len(recent) = len - h + 1 /\ Len(sel) = len - q + 1
  <2>1. /\ k \in 1..len /\ len \in Nat /\ Len(tail) = len - k + 1 /\ j \in 1..Len(tail)
        /\ Len(recent) = Len(tail) - j + 1 /\ p \in 1..Len(recent) /\ Len(sel) = Len(recent) - p + 1
    BY <1>4, <1>5, <1>6, <1>9, <1>10, <1>11, <1>12
  <2>2. h \in 1..len /\ Len(recent) = len - h + 1
    BY <2>1
  <2> HIDE DEF h
  <2>3. q \in h..len /\ Len(sel) = len - q + 1
    BY <2>1, <2>2
  <2> QED  BY <2>2, <2>3
<1>14. \A i \in 1..Len(recent) : recent[i] = s[h + i - 1]
  <2> SUFFICES ASSUME NEW i \in 1..Len(recent) PROVE recent[i] = s[h + i - 1]
    OBVIOUS
  <2>1. j + i - 1 \in 1..Len(tail) /\ k + (j + i - 1) - 1 = h + i - 1
    BY <1>5, <1>9, <1>10
  <2> QED  BY <1>6, <1>10, <2>1
<1>15. \A i \in 1..Len(sel) : sel[i] = s[q + i - 1]
  <2> SUFFICES ASSUME NEW i \in 1..Len(sel) PROVE sel[i] = s[q + i - 1]
    OBVIOUS
  <2>1. p + i - 1 \in 1..Len(recent) /\ h + (p + i - 1) - 1 = q + i - 1
    BY <1>10, <1>11, <1>12, <1>13
  <2> QED  BY <1>12, <1>14, <2>1
<1> HIDE DEF q
<1>16. \A i \in q..len : s[i].id \in Ids(sel)
  <2> SUFFICES ASSUME NEW i \in q..len PROVE s[i].id \in Ids(sel)
    OBVIOUS
  <2>1. i - q + 1 \in 1..Len(sel) /\ q + (i - q + 1) - 1 = i
    BY <1>4, <1>13
  <2>2. sel[i - q + 1] = s[i]
    BY <1>15, <2>1
  <2> QED  BY <1>12, <2>1, <2>2, IdsOf
<1> HIDE DEF h, d
<1>17. /\ d.all = s /\ d.sel = sel /\ d.row = t.row /\ d.was = t.was /\ d.masked = t.masked /\ d.gone = t.gone /\ d.at = "delivered"
       /\ d.incomplete = ((recent # << >> /\ sel[1].id # recent[1].id) \/ (Len(tail) = TailLimit /\ covered = 0))
       /\ d \in BuildRow
  <2>1. t \in BuildRow
    BY <1>1
  <2>2. << >> \in Seq(MessageRow)
    OBVIOUS
  <2> DEFINE inc == (recent # << >> /\ sel[1].id # recent[1].id) \/ (Len(tail) = TailLimit /\ covered = 0)
  <2>3. inc \in BOOLEAN
    OBVIOUS
  <2>4. d = [t EXCEPT !.at = "delivered", !.prefix = << >>, !.sel = sel, !.incomplete = inc]
    BY <1>3
  <2> HIDE DEF inc
  <2>5. d.all = t.all /\ d.sel = sel /\ d.row = t.row /\ d.was = t.was /\ d.masked = t.masked /\ d.gone = t.gone
        /\ d.at = "delivered"
        /\ d.incomplete = inc /\ d \in BuildRow
    BY <1>12, <2>1, <2>2, <2>3, <2>4 DEF BuildRow
  <2> QED  BY <2>5 DEF inc, s
<1>18. d.incomplete \/ \A i \in 1..len : s[i].id <= covered \/ s[i].id \in Ids(sel)
  <2> SUFFICES ASSUME ~d.incomplete, NEW i \in 1..len, i < q PROVE s[i].id <= covered
    BY <1>4, <1>13, <1>16
  <2>1. sel[1].id = recent[1].id
    BY <1>10, <1>17
  <2>2. sel[1] = s[q] /\ recent[1] = s[h]
    <3>1. 1 \in 1..Len(sel) /\ 1 \in 1..Len(recent) /\ q + 1 - 1 = q /\ h + 1 - 1 = h
      BY <1>4, <1>12, <1>13
    <3> QED  BY <1>14, <1>15, <3>1
  <2>3. q = h
    <3>1. q \in 1..len /\ h \in 1..len
      BY <1>4, <1>13
    <3> QED  BY <1>1, <2>1, <2>2, <3>1, OnePlace
  <2>4. p = 1
    BY <1>11, <1>13, <2>3 DEF q
  <2>5. CASE i >= k
    <3>1. i - k + 1 \in 1..Len(tail) /\ k + (i - k + 1) - 1 = i /\ i - k + 1 < j
      BY <1>4, <1>5, <1>6, <2>3, <2>5 DEF h
    <3> QED  BY <1>6, <1>7, <3>1
  <2>6. CASE i < k
    <3>1. Len(tail) = TailLimit
      BY <1>5, <1>6, <2>6
    <3>2. j # 1
      <4> SUFFICES ASSUME j = 1 PROVE FALSE
        OBVIOUS
      <4>1. Len(recent) = TailLimit
        BY <1>2, <1>10, <3>1
      <4> QED  BY <1>2, <1>11, <2>4, <4>1
    <3>3. 1 \in 1..Len(tail) /\ k + 1 - 1 = k /\ 1 < j
      BY <1>5, <1>9, <3>2
    <3>4. s[k].id <= covered
      BY <1>6, <1>7, <3>3
    <3>5. s[i].id < s[k].id
      BY <1>1, <1>5, <2>6 DEF Rising
    <3>6. s[i] \in MessageRow /\ s[k] \in MessageRow
      BY <1>1, <1>5
    <3>7. s[i].id \in Nat /\ s[k].id \in Nat
      BY <3>6 DEF MessageRow
    <3> QED  BY <1>1, <3>4, <3>5, <3>7
  <2> QED  BY <1>5, <2>5, <2>6
<1>19. s[len].id \in Ids(sel)
  BY <1>4, <1>13, <1>16
<1>20. \A m \in Range(s) : \E i \in 1..len : m = s[i]
  BY <1>1 DEF Range
<1>21. Honest(d)
  <2>1. d.masked = HiddenMessages(d.all, d.was, d.gone) /\ d.all \in Seq(MessageRow)
    BY <1>1, <1>17 DEF Base, s
  <2>2. d.incomplete \/ \A m \in Range(s) : m.id <= covered \/ m.id \in Ids(sel)
    BY <1>18, <1>20
  <2>3. \A e \in Filtered(d.row.entries, d.masked) : e.id \notin d.masked
    BY DEF Filtered
  <2>4. \A i \in Derived(d) : i \in d.masked \/ OutOfScan(d, i)
    BY <2>1, MissedOnly
  <2>5. d.row # d.was => \A e \in d.row.entries : e.id \in d.masked => e.withheld
    BY <1>17 DEF Base
  <2>6. ASSUME NEW m \in Range(sel), m.id \in Derived(d) PROVE m.id \in d.masked
    <3>1. PICK i \in 1..Len(sel) : m = sel[i]
      BY <1>12 DEF Range
    <3>2. q + i - 1 \in 1..len /\ m = s[q + i - 1] /\ len - (q + i - 1) < ScanLimit
      <4>1. TailLimit <= ScanLimit /\ ScanLimit \in Nat
        BY ContinuityAssumption
      <4>2. m = s[q + i - 1]
        BY <1>15, <3>1
      <4>3. q >= k /\ q \in 1..len
        BY <1>4, <1>5, <1>9, <1>13 DEF h
      <4>4. q + i - 1 \in 1..len /\ q + i - 1 >= q
        BY <1>4, <1>12, <1>13, <3>1
      <4>5. len - k + 1 <= TailLimit
        <5>1. Len(tail) <= TailLimit
          BY <1>1, TailShort
        <5> QED  BY <1>6, <5>1
      <4>6. len - (q + i - 1) < ScanLimit
        <5> HIDE DEF len
        <5>1. k \in Int /\ q \in Int /\ i \in Int /\ len \in Int /\ TailLimit \in Int /\ ScanLimit \in Int
          BY <1>2, <1>4, <1>5, <4>1, <4>3, <3>1
        <5> QED  BY <4>1, <4>3, <4>4, <4>5, <5>1
      <4> QED  BY <4>2, <4>4, <4>6
    <3> DEFINE n == q + i - 1
    <3>3. n \in 1..len /\ m = s[n] /\ len - n < ScanLimit
      BY <3>2
    <3> HIDE DEF n
    <3>4. Cardinality(Later(s, n)) < ScanLimit
      <4>1. Cardinality(Later(s, n)) \in Nat /\ Cardinality(Later(s, n)) <= len - n
        BY <1>1, <3>3, LaterIs
      <4>2. ScanLimit \in Nat
        BY ContinuityAssumption
      <4> QED  BY <1>4, <3>3, <4>1, <4>2
    <3>5. ~OutOfScan(d, m.id)
      <4> SUFFICES ASSUME NEW z \in DOMAIN s, s[z].id = m.id, Cardinality(Later(s, z)) >= ScanLimit PROVE FALSE
        BY <1>17 DEF OutOfScan
      <4>1. z \in 1..len
        BY <1>1
      <4>2. z = n
        BY <1>1, <3>3, <4>1, OnePlace
      <4>3. Cardinality(Later(s, n)) \in Nat /\ ScanLimit \in Nat
        BY <1>1, <3>3, LaterIs, ContinuityAssumption
      <4> QED  BY <3>4, <4>2, <4>3
    <3> QED  BY <2>4, <2>6, <3>5
  <2> QED  BY <1>17, <1>19, <2>2, <2>3, <2>4, <2>5, <2>6, Zenon DEF Honest, covered
<1> QED  BY <1>17, <1>21 DEF d, s

\* A build is sent to the model with messages that are older than its latest one.
Asked(t, s) ==
    /\ t.prefix \in Seq(MessageRow) /\ t.prefix # << >>
    /\ t.prefix[Len(t.prefix)].id \in Nat
    /\ t.prefix[Len(t.prefix)].id < s[Len(s)].id
    /\ Whole(s, t.prefix[Len(t.prefix)].id)

\* A build after a step of its own.
Stepped(t, s) ==
    \/ t.at = "delivered" /\ Honest(t)
    \/ t.at = "summarizing" /\ Base(t) /\ t.all = s /\ Asked(t, s)

LEMMA CompactNext ==
    ASSUME NEW t, Base(t), t.all = msgs
    PROVE  Compact(t) \in BuildRow /\ Stepped(Compact(t), msgs)
<1> DEFINE s == msgs
           len == Len(s)
           tail == t.tail
           recent == SelectRecent(tail, SuffixBudget, SuffixCeiling)
           protected == Ids(recent)
           prefix == Prefix(s, t.row.covered, protected)
<1>1. /\ t \in BuildRow /\ s \in Seq(MessageRow) /\ s # << >> /\ Rising(s) /\ tail = Tail65(s)
      /\ t.row.covered \in Nat
  BY DEF Base, BuildRow, SummaryRow
<1>2. len \in Nat /\ len >= 1 /\ SuffixBudget \in Nat /\ SuffixCeiling \in Nat
  BY <1>1, ContinuityAssumption
<1>3. s[len].id \in protected
  <2>1. PICK k \in 1..len : tail = SubSeq(s, k, len)
    BY <1>1, TailIs
  <2> HIDE DEF s
  <2>2. /\ tail \in Seq(MessageRow) /\ Len(tail) = len - k + 1 /\ tail # << >>
        /\ \A i \in 1..Len(tail) : tail[i] = s[k + i - 1]
    BY <1>1, <2>1, EndIds
  <2> HIDE DEF tail
  <2>3. PICK p \in 1..Len(tail) : recent = SubSeq(tail, p, Len(tail))
    BY <1>2, <2>2, RecentIs
  <2>4. tail[Len(tail)].id \in Ids(recent)
    <3>1. Len(tail) \in p..Len(tail)
      BY <1>2, <2>1, <2>2, <2>3
    <3> QED  BY <2>2, <2>3, <3>1, EndIds
  <2>5. Len(tail) \in 1..Len(tail) /\ k + Len(tail) - 1 = len
    BY <1>2, <2>1, <2>2
  <2> QED  BY <2>2, <2>4, <2>5
<1>4. CASE prefix = << >>
  <2>1. Compact(t) = Delivered(t)
    BY <1>4 DEF Compact
  <2> QED  BY <2>1, DeliveredHonest DEF Stepped
<1>5. CASE prefix # << >>
  <2> DEFINE c == [t EXCEPT !.at = "summarizing", !.prefix = prefix, !.round = @ + 1]
  <2>1. Compact(t) = c
    BY <1>5 DEF Compact
  <2> HIDE DEF s, protected
  <2>2. /\ prefix \in Seq(MessageRow) /\ prefix[Len(prefix)].id < s[Len(s)].id /\ prefix[Len(prefix)].id \in Nat
        /\ Whole(s, prefix[Len(prefix)].id)
    BY <1>1, <1>3, <1>5, PrefixIs
  <2> HIDE DEF prefix
  <2>3. /\ c \in BuildRow /\ c.at = "summarizing" /\ c.prefix = prefix /\ c.all = t.all /\ c.tail = t.tail
        /\ c.row = t.row /\ c.was = t.was /\ c.masked = t.masked /\ c.gone = t.gone
    <3>1. t.round + 1 \in Nat /\ t \in BuildRow
      BY <1>1 DEF BuildRow
    <3> DEFINE n == t.round + 1
    <3>2. c = [t EXCEPT !.at = "summarizing", !.prefix = prefix, !.round = n]
      OBVIOUS
    <3> HIDE DEF n, c
    <3> QED  BY <2>2, <3>1, <3>2 DEF BuildRow, n
  <2> HIDE DEF c
  <2>4. Base(c)
    BY <2>3 DEF Base
  <2>5. Asked(c, s)
    BY <1>5, <2>2, <2>3 DEF Asked
  <2> QED  BY <2>1, <2>3, <2>4, <2>5 DEF Stepped, s
<1> QED  BY <1>4, <1>5

LEMMA SummarizedIs ==
    ASSUME NEW t, t \in BuildRow, Asked(t, t.all), NEW cites
    PROVE  /\ Summarized(t, cites) \in SummaryRow
           /\ Summarized(t, cites).covered = t.prefix[Len(t.prefix)].id
           /\ \A e \in Summarized(t, cites).entries : e.id \in t.masked => e.withheld
<1> DEFINE kept == {e \in Filtered(t.row.entries, t.masked) : e.id \in cites}
           shown == {[id |-> i, withheld |-> i \in t.masked] : i \in cites \cap Ids(t.prefix)}
<1>1. t.row \in SummaryRow /\ t.prefix \in Seq(MessageRow) /\ t.prefix[Len(t.prefix)].id \in Nat
  BY DEF BuildRow, Asked
<1>2. kept \subseteq EntryRow
  BY <1>1 DEF Filtered, SummaryRow
<1>3. shown \subseteq EntryRow
  <2> SUFFICES ASSUME NEW i \in Ids(t.prefix) PROVE [id |-> i, withheld |-> i \in t.masked] \in EntryRow
    OBVIOUS
  <2>1. i \in Nat
    <3>1. PICK n \in 1..Len(t.prefix) : i = t.prefix[n].id
      BY <1>1, IdsOf
    <3>2. t.prefix[n] \in MessageRow
      BY <1>1
    <3> QED  BY <3>1, <3>2 DEF MessageRow
  <2> QED  BY <2>1 DEF EntryRow
<1>5. \A e \in kept \cup shown : e.id \in t.masked => e.withheld
  <2>1. \A e \in kept : e.id \notin t.masked
    BY DEF Filtered
  <2>2. ASSUME NEW e \in shown, e.id \in t.masked PROVE e.withheld
    <3>1. PICK i \in cites \cap Ids(t.prefix) : e = [id |-> i, withheld |-> i \in t.masked]
      OBVIOUS
    <3>2. e.id = i /\ e.withheld = (i \in t.masked)
      BY <3>1
    <3> QED  BY <2>2, <3>2, Zenon
  <2> QED  BY <2>1, <2>2, Zenon
<1>4. Summarized(t, cites) = [covered |-> t.prefix[Len(t.prefix)].id, entries |-> kept \cup shown]
  BY DEF Summarized
<1> HIDE DEF kept, shown
<1> QED  BY <1>1, <1>2, <1>3, <1>4, <1>5 DEF SummaryRow

-----------------------------------------------------------------------------
(* ContextSound. *)

\* The transcript is in order; the summary covers a part of it that was whole.
Transcript ==
    /\ msgs \in Seq(MessageRow) /\ written \in Nat /\ gone \subseteq Sources /\ Rising(msgs)
    /\ \A i \in 1..Len(msgs) : msgs[i].id <= written
    /\ summary \in SummaryRow /\ summary.covered <= written /\ Whole(msgs, summary.covered)

\* One run at a time; its question is the latest message, and is not covered.
OneRun ==
    /\ status \in [Builds -> {"new", "running", "completed", "ended"}]
    /\ \A a, b \in Builds : status[a] = "running" /\ status[b] = "running" => a = b
    /\ Running => msgs # << >> /\ msgs[Len(msgs)].role = "user" /\ summary.covered < msgs[Len(msgs)].id

\* A build that waits for the model rests on what it read; while its run is at work
\* that is the transcript.
SoundBuild(b) ==
    /\ build[b].at = "summarizing" =>
         /\ Base(build[b]) /\ Asked(build[b], build[b].all)
         /\ status[b] = "running" => build[b].all = msgs
    /\ build[b].at = "delivered" => Honest(build[b])
    /\ status[b] = "new" => build[b].at = "new"

ContinuityInv ==
    /\ Transcript /\ OneRun
    /\ build \in [Builds -> BuildRow]
    /\ \A b \in Builds : SoundBuild(b)

LEMMA ContinuityInitial == ContinuityInit => ContinuityInv
<1> SUFFICES ASSUME ContinuityInit PROVE ContinuityInv
  OBVIOUS
<1>1. NoRow \in SummaryRow /\ NoRow.covered = 0
  BY DEF NoRow, SummaryRow
<1>2. NoBuild \in BuildRow /\ NoBuild.at = "new"
  <2>1. << >> \in Seq(MessageRow)
    OBVIOUS
  <2> QED  BY <1>1, <2>1 DEF NoBuild, BuildRow
<1>3. msgs = << >> /\ Len(msgs) = 0 /\ written = 0 /\ gone = {} /\ summary = NoRow
      /\ build = [b \in Builds |-> NoBuild] /\ status = [b \in Builds |-> "new"]
  BY DEF ContinuityInit
<1>4. Transcript
  <2>1. msgs \in Seq(MessageRow)
    BY <1>3
  <2> QED  BY <1>1, <1>3, <2>1 DEF Transcript, Rising, Whole
<1>5. OneRun
  BY <1>3 DEF OneRun, Running
<1>6. build \in [Builds -> BuildRow] /\ \A b \in Builds : SoundBuild(b)
  BY <1>2, <1>3 DEF SoundBuild
<1> QED  BY <1>4, <1>5, <1>6 DEF ContinuityInv

\* A message added at the end.
LEMMA AppendedIs ==
    ASSUME Transcript, NEW role \in {"user", "assistant"}, NEW size \in Sizes, NEW source \in Sources \cup {NoSource},
           Append1(role, size, source)
    PROVE  /\ msgs' \in Seq(MessageRow) /\ written' = written + 1 /\ written' \in Nat /\ Len(msgs') = Len(msgs) + 1
           /\ \A i \in 1..Len(msgs) : msgs'[i] = msgs[i]
           /\ msgs'[Len(msgs')].id = written + 1 /\ msgs'[Len(msgs')].role = role
           /\ Rising(msgs') /\ \A i \in 1..Len(msgs') : msgs'[i].id <= written'
           /\ msgs' # << >>
<1> DEFINE m == [id |-> written + 1, role |-> role, size |-> size, source |-> source]
           len == Len(msgs)
<1>1. msgs \in Seq(MessageRow) /\ written \in Nat /\ Rising(msgs) /\ (\A i \in 1..len : msgs[i].id <= written) /\ len \in Nat
  BY DEF Transcript
<1>2. msgs' = Append(msgs, m) /\ written' = written + 1
  BY DEF Append1
<1>3. m \in MessageRow /\ m.id = written + 1 /\ m.role = role
  BY <1>1 DEF MessageRow
<1> HIDE DEF m
<1>4. msgs' \in Seq(MessageRow) /\ Len(msgs') = len + 1 /\ (\A i \in 1..len : msgs'[i] = msgs[i]) /\ msgs'[len + 1] = m
  BY <1>1, <1>2, <1>3
<1>5. \A i \in 1..len : msgs[i].id \in Nat
  <2>1. \A i \in 1..len : msgs[i] \in MessageRow
    BY <1>1
  <2> QED  BY <2>1 DEF MessageRow
<1>6. Rising(msgs')
  <2> SUFFICES ASSUME NEW i \in 1..(len + 1), NEW j \in 1..(len + 1), i < j PROVE msgs'[i].id < msgs'[j].id
    BY <1>4 DEF Rising
  <2>1. i \in 1..len /\ msgs'[i] = msgs[i]
    BY <1>1, <1>4
  <2>2. CASE j = len + 1
    BY <1>1, <1>3, <1>4, <1>5, <2>1, <2>2
  <2>3. CASE j # len + 1
    <3>1. j \in 1..len /\ msgs'[j] = msgs[j]
      BY <1>1, <1>4, <2>3
    <3> QED  BY <1>1, <2>1, <3>1 DEF Rising
  <2> QED  BY <2>2, <2>3
<1>7. \A i \in 1..(len + 1) : msgs'[i].id <= written'
  <2> SUFFICES ASSUME NEW i \in 1..(len + 1) PROVE msgs'[i].id <= written'
    OBVIOUS
  <2>1. CASE i = len + 1
    BY <1>1, <1>2, <1>3, <1>4, <2>1
  <2>2. CASE i # len + 1
    <3>1. i \in 1..len
      BY <1>1, <2>2
    <3> QED  BY <1>1, <1>2, <1>4, <1>5, <3>1
  <2> QED  BY <2>1, <2>2
<1>8. msgs' # << >>
  BY <1>1, <1>4
<1> QED  BY <1>1, <1>2, <1>3, <1>4, <1>6, <1>7, <1>8

\* A message added at the end divides no turn that is covered, if it is a question
\* or its question is not covered.
LEMMA AppendedWhole ==
    ASSUME NEW s \in Seq(MessageRow), NEW n \in Seq(MessageRow), Len(n) = Len(s) + 1,
           \A i \in 1..Len(s) : n[i] = s[i],
           NEW covered \in Nat, Whole(s, covered),
           n[Len(n)].role = "user" \/ (s # << >> /\ covered < s[Len(s)].id)
    PROVE  Whole(n, covered)
<1> SUFFICES ASSUME NEW i \in 1..(Len(n) - 1), n[i].id = covered PROVE ~(n[i].role = "user" /\ n[i + 1].role = "assistant")
  BY DEF Whole
<1>1. i \in 1..Len(s) /\ n[i] = s[i] /\ Len(s) \in Nat
  OBVIOUS
<1>2. CASE i = Len(s)
  <2>1. n[i + 1] = n[Len(n)]
    BY <1>2
  <2>2. s[i].id \in Nat
    <3>1. s[i] \in MessageRow
      BY <1>1
    <3> QED  BY <3>1 DEF MessageRow
  <2> QED  BY <1>1, <1>2, <2>1, <2>2
<1>3. CASE i # Len(s)
  <2>1. i \in 1..(Len(s) - 1) /\ i + 1 \in 1..Len(s)
    BY <1>1, <1>3
  <2> QED  BY <1>1, <2>1 DEF Whole
<1> QED  BY <1>2, <1>3

LEMMA NoRowIs == NoRow \in SummaryRow /\ NoRow.covered = 0
BY DEF NoRow, SummaryRow

\* No boundary is before the first message.
LEMMA NothingCovered == ASSUME NEW s \in Seq(MessageRow) PROVE Whole(s, 0)
<1>1. \A i \in 1..Len(s) : s[i] \in MessageRow
  OBVIOUS
<1>2. \A i \in 1..(Len(s) - 1) : s[i].id # 0
  <2> SUFFICES ASSUME NEW i \in 1..(Len(s) - 1) PROVE s[i].id # 0
    OBVIOUS
  <2>1. i \in 1..Len(s)
    OBVIOUS
  <2> QED  BY <1>1, <2>1 DEF MessageRow
<1> QED  BY <1>2 DEF Whole

LEMMA AskKeeps == ASSUME ContinuityInv, NEW b \in Builds, NEW n \in Sizes, Ask(b, n) PROVE ContinuityInv'
<1>1. Transcript /\ OneRun /\ build \in [Builds -> BuildRow] /\ \A a \in Builds : SoundBuild(a)
  BY DEF ContinuityInv
<1>2. /\ ~Running /\ status[b] = "new" /\ Append1("user", n, NoSource)
      /\ status' = [status EXCEPT ![b] = "running"] /\ gone' = gone /\ summary' = summary /\ build' = build
  BY DEF Ask
<1>3. status \in [Builds -> {"new", "running", "completed", "ended"}]
  BY <1>1 DEF OneRun
<1>4. status' \in [Builds -> {"new", "running", "completed", "ended"}] /\ \A a \in Builds : status'[a] = "running" <=> a = b
  BY <1>2, <1>3 DEF Running
<1>5. /\ msgs' \in Seq(MessageRow) /\ written' = written + 1 /\ written' \in Nat /\ Len(msgs') = Len(msgs) + 1
      /\ \A i \in 1..Len(msgs) : msgs'[i] = msgs[i]
      /\ msgs'[Len(msgs')].id = written + 1 /\ msgs'[Len(msgs')].role = "user"
      /\ Rising(msgs') /\ \A i \in 1..Len(msgs') : msgs'[i].id <= written'
      /\ msgs' # << >>
  BY <1>1, <1>2, AppendedIs, Zenon
<1>6. /\ msgs \in Seq(MessageRow) /\ written \in Nat /\ gone \subseteq Sources
      /\ summary \in SummaryRow /\ summary.covered \in Nat /\ summary.covered <= written /\ Whole(msgs, summary.covered)
  BY <1>1 DEF Transcript, SummaryRow
<1>7. Whole(msgs', summary.covered)
  BY <1>5, <1>6, AppendedWhole
<1>8. Transcript'
  BY <1>2, <1>5, <1>6, <1>7 DEF Transcript
<1>9. OneRun'
  <2>1. summary.covered < written + 1
    BY <1>6
  <2> QED  BY <1>2, <1>4, <1>5, <2>1 DEF OneRun
<1>10. ASSUME NEW a \in Builds PROVE SoundBuild(a)'
  <2>1. SoundBuild(a)
    BY <1>1
  <2>2. CASE a = b
    <3>1. build'[a].at = "new" /\ status'[a] = "running"
      BY <1>2, <1>4, <2>1, <2>2 DEF SoundBuild
    <3> QED  BY <3>1 DEF SoundBuild
  <2>3. CASE a # b
    <3>1. build'[a] = build[a] /\ status'[a] = status[a] /\ status'[a] # "running"
      BY <1>2, <1>3, <1>4, <2>3
    <3> QED  BY <2>1, <3>1 DEF SoundBuild
  <2> QED  BY <2>2, <2>3
<1> QED  BY <1>1, <1>2, <1>8, <1>9, <1>10 DEF ContinuityInv

LEMMA ReplyKeeps ==
    ASSUME ContinuityInv, NEW b \in Builds, NEW n \in Sizes, NEW x \in Sources \cup {NoSource}, Reply(b, n, x)
    PROVE  ContinuityInv'
<1>1. Transcript /\ OneRun /\ build \in [Builds -> BuildRow] /\ \A a \in Builds : SoundBuild(a)
  BY DEF ContinuityInv
<1>2. /\ status[b] = "running" /\ build[b].at = "delivered" /\ Append1("assistant", n, x)
      /\ status' = [status EXCEPT ![b] = "completed"] /\ gone' = gone /\ summary' = summary /\ build' = build
  BY DEF Reply
<1>3. /\ status \in [Builds -> {"new", "running", "completed", "ended"}]
      /\ \A a, c \in Builds : status[a] = "running" /\ status[c] = "running" => a = c
      /\ msgs # << >> /\ summary.covered < msgs[Len(msgs)].id
  BY <1>1, <1>2 DEF OneRun, Running
<1>4. status' \in [Builds -> {"new", "running", "completed", "ended"}] /\ \A a \in Builds : status'[a] # "running"
  BY <1>2, <1>3
<1>5. /\ msgs' \in Seq(MessageRow) /\ written' = written + 1 /\ written' \in Nat /\ Len(msgs') = Len(msgs) + 1
      /\ \A i \in 1..Len(msgs) : msgs'[i] = msgs[i]
      /\ Rising(msgs') /\ \A i \in 1..Len(msgs') : msgs'[i].id <= written'
  BY <1>1, <1>2, AppendedIs, Zenon
<1>6. /\ msgs \in Seq(MessageRow) /\ written \in Nat /\ gone \subseteq Sources
      /\ summary \in SummaryRow /\ summary.covered \in Nat /\ summary.covered <= written /\ Whole(msgs, summary.covered)
  BY <1>1 DEF Transcript, SummaryRow
<1>7. Whole(msgs', summary.covered)
  BY <1>3, <1>5, <1>6, AppendedWhole
<1>8. Transcript'
  BY <1>2, <1>5, <1>6, <1>7 DEF Transcript
<1>9. OneRun'
  BY <1>4 DEF OneRun, Running
<1>10. ASSUME NEW a \in Builds PROVE SoundBuild(a)'
  <2>1. SoundBuild(a) /\ build'[a] = build[a] /\ status'[a] # "running" /\ (status'[a] = "new" => status[a] = "new")
    BY <1>1, <1>2, <1>3, <1>4
  <2> QED  BY <2>1 DEF SoundBuild
<1> QED  BY <1>1, <1>2, <1>8, <1>9, <1>10 DEF ContinuityInv

LEMMA StopKeeps == ASSUME ContinuityInv, NEW b \in Builds, StopRun(b) PROVE ContinuityInv'
<1>1. Transcript /\ OneRun /\ build \in [Builds -> BuildRow] /\ \A a \in Builds : SoundBuild(a)
  BY DEF ContinuityInv
<1>2. /\ status[b] = "running" /\ status' = [status EXCEPT ![b] = "ended"]
      /\ msgs' = msgs /\ written' = written /\ gone' = gone /\ summary' = summary /\ build' = build
  BY DEF StopRun
<1>3. /\ status \in [Builds -> {"new", "running", "completed", "ended"}]
      /\ \A a, c \in Builds : status[a] = "running" /\ status[c] = "running" => a = c
  BY <1>1 DEF OneRun
<1>4. status' \in [Builds -> {"new", "running", "completed", "ended"}] /\ \A a \in Builds : status'[a] # "running"
  BY <1>2, <1>3
<1>5. Transcript'
  BY <1>1, <1>2 DEF Transcript
<1>6. OneRun'
  BY <1>4 DEF OneRun, Running
<1>7. ASSUME NEW a \in Builds PROVE SoundBuild(a)'
  <2>1. SoundBuild(a) /\ build'[a] = build[a] /\ status'[a] # "running" /\ (status'[a] = "new" => status[a] = "new")
    BY <1>1, <1>2, <1>3, <1>4
  <2> QED  BY <2>1 DEF SoundBuild
<1> QED  BY <1>1, <1>2, <1>5, <1>6, <1>7 DEF ContinuityInv

LEMMA PruneKeeps == ASSUME ContinuityInv, NEW i \in 1..MaxMessages, Prune(i) PROVE ContinuityInv'
<1> DEFINE cut == SubSeq(msgs, 1, i - 1)
<1>1. Transcript /\ OneRun /\ build \in [Builds -> BuildRow] /\ \A a \in Builds : SoundBuild(a)
  BY DEF ContinuityInv
<1>2. /\ ~Running /\ i \in 1..Len(msgs) /\ summary' = Invalidated(msgs[i].id) /\ msgs' = cut
      /\ written' = written /\ gone' = gone /\ build' = build /\ status' = status
  BY <1>1 DEF Prune, Transcript
<1>3. /\ msgs \in Seq(MessageRow) /\ written \in Nat /\ gone \subseteq Sources /\ Rising(msgs)
      /\ \A j \in 1..Len(msgs) : msgs[j].id <= written
      /\ summary \in SummaryRow /\ summary.covered <= written /\ Whole(msgs, summary.covered)
  BY <1>1 DEF Transcript
<1>4. cut \in Seq(MessageRow) /\ Len(cut) = i - 1 /\ \A j \in 1..(i - 1) : cut[j] = msgs[j] /\ j \in 1..Len(msgs)
  <2>1. 1 \in Nat \ {0} /\ i - 1 \in Nat /\ i - 1 <= Len(msgs) /\ 1 <= (i - 1) + 1 /\ (i - 1) - 1 + 1 = i - 1
    BY <1>2
  <2>2. SubSeq(msgs, 1, i - 1) \in Seq(MessageRow) /\ Len(SubSeq(msgs, 1, i - 1)) = (i - 1) - 1 + 1
        /\ \A j \in 1..((i - 1) - 1 + 1) : SubSeq(msgs, 1, i - 1)[j] = msgs[1 + j - 1]
    BY <1>3, <2>1, Part
  <2> HIDE DEF cut
  <2>3. \A j \in 1..(i - 1) : 1 + j - 1 = j /\ j \in 1..Len(msgs)
    BY <1>2
  <2> QED  BY <2>1, <2>2, <2>3 DEF cut
<1> HIDE DEF cut
<1>5. Rising(cut) /\ \A j \in 1..Len(cut) : cut[j].id <= written
  <2>1. \A j \in 1..Len(cut) : j \in 1..Len(msgs) /\ cut[j] = msgs[j]
    BY <1>4
  <2> QED  BY <1>3, <2>1 DEF Rising
<1>6. summary' = summary \/ summary' = NoRow
  BY <1>2 DEF Invalidated
<1>7. summary' \in SummaryRow /\ summary'.covered <= written /\ Whole(cut, summary'.covered)
  <2>1. CASE summary' = summary
    <3>1. Whole(cut, summary.covered)
      <4> SUFFICES ASSUME NEW j \in 1..(Len(cut) - 1), cut[j].id = summary.covered
                   PROVE  ~(cut[j].role = "user" /\ cut[j + 1].role = "assistant")
        BY DEF Whole
      <4>1. j \in 1..(Len(msgs) - 1) /\ j \in 1..(i - 1) /\ j + 1 \in 1..(i - 1)
        BY <1>2, <1>4
      <4>2. cut[j] = msgs[j] /\ cut[j + 1] = msgs[j + 1]
        BY <1>4, <4>1
      <4> QED  BY <1>3, <4>1, <4>2 DEF Whole
    <3> QED  BY <1>3, <2>1, <3>1
  <2>2. CASE summary' = NoRow
    BY <1>3, <1>4, <2>2, NoRowIs, NothingCovered
  <2> QED  BY <1>6, <2>1, <2>2
<1>8. Transcript'
  BY <1>2, <1>3, <1>4, <1>5, <1>7 DEF Transcript
<1>9. OneRun'
  BY <1>1, <1>2 DEF OneRun, Running
<1>10. ASSUME NEW a \in Builds PROVE SoundBuild(a)'
  <2>1. SoundBuild(a) /\ status[a] # "running"
    BY <1>1, <1>2 DEF Running
  <2> QED  BY <1>2, <2>1 DEF SoundBuild
<1> QED  BY <1>1, <1>2, <1>8, <1>9, <1>10 DEF ContinuityInv

LEMMA RemoveKeeps ==
    ASSUME ContinuityInv, NEW x \in Sources, NEW attachment \in BOOLEAN, RemoveSource(x, attachment)
    PROVE  ContinuityInv'
<1>1. Transcript /\ OneRun /\ build \in [Builds -> BuildRow] /\ \A a \in Builds : SoundBuild(a)
  BY DEF ContinuityInv
<1>2. /\ gone' = gone \cup {x} /\ summary' \in {summary, NoRow}
      /\ msgs' = msgs /\ written' = written /\ build' = build /\ status' = status
  BY DEF RemoveSource
<1>3. /\ msgs \in Seq(MessageRow) /\ written \in Nat /\ gone \subseteq Sources
      /\ summary \in SummaryRow /\ summary.covered <= written /\ Whole(msgs, summary.covered)
  BY <1>1 DEF Transcript
<1>4. summary' \in SummaryRow /\ summary'.covered <= written /\ Whole(msgs, summary'.covered)
  BY <1>2, <1>3, NoRowIs, NothingCovered
<1>5. Transcript'
  BY <1>1, <1>2, <1>3, <1>4 DEF Transcript
<1>6. OneRun'
  <2>1. ASSUME Running PROVE NoRow.covered < msgs[Len(msgs)].id
    <3>1. msgs # << >>
      BY <1>1, <2>1 DEF OneRun
    <3>2. msgs[Len(msgs)] \in MessageRow
      BY <1>3, <3>1
    <3> QED  BY <3>2, NoRowIs DEF MessageRow
  <2> QED  BY <1>1, <1>2, <2>1 DEF OneRun, Running
<1>7. ASSUME NEW a \in Builds PROVE SoundBuild(a)'
  BY <1>1, <1>2 DEF SoundBuild
<1> QED  BY <1>1, <1>2, <1>5, <1>6, <1>7 DEF ContinuityInv

\* A build steps, and the summary it leaves covers turns that are whole.
LEMMA BuildKeeps ==
    ASSUME ContinuityInv, NEW b \in Builds, NEW t, t \in BuildRow, t.at # "new", status[b] # "new",
           t.at = "delivered" => Honest(t),
           t.at = "summarizing" => /\ Base(t) /\ Asked(t, t.all)
                                   /\ status[b] = "running" => t.all = msgs,
           build' = [build EXCEPT ![b] = t], UNCHANGED <<msgs, written, gone, status>>,
           summary' \in SummaryRow, Whole(msgs, summary'.covered),
           summary'.covered <= written, Running => summary'.covered < msgs[Len(msgs)].id
    PROVE  ContinuityInv'
<1>1. Transcript /\ OneRun /\ build \in [Builds -> BuildRow] /\ \A a \in Builds : SoundBuild(a)
  BY DEF ContinuityInv
<1>2. Transcript'
  BY <1>1 DEF Transcript
<1>3. OneRun'
  BY <1>1 DEF OneRun, Running
<1>4. build' \in [Builds -> BuildRow]
  BY <1>1
<1>5. ASSUME NEW a \in Builds PROVE SoundBuild(a)'
  <2>1. CASE a = b
    <3>1. build'[a] = t /\ status'[a] = status[b] /\ msgs' = msgs
      BY <1>1, <2>1
    <3> QED  BY <3>1 DEF SoundBuild
  <2>2. CASE a # b
    <3>1. build'[a] = build[a] /\ status'[a] = status[a] /\ msgs' = msgs
      BY <1>1, <2>2
    <3> QED  BY <1>1, <3>1 DEF SoundBuild
  <2> QED  BY <2>1, <2>2
<1> QED  BY <1>2, <1>3, <1>4, <1>5 DEF ContinuityInv

LEMMA BeginKeeps == ASSUME ContinuityInv, NEW b \in Builds, BeginContext(b) PROVE ContinuityInv'
<1> DEFINE row == IF summary.covered \in Ids(msgs) THEN summary ELSE NoRow
           t == [NoBuild EXCEPT !.all = msgs, !.tail = Tail65(msgs),
                                !.was = row, !.row = row,
                                !.masked = HiddenMessages(msgs, row, gone), !.gone = gone]
           n == IF TooLong(Recent(t)) THEN Compact(t) ELSE Delivered(t)
<1>1. Transcript /\ OneRun
  BY DEF ContinuityInv
<1>2. /\ status[b] = "running" /\ summary' = row /\ build' = [build EXCEPT ![b] = n]
      /\ UNCHANGED <<msgs, written, gone, status>>
  BY DEF BeginContext
<1>3. /\ msgs \in Seq(MessageRow) /\ Rising(msgs) /\ written \in Nat /\ gone \subseteq Sources
      /\ summary \in SummaryRow /\ summary.covered <= written /\ Whole(msgs, summary.covered)
      /\ msgs # << >> /\ summary.covered < msgs[Len(msgs)].id /\ Running
  BY <1>1, <1>2 DEF Transcript, OneRun, Running
<1>4. msgs[Len(msgs)].id \in Nat \ {0}
  <2>1. msgs[Len(msgs)] \in MessageRow
    BY <1>3
  <2> QED  BY <2>1 DEF MessageRow
<1>5. row \in SummaryRow /\ row.covered <= written /\ row.covered < msgs[Len(msgs)].id /\ Whole(msgs, row.covered)
  BY <1>3, <1>4, NoRowIs, NothingCovered
<1> HIDE DEF row
<1>6. /\ t.all = msgs /\ t.tail = Tail65(msgs) /\ t.row = row /\ t.was = row
      /\ t.masked = HiddenMessages(msgs, row, gone) /\ t.gone = gone
      /\ t \in BuildRow
  <2>1. Tail65(msgs) \in Seq(MessageRow)
    <3>1. PICK k \in 1..Len(msgs) : Tail65(msgs) = SubSeq(msgs, k, Len(msgs))
      BY <1>3, TailIs
    <3> QED  BY <1>3, <3>1, EndIds
  <2>2. HiddenMessages(msgs, row, gone) \subseteq Nat
    <3>1. \A i \in DOMAIN msgs : msgs[i] \in MessageRow
      BY <1>3
    <3> QED  BY <3>1 DEF HiddenMessages, MessageRow
  <2>3. << >> \in Seq(MessageRow) /\ NoRow \in SummaryRow
    BY NoRowIs
  <2> DEFINE tail == Tail65(msgs)
             hidden == HiddenMessages(msgs, row, gone)
  <2>4. tail \in Seq(MessageRow) /\ hidden \subseteq Nat
    BY <2>1, <2>2
  <2>5. t = [NoBuild EXCEPT !.all = msgs, !.tail = tail, !.was = row, !.row = row, !.masked = hidden, !.gone = gone]
    OBVIOUS
  <2> HIDE DEF tail, hidden, t
  <2>6. t.all = msgs /\ t.tail = tail /\ t.row = row /\ t.was = row /\ t.masked = hidden
        /\ t.gone = gone /\ t \in BuildRow
    BY <1>3, <1>5, <2>3, <2>4, <2>5 DEF NoBuild, BuildRow
  <2> QED  BY <2>6 DEF tail, hidden
<1> HIDE DEF t
<1>7. Base(t)
  BY <1>3, <1>5, <1>6 DEF Base
<1>8. n \in BuildRow /\ Stepped(n, msgs)
  <2>1. Compact(t) \in BuildRow /\ Stepped(Compact(t), msgs)
    BY <1>6, <1>7, CompactNext
  <2>2. Delivered(t) \in BuildRow /\ Stepped(Delivered(t), msgs)
    BY <1>7, DeliveredHonest DEF Stepped
  <2> QED  BY <2>1, <2>2
<1> HIDE DEF n
<1>9. n.at # "new" /\ (n.at = "delivered" => Honest(n))
      /\ (n.at = "summarizing" => Base(n) /\ Asked(n, n.all) /\ n.all = msgs)
  BY <1>8 DEF Stepped
<1> QED  BY <1>2, <1>3, <1>5, <1>8, <1>9, BuildKeeps

LEMMA SummarizeKeeps == ASSUME ContinuityInv, NEW b \in Builds, NEW cites, Summarize(b, cites) PROVE ContinuityInv'
<1> DEFINE t == build[b]
           row == Summarized(t, cites)
           next == [t EXCEPT !.row = row, !.prefix = << >>]
           n == IF TooLong(Recent(next)) /\ t.round < Rounds THEN Compact(next) ELSE Delivered(next)
<1>1. Transcript /\ OneRun /\ build \in [Builds -> BuildRow] /\ SoundBuild(b)
  BY DEF ContinuityInv
<1>2. /\ t.at = "summarizing" /\ status[b] = "running" /\ summary' = row /\ build' = [build EXCEPT ![b] = n]
      /\ UNCHANGED <<msgs, written, gone, status>>
  BY DEF Summarize, Unchanged
<1>3. t \in BuildRow /\ Base(t) /\ Asked(t, t.all) /\ t.all = msgs
  BY <1>1, <1>2 DEF SoundBuild
<1> HIDE DEF t
<1>4. /\ row \in SummaryRow /\ row.covered = t.prefix[Len(t.prefix)].id
      /\ \A e \in row.entries : e.id \in t.masked => e.withheld
  BY <1>3, SummarizedIs
<1> HIDE DEF row
<1>5. row.covered \in Nat /\ row.covered < msgs[Len(msgs)].id /\ Whole(msgs, row.covered)
  BY <1>3, <1>4 DEF Asked
<1>6. row.covered <= written
  <2>1. msgs \in Seq(MessageRow) /\ msgs # << >> /\ written \in Nat /\ \A i \in 1..Len(msgs) : msgs[i].id <= written
    BY <1>1, <1>3 DEF Transcript, Base
  <2>2. msgs[Len(msgs)].id <= written /\ msgs[Len(msgs)] \in MessageRow
    BY <2>1
  <2>3. msgs[Len(msgs)].id \in Nat
    BY <2>2 DEF MessageRow
  <2> QED  BY <1>5, <2>1, <2>2, <2>3
<1>7. /\ next \in BuildRow /\ next.all = t.all /\ next.tail = t.tail /\ next.row = row
      /\ next.was = t.was /\ next.masked = t.masked /\ next.gone = t.gone
  <2>1. << >> \in Seq(MessageRow)
    OBVIOUS
  <2> QED  BY <1>3, <1>4, <2>1 DEF BuildRow
<1> HIDE DEF next
<1>8. Base(next) /\ next.all = msgs
  BY <1>3, <1>4, <1>5, <1>7 DEF Base
<1>9. n \in BuildRow /\ Stepped(n, msgs)
  <2>1. Compact(next) \in BuildRow /\ Stepped(Compact(next), msgs)
    BY <1>8, CompactNext
  <2>2. Delivered(next) \in BuildRow /\ Stepped(Delivered(next), msgs)
    BY <1>8, DeliveredHonest DEF Stepped
  <2> QED  BY <2>1, <2>2
<1> HIDE DEF n
<1>10. n.at # "new" /\ (n.at = "delivered" => Honest(n))
       /\ (n.at = "summarizing" => Base(n) /\ Asked(n, n.all) /\ n.all = msgs)
  BY <1>9 DEF Stepped
<1> QED  BY <1>2, <1>4, <1>5, <1>6, <1>9, <1>10, BuildKeeps

LEMMA FailsKeeps == ASSUME ContinuityInv, NEW b \in Builds, SummarizeFails(b) PROVE ContinuityInv'
<1>1. Transcript /\ OneRun /\ build \in [Builds -> BuildRow] /\ SoundBuild(b)
  BY DEF ContinuityInv
<1>2. /\ build[b].at = "summarizing" /\ build' = [build EXCEPT ![b] = Delivered(build[b])]
      /\ UNCHANGED <<msgs, written, gone, summary, status>>
  BY DEF SummarizeFails
<1>3. Base(build[b]) /\ status[b] # "new"
  BY <1>1, <1>2 DEF SoundBuild
<1> DEFINE d == Delivered(build[b])
<1>4. d \in BuildRow /\ d.at = "delivered" /\ Honest(d)
  BY <1>3, DeliveredHonest
<1> HIDE DEF d
<1>5. build' = [build EXCEPT ![b] = d]
  BY <1>2 DEF d
<1>6. /\ summary' \in SummaryRow /\ Whole(msgs, summary'.covered) /\ summary'.covered <= written
      /\ Running => summary'.covered < msgs[Len(msgs)].id
  BY <1>1, <1>2 DEF Transcript, OneRun
<1> QED  BY <1>2, <1>3, <1>4, <1>5, <1>6, BuildKeeps

LEMMA AbandonKeeps == ASSUME ContinuityInv, NEW b \in Builds, AbandonContext(b) PROVE ContinuityInv'
<1> DEFINE t == build[b]
           sel == SelectRecent(Recent(t), RecentBudget, Ceiling)
           d == [t EXCEPT !.at = "abandoned", !.prefix = << >>, !.sel = sel]
<1>1. Transcript /\ OneRun /\ build \in [Builds -> BuildRow] /\ SoundBuild(b)
  BY DEF ContinuityInv
<1>2. /\ t.at = "summarizing" /\ build' = [build EXCEPT ![b] = d]
      /\ UNCHANGED <<msgs, written, gone, summary, status>>
  BY <1>1 DEF AbandonContext
<1>3. t \in BuildRow /\ Base(t) /\ status[b] # "new"
  BY <1>1, <1>2 DEF SoundBuild
<1> HIDE DEF t
<1>4. sel \in Seq(MessageRow)
  <2>1. Delivered(t) \in BuildRow
    BY <1>3, DeliveredHonest
  <2>2. Delivered(t).sel = sel
    BY <1>3 DEF Delivered, BuildRow
  <2> HIDE DEF sel
  <2> QED  BY <2>1, <2>2 DEF BuildRow
<1> HIDE DEF sel
<1>5. d \in BuildRow /\ d.at = "abandoned"
  <2>1. << >> \in Seq(MessageRow)
    OBVIOUS
  <2> QED  BY <1>3, <1>4, <2>1 DEF BuildRow
<1> HIDE DEF d
<1>6. /\ summary' \in SummaryRow /\ Whole(msgs, summary'.covered) /\ summary'.covered <= written
      /\ Running => summary'.covered < msgs[Len(msgs)].id
  BY <1>1, <1>2 DEF Transcript, OneRun
<1> QED  BY <1>2, <1>3, <1>5, <1>6, BuildKeeps

LEMMA ContinuityStep == ASSUME ContinuityInv, [ContinuityNext]_cvars PROVE ContinuityInv'
<1>1. CASE UNCHANGED cvars
  BY <1>1 DEF cvars, ContinuityInv, Transcript, OneRun, Running, SoundBuild
<1>2. ASSUME NEW b \in Builds, NEW n \in Sizes, Ask(b, n) PROVE ContinuityInv'
  BY <1>2, AskKeeps
<1>3. ASSUME NEW b \in Builds, NEW n \in Sizes, NEW x \in Sources \cup {NoSource}, Reply(b, n, x) PROVE ContinuityInv'
  BY <1>3, ReplyKeeps
<1>4. ASSUME NEW b \in Builds, StopRun(b) PROVE ContinuityInv'
  BY <1>4, StopKeeps
<1>5. ASSUME NEW b \in Builds, BeginContext(b) PROVE ContinuityInv'
  BY <1>5, BeginKeeps
<1>6. ASSUME NEW b \in Builds, SummarizeFails(b) PROVE ContinuityInv'
  BY <1>6, FailsKeeps
<1>7. ASSUME NEW b \in Builds, NEW cites, Summarize(b, cites) PROVE ContinuityInv'
  BY <1>7, SummarizeKeeps
<1>10. ASSUME NEW b \in Builds, AbandonContext(b) PROVE ContinuityInv'
  BY <1>10, AbandonKeeps
<1>8. ASSUME NEW i \in 1..MaxMessages, Prune(i) PROVE ContinuityInv'
  BY <1>8, PruneKeeps
<1>9. ASSUME NEW x \in Sources, NEW attachment \in BOOLEAN, RemoveSource(x, attachment) PROVE ContinuityInv'
  BY <1>9, RemoveKeeps
<1> QED  BY <1>1, <1>2, <1>3, <1>4, <1>5, <1>6, <1>7, <1>8, <1>9, <1>10, Zenon DEF ContinuityNext

LEMMA ContextFollows == ContinuityInv => ContextSound
<1> SUFFICES ASSUME ContinuityInv PROVE ContextSound
  OBVIOUS
<1>1. \A b \in Builds : DeliveredTo(b) => Honest(build[b])
  BY DEF ContinuityInv, SoundBuild, DeliveredTo
<1>2. HistoryHonest
  BY <1>1 DEF HistoryHonest, Honest
<1>3. RemovedSourceWithheld
  BY <1>1 DEF RemovedSourceWithheld, Honest
<1>4. TurnsCoveredWhole
  BY DEF ContinuityInv, Transcript, Whole, TurnsCoveredWhole
<1> QED  BY <1>2, <1>3, <1>4 DEF ContextSound

\* The context of a turn accounts for every message before it or says that history is
\* missing, covers turns whole and withholds what came from a removed source, whatever
\* is stopped, cut or removed while a summary is written (context_events).
THEOREM ContextsAreSound == ContinuitySpec => []ContextSound
<1>1. ContinuitySpec => []ContinuityInv
  BY ContinuityInitial, ContinuityStep, PTL DEF ContinuitySpec
<1> QED  BY <1>1, ContextFollows, PTL

-----------------------------------------------------------------------------
(* The evidence of earlier answers. *)

AnswerRow == [links : SUBSET Papers, complete : BOOLEAN, cited : SUBSET Papers,
              truly : SUBSET Papers]
DraftRow == [at : {"none", "recall", "answering", "recorded"}, before : Nat,
             given : SUBSET Papers, left : SUBSET Nat, recaps : SUBSET Nat, answer : AnswerRow]

\* A record that says it is complete names every source behind its answer, also those
\* that reached it through recaps.
SoundAnswer(a) == a.complete => a.truly \ Hidden \subseteq a.links \cup a.cited

\* While an answer is made, the earlier ones stay as they are, and only complete ones
\* are given as recaps.
SoundDraft ==
    /\ draft \in DraftRow /\ draft.before <= Len(answers)
    /\ draft.left \subseteq 1 .. draft.before
    /\ \A k \in draft.recaps : k \in 1 .. draft.before /\ answers[k].complete
    /\ SoundAnswer(draft.answer) /\ draft.answer.cited = {}

EvidenceInv ==
    /\ legible \subseteq Papers
    /\ answers \in Seq(AnswerRow)
    /\ \A k \in 1 .. Len(answers) : SoundAnswer(answers[k])
    /\ SoundDraft

-----------------------------------------------------------------------------

\* The minimum of two numbers.
LEMMA MinOfTwo == ASSUME NEW a \in Nat, NEW b \in Nat, b <= a PROVE Min({a, b}) = b
BY DEF Min

\* capture_answer_input: a record that fits its limit has all of its links.
LEMMA FittedWhole ==
    ASSUME NEW links \in SUBSET Papers, NEW carried, NEW r \in Fitted(links, carried)
    PROVE  /\ r.links \in SUBSET Papers /\ r.complete \in BOOLEAN
           /\ r.complete => r.links = links
<1>1. IsFiniteSet(links) /\ Cardinality(links) \in Nat
  BY EvidenceAssumption, FS_Subset, FS_CardinalityType
<1>2. PICK s \in kSubset(Min({LinkLimit, Cardinality(links)}), links) :
        r = [links |-> s, complete |-> Cardinality(links) <= LinkLimit]
  BY DEF Fitted
<1>3. s \in SUBSET links /\ Cardinality(s) = Min({LinkLimit, Cardinality(links)})
  BY <1>2 DEF kSubset
<1>4. ASSUME Cardinality(links) <= LinkLimit PROVE s = links
  <2>1. Cardinality(s) = Cardinality(links)
    BY <1>1, <1>3, <1>4, MinOfTwo, EvidenceAssumption
  <2> QED  BY ONLY <1>1, <1>3, <2>1, FS_Subset
<1>5. r.links = s /\ r.complete = (Cardinality(links) <= LinkLimit)
  BY <1>2
<1>6. r.complete \in BOOLEAN
  BY <1>5
<1> QED  BY <1>3, <1>4, <1>5, <1>6

LEMMA EvidenceInitially == EvidenceInit => EvidenceInv
BY DEF EvidenceInit, EvidenceInv, SoundDraft, SoundAnswer, NoDraft, NoAnswer, DraftRow, AnswerRow

LEMMA BeginPreserves == ASSUME EvidenceInv, Begin PROVE EvidenceInv'
<1>1. PICK before \in {Len(answers)} \cup {k - 1 : k \in DOMAIN answers}, given \in SUBSET legible :
        draft' = [NoDraft EXCEPT !.at = "recall", !.before = before, !.given = given,
                                 !.left = {k \in 1..before : Recallable(answers[k])}]
  BY DEF Begin
<1>2. before \in Nat /\ before <= Len(answers)
  <2>1. Len(answers) \in Nat /\ DOMAIN answers = 1 .. Len(answers)
    BY DEF EvidenceInv
  <2> QED  BY <1>1, <2>1
<1> DEFINE left == {k \in 1..before : Recallable(answers[k])}
<1>a. left \subseteq 1 .. before /\ left \in SUBSET Nat
  OBVIOUS
<1> HIDE DEF left
<1>b. draft' = [at |-> "recall", before |-> before, given |-> given, left |-> left,
                recaps |-> {}, answer |-> NoAnswer]
  BY <1>1 DEF NoDraft, left
<1>c. NoAnswer \in AnswerRow /\ SoundAnswer(NoAnswer) /\ NoAnswer.cited = {}
  BY DEF NoAnswer, AnswerRow, SoundAnswer
<1>3. /\ draft' \in DraftRow /\ draft'.before = before /\ draft'.left \subseteq 1 .. before
      /\ draft'.recaps = {} /\ SoundAnswer(draft'.answer) /\ draft'.answer.cited = {}
  BY <1>a, <1>b, <1>c, <1>2 DEF EvidenceInv, DraftRow
<1> QED  BY <1>2, <1>3 DEF Begin, EvidenceInv, SoundDraft

LEMMA ConsiderPreserves == ASSUME EvidenceInv, Consider PROVE EvidenceInv'
<1>1. PICK k \in draft.left :
        draft' = [draft EXCEPT !.left = @ \ {k},
                               !.recaps = IF Recallable(answers[k]) THEN @ \cup {k} ELSE @]
  BY DEF Consider
<1>2. k \in 1 .. draft.before
  BY <1>1 DEF EvidenceInv, SoundDraft
<1>3. /\ draft' \in DraftRow /\ draft'.before = draft.before /\ draft'.answer = draft.answer
      /\ draft'.left \subseteq draft.left
      /\ draft'.recaps = IF Recallable(answers[k]) THEN draft.recaps \cup {k} ELSE draft.recaps
  BY <1>1, <1>2 DEF EvidenceInv, SoundDraft, DraftRow
<1> QED  BY <1>2, <1>3 DEF Consider, EvidenceInv, SoundDraft, Recallable, SoundAnswer

LEMMA PackPromptPreserves == ASSUME EvidenceInv, PackPrompt PROVE EvidenceInv'
<1>1. PICK kept \in SUBSET draft.recaps :
        LET recaps == IF Cardinality(Carried(kept)) > LinkLimit THEN {} ELSE kept
        IN  \E record \in Fitted(CapturedLinks(draft.given, recaps), Carried(recaps)) :
            draft' = [draft EXCEPT !.at = "answering", !.recaps = recaps,
                !.answer = [links |-> record.links, complete |-> record.complete,
                            cited |-> {},
                            truly |-> draft.given \cup UNION {answers[k].truly : k \in recaps}]]
  BY DEF PackPrompt
<1> DEFINE recaps == IF Cardinality(Carried(kept)) > LinkLimit THEN {} ELSE kept
           links == CapturedLinks(draft.given, recaps)
           truly == draft.given \cup UNION {answers[k].truly : k \in recaps}
<1>2. PICK record \in Fitted(links, Carried(recaps)) :
        draft' = [draft EXCEPT !.at = "answering", !.recaps = recaps,
            !.answer = [links |-> record.links, complete |-> record.complete, cited |-> {},
                        truly |-> truly]]
  BY <1>1
<1>3. recaps \subseteq draft.recaps
  BY <1>1
<1> HIDE DEF recaps
<1>4. ASSUME NEW k \in recaps
      PROVE  /\ k \in 1 .. Len(answers) /\ answers[k] \in AnswerRow
             /\ answers[k].truly \ Hidden \subseteq Dependencies(answers[k])
             /\ Dependencies(answers[k]) \subseteq Papers
  <2>1. k \in 1 .. Len(answers) /\ answers[k].complete
    BY <1>3 DEF EvidenceInv, SoundDraft, DraftRow
  <2>2. answers[k] \in AnswerRow /\ SoundAnswer(answers[k])
    BY <2>1 DEF EvidenceInv
  <2> QED  BY <2>1, <2>2 DEF AnswerRow, SoundAnswer, Dependencies
<1>5. links \in SUBSET Papers /\ truly \in SUBSET Papers
  BY <1>4 DEF CapturedLinks, Carried, EvidenceInv, SoundDraft, DraftRow, AnswerRow
<1>6. truly \ Hidden \subseteq links
  BY <1>4 DEF CapturedLinks, Carried
<1> HIDE DEF links, truly
<1>7. record.links \in SUBSET Papers /\ record.complete \in BOOLEAN
      /\ (record.complete => record.links = links)
  BY <1>5, FittedWhole
<1>8. /\ draft' \in DraftRow /\ draft'.before = draft.before /\ draft'.left = draft.left
      /\ draft'.recaps = recaps
      /\ draft'.answer = [links |-> record.links, complete |-> record.complete, cited |-> {},
                          truly |-> truly]
  BY <1>2, <1>3, <1>5, <1>7 DEF EvidenceInv, SoundDraft, DraftRow, AnswerRow
<1>9. SoundAnswer(draft'.answer)
  BY <1>6, <1>7, <1>8 DEF SoundAnswer
<1> QED  BY <1>3, <1>8, <1>9 DEF PackPrompt, EvidenceInv, SoundDraft

LEMMA RecordPreserves == ASSUME EvidenceInv, Record PROVE EvidenceInv'
<1> DEFINE a == [draft.answer EXCEPT !.links = @ \ Hidden]
<1>1. draft \in DraftRow /\ draft.answer \in AnswerRow /\ SoundAnswer(draft.answer)
  BY DEF EvidenceInv, SoundDraft, DraftRow
<1>2. a \in AnswerRow /\ SoundAnswer(a)
  BY <1>1 DEF AnswerRow, SoundAnswer
<1>a. a.cited = {}
  BY <1>1 DEF EvidenceInv, SoundDraft, AnswerRow
<1>3. draft' = [draft EXCEPT !.at = "recorded", !.answer = a]
  BY <1>1 DEF Record, DraftRow
<1> HIDE DEF a
<1>4. /\ draft' \in DraftRow /\ draft'.before = draft.before /\ draft'.left = draft.left
      /\ draft'.recaps = draft.recaps /\ draft'.answer = a
  BY <1>1, <1>2, <1>3 DEF DraftRow
<1> QED  BY <1>2, <1>a, <1>4 DEF Record, EvidenceInv, SoundDraft

\* The draft is given up.
LEMMA NoDraftSound ==
    ASSUME answers' \in Seq(AnswerRow), draft' = NoDraft PROVE SoundDraft'
BY DEF SoundDraft, SoundAnswer, NoDraft, NoAnswer, DraftRow, AnswerRow

LEMMA FinishPreserves == ASSUME EvidenceInv, Finish PROVE EvidenceInv'
<1>1. PICK cited \in SUBSET draft.given :
        answers' = Append(SubSeq(answers, 1, draft.before), [draft.answer EXCEPT !.cited = cited])
  BY DEF Finish
<1> DEFINE a == [draft.answer EXCEPT !.cited = cited]
           head == SubSeq(answers, 1, draft.before)
<1>2. a \in AnswerRow
  BY <1>1 DEF EvidenceInv, SoundDraft, DraftRow, AnswerRow
<1>3. SoundAnswer(a)
  <2>1. SoundAnswer(draft.answer) /\ draft.answer \in AnswerRow /\ draft.answer.cited = {}
    BY DEF EvidenceInv, SoundDraft, DraftRow
  <2> QED  BY <2>1 DEF SoundAnswer, AnswerRow
<1>4. /\ head \in Seq(AnswerRow) /\ Len(head) = draft.before
      /\ \A k \in 1 .. draft.before : head[k] = answers[k]
  BY DEF EvidenceInv, SoundDraft, DraftRow
<1> HIDE DEF a, head
<1>5. /\ answers' \in Seq(AnswerRow) /\ Len(answers') = draft.before + 1
      /\ \A k \in 1 .. draft.before : answers'[k] = answers[k]
      /\ answers'[draft.before + 1] = a
  BY <1>1, <1>2, <1>4 DEF a, head, EvidenceInv, SoundDraft, DraftRow
<1>6. \A k \in 1 .. Len(answers') : SoundAnswer(answers'[k])
  BY <1>3, <1>5 DEF EvidenceInv, SoundDraft, DraftRow
<1> QED  BY <1>5, <1>6, NoDraftSound DEF Finish, EvidenceInv

LEMMA EvidenceStep == EvidenceInv /\ [EvidenceNext]_evars => EvidenceInv'
<1> SUFFICES ASSUME EvidenceInv, [EvidenceNext]_evars PROVE EvidenceInv'
  OBVIOUS
<1>1. CASE Discard
  BY <1>1, NoDraftSound DEF Discard, EvidenceInv
<1>2. CASE Lose
  BY <1>2 DEF Lose, EvidenceInv, SoundDraft
<1>3. CASE UNCHANGED evars
  BY <1>3 DEF evars, EvidenceInv, SoundDraft
<1> QED  BY <1>1, <1>2, <1>3, BeginPreserves, ConsiderPreserves, PackPromptPreserves,
            RecordPreserves, FinishPreserves DEF EvidenceNext

-----------------------------------------------------------------------------
(* Theorems. *)

\* A complete record names every source behind its answer, over any chain of recaps,
\* regenerations and losses of access.
THEOREM EvidenceInvariance == EvidenceSpec => []EvidenceInv
BY EvidenceInitially, EvidenceStep, PTL DEF EvidenceSpec

\* messages_for_answer: a turn is recapped only while everything its answer was made
\* from, also through recaps of recaps, may be read.
THEOREM RecapsFailClosed == EvidenceSpec => RecapFailsClosed
<1>1. EvidenceInv /\ [EvidenceNext]_evars =>
        [\A k \in draft'.recaps \ draft.recaps :
            draft'.at = "recall" => answers[k].truly \ Hidden \subseteq legible]_evars
  <2> SUFFICES ASSUME EvidenceInv, EvidenceNext, NEW k \in draft'.recaps \ draft.recaps,
                      draft'.at = "recall"
               PROVE  answers[k].truly \ Hidden \subseteq legible
    OBVIOUS
  <2>1. CASE Consider
    <3>1. PICK j \in draft.left :
            draft' = [draft EXCEPT !.left = @ \ {j},
                                   !.recaps = IF Recallable(answers[j]) THEN @ \cup {j} ELSE @]
      BY <2>1 DEF Consider
    <3>2. k = j /\ Recallable(answers[k])
      BY <3>1 DEF EvidenceInv, SoundDraft, DraftRow
    <3>3. SoundAnswer(answers[k])
      BY <3>1, <3>2 DEF EvidenceInv, SoundDraft, DraftRow
    <3> QED  BY <3>2, <3>3 DEF Recallable, Dependencies, SoundAnswer
  <2>2. CASE Begin
    BY <2>2 DEF Begin, NoDraft
  <2>3. CASE PackPrompt
    <3>1. draft'.at = "answering"
      BY <2>3 DEF PackPrompt, EvidenceInv, SoundDraft, DraftRow
    <3> QED  BY <3>1
  <2>4. CASE Record
    BY <2>4 DEF Record, EvidenceInv, SoundDraft, DraftRow
  <2>5. CASE Finish \/ Discard
    BY <2>5 DEF Finish, Discard, NoDraft
  <2>6. CASE Lose
    BY <2>6 DEF Lose
  <2> QED  BY <2>1, <2>2, <2>3, <2>4, <2>5, <2>6 DEF EvidenceNext
<1> QED  BY <1>1, EvidenceInvariance, PTL DEF EvidenceSpec, RecapFailsClosed
=============================================================================
