------------------------- MODULE QuestionnaireProofs -------------------------
(***************************************************************************)
(* Proofs about the questionnaire: the page on which it is written, for    *)
(* any titles, saved questions and bounds; the options of a choice         *)
(* question, for any letters; and the form that is saved and the responses *)
(* that are rewritten after it, for any pages, form codes and bounds.      *)
(***************************************************************************)
EXTENDS QuestionnaireBuilder, OptionList, QuestionnaireStore, FiniteSetTheorems,
        NaturalsInduction, WellFoundedInduction, TLAPS

-----------------------------------------------------------------------------
(***************************************************************************)
(* Sequences, and the natural numbers.                                     *)
(***************************************************************************)
LEMMA TakenOut ==
  ASSUME NEW V, NEW q \in Seq(V), NEW i \in 1..Len(q)
  PROVE  /\ RemoveAt(q, i) \in Seq(V) /\ Len(RemoveAt(q, i)) = Len(q) - 1
         /\ \A j \in 1..Len(q)-1 : RemoveAt(q, i)[j] = IF j < i THEN q[j] ELSE q[j+1]
<1> DEFINE a == SubSeq(q, 1, i-1)
           b == SubSeq(q, i+1, Len(q))
           r == RemoveAt(q, i)
<1>1. Len(q) \in Nat
  OBVIOUS
<1>2. a \in Seq(V) /\ Len(a) = i-1 /\ \A j \in 1..i-1 : a[j] = q[j]
  OBVIOUS
<1>3. b \in Seq(V) /\ Len(b) = Len(q) - i /\ \A j \in 1..Len(q)-i : b[j] = q[i+j]
  OBVIOUS
<1>4. r = a \o b
  BY DEF RemoveAt
<1>. HIDE DEF a, b, r
<1>5. r \in Seq(V) /\ Len(r) = Len(q) - 1
  BY <1>1, <1>2, <1>3, <1>4
<1>6. ASSUME NEW j \in 1..Len(q)-1 PROVE r[j] = IF j < i THEN q[j] ELSE q[j+1]
  <2>1. CASE j < i
    <3>1. r[j] = a[j] /\ j \in 1..i-1
      BY <1>1, <1>2, <1>3, <1>4, <2>1
    <3>. QED
      BY <3>1, <1>2, <2>1
  <2>2. CASE ~(j < i)
    <3>1. r[j] = b[j-(i-1)] /\ j-(i-1) \in 1..Len(q)-i
      BY <1>1, <1>2, <1>3, <1>4, <2>2
    <3>2. b[j-(i-1)] = q[i+(j-(i-1))] /\ i+(j-(i-1)) = j+1
      BY <1>1, <1>3, <3>1
    <3>. QED
      BY <3>1, <3>2, <2>2
  <2>. QED
    BY <2>1, <2>2
<1>. QED
  BY <1>5, <1>6 DEF r

LEMMA Joined ==
  ASSUME NEW V, NEW q \in Seq(V), NEW r \in Seq(V)
  PROVE  q \o r \in Seq(V) /\ Len(q \o r) = Len(q) + Len(r)
  OBVIOUS

LEMMA Appended ==
  ASSUME NEW V, NEW q \in Seq(V), NEW x \in V
  PROVE  /\ Append(q, x) \in Seq(V) /\ Append(q, x) # <<>> /\ Last(Append(q, x)) = x
<1>1. Len(q) \in Nat /\ Append(q, x) \in Seq(V) /\ Len(Append(q, x)) = Len(q) + 1
      /\ Append(q, x)[Len(q) + 1] = x
  OBVIOUS
<1>. QED
  BY <1>1 DEF Last

LEMMA LeastNat ==
  ASSUME NEW T \in SUBSET Nat, T # {}
  PROVE  \E m \in T : \A k \in T : m <= k
<1>1. PICK m \in T : \A k \in T : ~(<<k, m>> \in OpToRel(<, Nat))
  BY WFMin, NatLessThanWellFounded
<1>2. ASSUME NEW k \in T PROVE m <= k
  <2>1. ~(k < m)
    BY <1>1 DEF OpToRel
  <2>2. k \in Nat /\ m \in Nat
    OBVIOUS
  <2>. QED
    BY <2>1, <2>2
<1>. QED
  BY <1>2

(* The highest of the numbers below a bound.                               *)
LEMMA Highest ==
  ASSUME NEW S \in SUBSET Nat, S # {}, NEW b \in Nat, \A x \in S : x <= b
  PROVE  Max(S) \in S /\ \A x \in S : x <= Max(S)
<1> DEFINE T == {c \in Nat : \A x \in S : x <= c}
<1>1. PICK m \in T : \A c \in T : m <= c
  <2>1. T \subseteq Nat /\ b \in T
    OBVIOUS
  <2>. HIDE DEF T
  <2>. QED
    BY <2>1, LeastNat
<1>2. m \in Nat /\ \A x \in S : x <= m
  BY <1>1
<1>3. m \in S
  <2>. SUFFICES ASSUME m \notin S PROVE FALSE
    OBVIOUS
  <2>1. \A x \in S : x <= m - 1 /\ 0 <= m - 1
    BY <1>2
  <2>2. m - 1 \in T
    <3>1. PICK x \in S : TRUE
      OBVIOUS
    <3>2. m - 1 \in Nat
      BY <1>2, <2>1, <3>1
    <3>. QED
      BY <2>1, <3>2
  <2>3. m <= m - 1
    BY <1>1, <2>2
  <2>. QED
    BY <1>2, <2>3
<1>4. \A x \in S : m >= x
  BY <1>2
<1>5. PICK k \in S : k = Max(S) /\ \A x \in S : k >= x
  BY <1>3, <1>4 DEF Max
<1>. QED
  BY <1>5

LEMMA Lowest ==
  ASSUME NEW S \in SUBSET Nat, S # {}
  PROVE  Min(S) \in S
<1>1. PICK m \in S : \A x \in S : m <= x
  BY LeastNat
<1>. QED
  BY <1>1 DEF Min

(* Finitely many numbers are bounded.                                      *)
LEMMA Bounded ==
  ASSUME NEW n \in Nat, NEW s \in [1..n -> Nat]
  PROVE  \E b \in Nat : \A i \in 1..n : s[i] <= b
<1> DEFINE Has(m) == \E b \in Nat : \A i \in 1..m : s[i] <= b
           T == {m \in 0..n : ~Has(m)}
<1>. SUFFICES ASSUME T # {} PROVE FALSE
  <2>1. n \in 0..n
    OBVIOUS
  <2>2. T = {} => Has(n)
    BY <2>1
  <2>. QED
    BY <2>2
<1>1. PICK m \in T : \A k \in T : m <= k
  <2>1. T \subseteq Nat
    BY DEF T
  <2>. HIDE DEF T
  <2>. QED
    BY <2>1, LeastNat
<1>2. m \in 0..n /\ m # 0
  <2>1. Has(0)
    <3>1. 1..0 = {}
      OBVIOUS
    <3>. QED
      BY <3>1
  <2>. QED
    BY <1>1, <2>1 DEF T
<1>3. m-1 \in 0..n /\ ~(m <= m-1) /\ m \in 1..n /\ \A i \in 1..m : i \in 1..m-1 \/ i = m
  BY <1>2
<1>4. PICK b \in Nat : \A i \in 1..m-1 : s[i] <= b
  BY <1>1, <1>3
<1>5. CASE s[m] <= b
  BY <1>1, <1>3, <1>4, <1>5
<1>6. CASE ~(s[m] <= b)
  <2>1. s[m] \in Nat /\ b <= s[m]
    BY <1>3, <1>6
  <2>2. ASSUME NEW i \in 1..m PROVE s[i] <= s[m]
    <3>1. CASE i = m
      BY <2>1, <3>1
    <3>2. CASE i \in 1..m-1
      <4>1. s[i] <= b /\ s[i] \in Nat
        <5>1. i \in 1..n
          BY <1>3, <3>2
        <5>. QED
          BY <1>4, <3>2, <5>1
      <4> DEFINE x == s[i]
                 y == s[m]
      <4>2. x <= b /\ b <= y /\ x \in Nat /\ y \in Nat /\ b \in Nat
        BY <2>1, <4>1
      <4>. HIDE DEF x, y
      <4>3. x <= y
        BY <4>2
      <4>. QED
        BY <4>3 DEF x, y
    <3>. QED
      BY <1>3, <3>1, <3>2
  <2>3. Has(m)
    BY <2>1, <2>2
  <2>. QED
    BY <1>1, <2>3
<1>. QED
  BY <1>5, <1>6

-----------------------------------------------------------------------------
(***************************************************************************)
(* QuestionnaireBuilder.  A list of questions as the page shows it.        *)
(***************************************************************************)
SoundList(k, s, sel) ==
  /\ s \in Seq(Question) /\ Len(s) > 0
  /\ \A i, j \in 1..Len(s) : s[i].id = s[j].id => i = j
  /\ \E i \in 1..Len(s) : s[i].id = sel
  /\ \A i \in 1..Len(s) : s[i].id # sel => s[i].title # 0
  /\ \A i \in 1..Len(s) : s[i].title > 0 => s[i].title = i
  /\ \A i, j \in 1..Len(s) : s[i].name > 0 /\ s[i].name = s[j].name => i = j
  /\ k = "subject" => /\ \A i \in 1..Len(s) : s[i].title <= 0
                      /\ s[Len(s)].role = "fixed" /\ s[Len(s)].name = 0

(* The new questions of a list are none of the saved; the list is what was *)
(* saved, with new questions after it.                                     *)
NewApart(s, l) == \A i \in 1..Len(s) : s[i].new => s[i].id \notin Ids(l)
Extends(s, l) ==
  /\ Len(l) <= Len(s)
  /\ \A i \in 1..Len(l) : s[i].id = l[i].id /\ s[i].title = l[i].title
  /\ \A i \in 1..Len(s) : i > Len(l) => s[i].new

BuilderShape ==
  /\ kind \in {"create", "edit", "subject", "tab"}
  /\ loaded \in Seq(Question) /\ Len(questions) <= MaxQuestions /\ Len(loaded) \in 1..MaxQuestions
  /\ dialogs \subseteq {"delete", "period", "save", "flip", "inform"}
  /\ code \in {1, 2} /\ savedCode \in {1, 2}
  /\ report \in Reports /\ reportLoaded \in Reports /\ posts \in 0..MaxPosts

(* A warning about a deletion stands alone, and over a question that may   *)
(* be deleted.                                                             *)
ListInv ==
  /\ SoundList(kind, questions, selectedQuestion)
  /\ NewApart(questions, loaded)
  /\ \A d, e \in dialogs \ {"inform"} : d = e
  /\ dialogs \cap {"delete", "period"} # {} =>
       /\ kind # "tab"
       /\ \A i \in 1..Len(questions) : questions[i].id = selectedQuestion => questions[i].role # "fixed"

(* Only a new project has reports to choose from, and no data.             *)
ReportInv ==
  /\ kind = "create" => ~answered /\ (~hasAddedNewQuestions => \A i \in 1..Len(questions) : ~questions[i].new)
  /\ kind # "create" => report = reportLoaded /\ "flip" \notin dialogs
  /\ ReportMatchesQuestions

(* Every saved question that was removed was noted.                        *)
LossInv ==
  /\ kind # "create" /\ ~(Ids(loaded) \subseteq Ids(questions)) => kind # "tab" /\ hasDeletedOldQuestion
  /\ is_continue => confirmed

(* While nothing old was changed, the list extends the saved one.          *)
TextInv ==
  /\ kind \in {"edit", "tab"} /\ ~questionnaire_was_changed => Extends(questions, loaded) /\ code = savedCode
  /\ kind = "tab" => code = savedCode

BuilderInv == BuilderShape /\ ListInv /\ ReportInv /\ LossInv /\ TextInv /\ NotBlockedForGood

LEMMA QuestionFields ==
  ASSUME NEW s \in Seq(Question)
  PROVE  /\ Len(s) \in Nat /\ DOMAIN s = 1..Len(s)
         /\ \A i \in 1..Len(s) : s[i] \in Question /\ s[i].id \in Nat /\ s[i].title \in Int
              /\ s[i].name \in Nat /\ s[i].new \in BOOLEAN
<1>1. Len(s) \in Nat /\ DOMAIN s = 1..Len(s) /\ \A i \in 1..Len(s) : s[i] \in Question
  OBVIOUS
<1>. QED
  BY <1>1 DEF Question

(* A list without one of its questions, numbered again.                    *)
LEMMA Renumbered ==
  ASSUME NEW s \in Seq(Question), NEW i \in 1..Len(s)
  PROVE  LET r == renumberQuestions(RemoveAt(s, i))
         IN /\ r \in Seq(Question) /\ Len(r) = Len(s) - 1
            /\ \A j \in 1..Len(s)-1 : LET o == IF j < i THEN s[j] ELSE s[j+1] IN
                 /\ r[j].id = o.id /\ r[j].name = o.name /\ r[j].role = o.role /\ r[j].new = o.new
                 /\ r[j].title = IF o.title > 0 THEN j ELSE o.title
<1> DEFINE a == RemoveAt(s, i)
           r == renumberQuestions(a)
           n == Len(s)
<1>1. a \in Seq(Question) /\ Len(a) = n-1 /\ n \in Nat
      /\ \A j \in 1..n-1 : a[j] = IF j < i THEN s[j] ELSE s[j+1]
  BY TakenOut
<1>. HIDE DEF a, n
<1>2. DOMAIN a = 1..n-1
  BY <1>1
<1>3. ASSUME NEW j \in 1..n-1
      PROVE  /\ r[j] \in Question
             /\ r[j].id = a[j].id /\ r[j].name = a[j].name /\ r[j].role = a[j].role /\ r[j].new = a[j].new
             /\ r[j].title = IF a[j].title > 0 THEN j ELSE a[j].title
  <2>1. r[j] = IF a[j].title > 0 THEN [a[j] EXCEPT !.title = j] ELSE a[j]
    BY <1>2 DEF renumberQuestions
  <2>2. a[j] \in Question /\ j \in Int
    BY <1>1
  <2>. HIDE DEF r
  <2>3. CASE a[j].title > 0
    <3>1. r[j] = [a[j] EXCEPT !.title = j]
      BY <2>1, <2>3
    <3>. QED
      BY <2>2, <2>3, <3>1 DEF Question
  <2>4. CASE ~(a[j].title > 0)
    BY <2>1, <2>2, <2>4
  <2>. QED
    BY <2>3, <2>4
<1>4. r \in Seq(Question) /\ Len(r) = n-1
  <2>1. r = [j \in 1..n-1 |-> r[j]]
    BY <1>2 DEF renumberQuestions
  <2>2. n-1 \in Nat
    BY <1>1 DEF n
  <2>. HIDE DEF r
  <2>. QED
    BY <1>3, <2>1, <2>2
<1>. HIDE DEF r
<1>5. ASSUME NEW j \in 1..n-1
      PROVE  LET o == IF j < i THEN s[j] ELSE s[j+1] IN
                 /\ r[j].id = o.id /\ r[j].name = o.name /\ r[j].role = o.role /\ r[j].new = o.new
                 /\ r[j].title = IF o.title > 0 THEN j ELSE o.title
  <2>1. a[j] = IF j < i THEN s[j] ELSE s[j+1]
    BY <1>1
  <2>. QED
    BY <1>3, <2>1
<1>. QED
  BY <1>4, <1>5 DEF r, a, n

LEMMA IdsCount ==
  ASSUME NEW s \in Seq(Question)
  PROVE  IsFiniteSet(Ids(s)) /\ Cardinality(Ids(s)) \in Nat /\ Cardinality(Ids(s)) <= Len(s)
<1> DEFINE f == [i \in 1..Len(s) |-> s[i].id]
<1>1. Len(s) \in Nat /\ DOMAIN s = 1..Len(s)
  OBVIOUS
<1>2. f \in Surjection(1..Len(s), Ids(s))
  BY <1>1 DEF Ids, Surjection
<1>3. IsFiniteSet(1..Len(s)) /\ Cardinality(1..Len(s)) = Len(s)
  BY <1>1, FS_Interval
<1>. HIDE DEF f
<1>4. IsFiniteSet(Ids(s)) /\ Cardinality(Ids(s)) <= Len(s)
  BY <1>2, <1>3, FS_Surjection
<1>. QED
  BY <1>4, FS_CardinalityType

(* There is an id for a new question.                                      *)
LEMMA FreeId ==
  ASSUME questions \in Seq(Question), loaded \in Seq(Question),
         Len(questions) <= MaxQuestions, Len(loaded) <= MaxQuestions
  PROVE  Min((3..2 * MaxQuestions + 3) \ (Ids(questions) \cup Ids(loaded)))
           \in Nat \ (Ids(questions) \cup Ids(loaded))
<1> DEFINE used == Ids(questions) \cup Ids(loaded)
           all == 3..2 * MaxQuestions + 3
           a == Cardinality(Ids(questions))
           b == Cardinality(Ids(loaded))
<1>1. MaxQuestions \in Nat /\ Len(questions) \in Nat /\ Len(loaded) \in Nat
  BY BuilderAssumption
<1>2. a \in Nat /\ b \in Nat /\ a <= Len(questions) /\ b <= Len(loaded)
      /\ IsFiniteSet(Ids(questions)) /\ IsFiniteSet(Ids(loaded))
  BY IdsCount
<1>3. IsFiniteSet(used) /\ Cardinality(used) = a + b - Cardinality(Ids(questions) \cap Ids(loaded))
  BY <1>2, FS_Union
<1>4. Cardinality(Ids(questions) \cap Ids(loaded)) \in Nat
  BY <1>2, FS_Intersection, FS_CardinalityType
<1>5. IsFiniteSet(all) /\ Cardinality(all) = 2 * MaxQuestions + 1
  <2>. DEFINE top == 2 * MaxQuestions + 3
  <2>1. top \in Nat /\ 3 \in Int /\ top \in Int /\ top >= 3 /\ top - 3 + 1 = 2 * MaxQuestions + 1
    BY <1>1
  <2>. HIDE DEF top
  <2>2. IsFiniteSet(3..top) /\ Cardinality(3..top) = IF 3 > top THEN 0 ELSE top - 3 + 1
    BY <2>1, FS_Interval
  <2>3. Cardinality(3..top) = top - 3 + 1
    BY <2>1, <2>2
  <2>. QED
    BY <2>1, <2>2, <2>3 DEF top
<1>. HIDE DEF a, b
<1>6. Cardinality(used) \in Nat /\ Cardinality(used) < 2 * MaxQuestions + 1
  <2>1. Cardinality(used) \in Nat
    BY <1>3, FS_CardinalityType
  <2>. HIDE DEF used
  <2>. QED
    BY <1>1, <1>2, <1>3, <1>4, <2>1
<1>. HIDE DEF used, all
<1>7. all \ used # {}
  <2>. SUFFICES ASSUME all \subseteq used PROVE FALSE
    OBVIOUS
  <2>1. Cardinality(all) <= Cardinality(used)
    BY <1>3, FS_Subset
  <2>. QED
    BY <1>1, <1>5, <1>6, <2>1
<1>8. all \ used \in SUBSET Nat
  BY <1>1 DEF all
<1>9. Min(all \ used) \in all \ used
  BY <1>7, <1>8, Lowest
<1>. QED
  BY <1>8, <1>9 DEF all, used

LEMMA NewOne ==
  ASSUME questions \in Seq(Question), loaded \in Seq(Question),
         Len(questions) <= MaxQuestions, Len(loaded) <= MaxQuestions, NEW s \in Seq(Question)
  PROVE  LET q == NewQuestion(s)
         IN /\ q \in Question /\ q.new /\ q.role = "plain" /\ q.title # 0
            /\ q.id \notin Ids(questions) /\ q.id \notin Ids(loaded)
            /\ kind = "subject" => /\ q.title = PlainTitle /\ q.name > 0
                                   /\ \A i \in 1..Len(s) : s[i].name < q.name
            /\ kind # "subject" => q.title = Len(s) + 1 /\ q.name = 0
<1> DEFINE q == NewQuestion(s)
           d == Min((3..2 * MaxQuestions + 3) \ (Ids(questions) \cup Ids(loaded)))
           n == next_question_name_generator(s)
           names == {s[i].name : i \in DOMAIN s}
           S == {1, Len(s)} \cup names
<1>1. /\ Len(s) \in Nat /\ DOMAIN s = 1..Len(s)
      /\ \A i \in 1..Len(s) : s[i].name \in Nat
  BY QuestionFields
<1>2. Max(S) \in S /\ \A x \in S : x <= Max(S)
  <2>1. [i \in 1..Len(s) |-> s[i].name] \in [1..Len(s) -> Nat]
    BY <1>1
  <2>2. PICK b \in Nat : \A i \in 1..Len(s) : [j \in 1..Len(s) |-> s[j].name][i] <= b
    BY <1>1, <2>1, Bounded
  <2>3. \A i \in 1..Len(s) : s[i].name <= b
    BY <2>2
  <2>4. b + Len(s) + 1 \in Nat /\ \A x \in S : x <= b + Len(s) + 1
    <3>1. ASSUME NEW x \in S PROVE x <= b + Len(s) + 1
      <4>1. CASE x = 1 \/ x = Len(s)
        <5>. HIDE DEF S, names
        <5>1. b \in Nat
          OBVIOUS
        <5>2. CASE x = 1
          BY <1>1, <5>1, <5>2
        <5>3. CASE x = Len(s)
          BY <1>1, <5>1, <5>3
        <5>. QED
          BY <4>1, <5>2, <5>3
      <4>2. CASE x \in names
        <5>1. PICK i \in 1..Len(s) : x = s[i].name
          BY <1>1, <4>2
        <5>. QED
          BY <1>1, <2>2, <2>3, <5>1
      <4>. QED
        BY <4>1, <4>2
    <3>2. b \in Nat
      BY <2>2
    <3>. HIDE DEF S, names
    <3>. QED
      BY <1>1, <3>1, <3>2
  <2>5. S \in SUBSET Nat /\ S # {}
    BY <1>1
  <2>. HIDE DEF S
  <2>. QED
    BY <2>4, <2>5, Highest
<1>3. kind = "subject" => n = Max(S) + 1 /\ Max(S) \in Nat /\ n > 0 /\ \A i \in 1..Len(s) : s[i].name < n
  <2>1. Max(S) \in Nat /\ \A i \in 1..Len(s) : s[i].name <= Max(S)
    <3>1. S \subseteq Nat
      BY <1>1
    <3>2. \A i \in 1..Len(s) : s[i].name \in S
      BY <1>1
    <3>. HIDE DEF S
    <3>. QED
      BY <1>2, <3>1, <3>2
  <2>2. kind = "subject" => n = Max(S) + 1
    BY DEF next_question_name_generator
  <2>. HIDE DEF n, S
  <2>. QED
    BY <1>1, <2>1, <2>2
<1>4. kind # "subject" => n = Len(s) + 1
  BY DEF next_question_name_generator
<1>5. d \in Nat /\ d \notin Ids(questions) /\ d \notin Ids(loaded)
  BY FreeId
<1>6. q = [id |-> d, code |-> 0, title |-> IF kind = "subject" THEN PlainTitle ELSE n,
           name |-> IF kind = "subject" THEN n ELSE 0, role |-> "plain", new |-> TRUE]
  BY DEF NewQuestion
<1>. HIDE DEF q, d, n, S
<1>7. n \in Nat /\ n # 0
  BY <1>1, <1>3, <1>4
<1>8. q \in Question
  BY <1>5, <1>6, <1>7 DEF Question, PlainTitle
<1>9. /\ q.new /\ q.role = "plain" /\ q.title # 0 /\ q.id = d
      /\ kind = "subject" => q.title = PlainTitle /\ q.name = n
      /\ kind # "subject" => q.title = n /\ q.name = 0
  BY <1>6, <1>7 DEF PlainTitle
<1>10. kind = "subject" => q.name > 0 /\ \A i \in 1..Len(s) : s[i].name < q.name
  BY <1>3, <1>9
<1>11. kind # "subject" => q.title = Len(s) + 1
  BY <1>4, <1>9
<1>. QED
  BY <1>5, <1>8, <1>9, <1>10, <1>11 DEF q

(* A list is sound with one question more, after the first p.              *)
LEMMA Grown ==
  ASSUME NEW k, NEW s, NEW sel, SoundList(k, s, sel), NEW p \in {Len(s)-1, Len(s)},
         k = "subject" => p = Len(s)-1, k # "subject" => p = Len(s),
         NEW q \in Question, q.id \notin Ids(s), q.title # 0, k = "subject" => q.title <= 0,
         k # "subject" => q.title = Len(s) + 1,
         \A i \in 1..Len(s) : s[i].title # 0,
         \A i \in 1..Len(s) : q.name > 0 => s[i].name # q.name,
         NEW r \in Seq(Question), Len(r) = Len(s) + 1,
         \A j \in 1..Len(s)+1 : r[j] = IF j <= p THEN s[j] ELSE IF j = p+1 THEN q ELSE s[j-1]
  PROVE  SoundList(k, r, q.id)
<1> DEFINE n == Len(s)
<1>1. /\ n \in Nat \ {0} /\ p \in Nat /\ p \in {n-1, n}
      /\ \A i \in 1..n : s[i].title \in Int /\ s[i].id \in Nat /\ s[i].name \in Nat
      /\ q.title \in Int /\ q.id \in Nat /\ q.name \in Nat
      /\ \A i \in 1..n : s[i].id # q.id
  <2>1. s \in Seq(Question) /\ n > 0
    BY DEF SoundList
  <2>2. n \in Nat /\ DOMAIN s = 1..n /\ \A i \in 1..n : s[i].title \in Int /\ s[i].id \in Nat /\ s[i].name \in Nat
    BY <2>1, QuestionFields
  <2>3. q.title \in Int /\ q.id \in Nat /\ q.name \in Nat
    BY DEF Question
  <2>4. \A i \in 1..n : s[i].id # q.id
    BY <2>2 DEF Ids
  <2>5. p \in Nat /\ p \in {n-1, n} /\ n \in Nat \ {0}
    <3>1. n > 0 /\ n \in Nat /\ p \in {n-1, n}
      BY <2>1, <2>2
    <3>. HIDE DEF n
    <3>. QED
      BY <3>1
  <2>. QED
    BY <2>2, <2>3, <2>4, <2>5
<1>2. ASSUME NEW j \in 1..n+1, j # p+1
      PROVE  \E c \in 1..n : r[j] = s[c] /\ (j <= p => c = j) /\ (j > p => c = j-1 /\ j = n+1 /\ k = "subject")
  <2>1. CASE j <= p
    BY <1>1, <2>1
  <2>2. CASE ~(j <= p)
    <3>1. j-1 \in 1..n /\ j > p /\ j = n+1 /\ p = n-1
      BY <1>1, <1>2, <2>2
    <3>2. k = "subject" /\ r[j] = s[j-1]
      BY <1>1, <1>2, <2>2, <3>1
    <3>. QED
      BY <1>1, <3>1, <3>2
  <2>. QED
    BY <2>1, <2>2
<1>3. p+1 \in 1..n+1 /\ r[p+1] = q
  BY <1>1
<1>4. ASSUME NEW i \in 1..n+1, NEW j \in 1..n+1, r[i].id = r[j].id PROVE i = j
  <2>1. CASE i = p+1 /\ j = p+1
    BY <2>1
  <2>2. CASE i = p+1 /\ j # p+1
    BY <1>1, <1>2, <1>3, <1>4, <2>2
  <2>3. CASE i # p+1 /\ j = p+1
    BY <1>1, <1>2, <1>3, <1>4, <2>3
  <2>4. CASE i # p+1 /\ j # p+1
    <3>1. PICK c \in 1..n : r[i] = s[c] /\ (i <= p => c = i) /\ (i > p => c = i-1 /\ i = n+1)
      BY <1>2, <2>4
    <3>2. PICK d \in 1..n : r[j] = s[d] /\ (j <= p => d = j) /\ (j > p => d = j-1 /\ j = n+1)
      BY <1>2, <2>4
    <3>3. c = d
      BY <1>4, <3>1, <3>2 DEF SoundList
    <3>. QED
      BY <1>1, <2>4, <3>1, <3>2, <3>3
  <2>. QED
    BY <2>1, <2>2, <2>3, <2>4
<1>5. ASSUME NEW i \in 1..n+1, NEW j \in 1..n+1, r[i].name > 0, r[i].name = r[j].name PROVE i = j
  <2>1. CASE i = p+1 /\ j = p+1
    BY <2>1
  <2>2. CASE i = p+1 /\ j # p+1
    BY <1>1, <1>2, <1>3, <1>5, <2>2
  <2>3. CASE i # p+1 /\ j = p+1
    BY <1>1, <1>2, <1>3, <1>5, <2>3
  <2>4. CASE i # p+1 /\ j # p+1
    <3>1. PICK c \in 1..n : r[i] = s[c] /\ (i <= p => c = i) /\ (i > p => c = i-1 /\ i = n+1)
      BY <1>2, <2>4
    <3>2. PICK d \in 1..n : r[j] = s[d] /\ (j <= p => d = j) /\ (j > p => d = j-1 /\ j = n+1)
      BY <1>2, <2>4
    <3>3. c = d
      BY <1>5, <3>1, <3>2 DEF SoundList
    <3>. QED
      BY <1>1, <2>4, <3>1, <3>2, <3>3
  <2>. QED
    BY <2>1, <2>2, <2>3, <2>4
<1>6. ASSUME NEW j \in 1..n+1
      PROVE  /\ r[j].title # 0 /\ (r[j].title > 0 => r[j].title = j)
             /\ k = "subject" => r[j].title <= 0
  <2>1. CASE j = p+1
    BY <1>1, <1>3, <2>1
  <2>2. CASE j # p+1
    <3>1. PICK c \in 1..n : r[j] = s[c] /\ (j <= p => c = j) /\ (j > p => k = "subject")
      BY <1>2, <2>2
    <3>2. s[c].title # 0 /\ (s[c].title > 0 => s[c].title = c) /\ (k = "subject" => s[c].title <= 0)
      BY <1>1 DEF SoundList
    <3>. QED
      BY <1>1, <2>2, <3>1, <3>2
  <2>. QED
    BY <2>1, <2>2
<1>7. k = "subject" => r[n+1].role = "fixed" /\ r[n+1].name = 0
  <2>1. k = "subject" => r[n+1] = s[n]
    BY <1>1
  <2>. QED
    BY <2>1 DEF SoundList
<1>8. \E j \in 1..n+1 : r[j].id = q.id
  BY <1>3
<1>9. Len(r) > 0
  BY <1>1
<1>. QED
  BY <1>4, <1>5, <1>6, <1>7, <1>8, <1>9 DEF SoundList

(* And with one less.                                                      *)
LEMMA Shrunk ==
  ASSUME NEW k, NEW s, NEW sel, SoundList(k, s, sel), NEW i \in 1..Len(s), Len(s) > 1,
         k = "subject" => s[i].role # "fixed",
         \A j \in 1..Len(s) : j # i => s[j].title # 0,
         NEW r, r = renumberQuestions(RemoveAt(s, i)), NEW m \in 1..Len(s)-1
  PROVE  /\ SoundList(k, r, r[m].id) /\ Len(r) = Len(s)-1
         /\ Ids(s) \ {s[i].id} \subseteq Ids(r) /\ Ids(r) \subseteq Ids(s) \ {s[i].id}
<1> DEFINE n == Len(s)
           C(j) == IF j < i THEN j ELSE j+1
<1>1. /\ s \in Seq(Question) /\ n \in Nat \ {0} /\ DOMAIN s = 1..n
      /\ \A j \in 1..n : s[j].title \in Int /\ s[j].id \in Nat /\ s[j].name \in Nat
  BY QuestionFields DEF SoundList
<1>2. /\ r \in Seq(Question) /\ Len(r) = n - 1
      /\ \A j \in 1..n-1 : LET o == IF j < i THEN s[j] ELSE s[j+1] IN
                 /\ r[j].id = o.id /\ r[j].name = o.name /\ r[j].role = o.role /\ r[j].new = o.new
                 /\ r[j].title = IF o.title > 0 THEN j ELSE o.title
  BY <1>1, Renumbered
<1>. HIDE DEF n
<1>3. ASSUME NEW j \in 1..n-1
      PROVE  /\ C(j) \in 1..n /\ C(j) # i
             /\ r[j].id = s[C(j)].id /\ r[j].name = s[C(j)].name /\ r[j].role = s[C(j)].role
             /\ r[j].title = IF s[C(j)].title > 0 THEN j ELSE s[C(j)].title
  <2>1. CASE j < i
    BY <1>1, <1>2, <2>1 DEF n
  <2>2. CASE ~(j < i)
    BY <1>1, <1>2, <2>2 DEF n
  <2>. QED
    BY <2>1, <2>2
<1>4. \A a, b \in 1..n-1 : C(a) = C(b) => a = b
  BY <1>1
<1>5. ASSUME NEW c \in 1..n, c # i PROVE \E j \in 1..n-1 : C(j) = c
  <2>1. CASE c < i
    <3>1. c \in 1..n-1 /\ C(c) = c
      BY <1>1, <2>1 DEF n
    <3>. QED
      BY <3>1
  <2>2. CASE c > i
    <3>1. c-1 \in 1..n-1 /\ C(c-1) = c
      BY <1>1, <2>2 DEF n
    <3>. QED
      BY <3>1
  <2>. QED
    BY <1>1, <1>5, <2>1, <2>2 DEF n
<1>. HIDE DEF C
<1>6. \A a, b \in 1..n-1 : r[a].id = r[b].id => a = b
  <2>1. \A a, b \in 1..n : s[a].id = s[b].id => a = b
    BY DEF SoundList, n
  <2>. QED
    BY <1>3, <1>4, <2>1
<1>7. \A a, b \in 1..n-1 : r[a].name > 0 /\ r[a].name = r[b].name => a = b
  <2>1. \A a, b \in 1..n : s[a].name > 0 /\ s[a].name = s[b].name => a = b
    BY DEF SoundList, n
  <2>. QED
    BY <1>3, <1>4, <2>1
<1>8. ASSUME NEW j \in 1..n-1
      PROVE  /\ r[j].title # 0 /\ (r[j].title > 0 => r[j].title = j)
             /\ k = "subject" => r[j].title <= 0
  <2>1. s[C(j)].title # 0 /\ s[C(j)].title \in Int /\ j \in Nat /\ j # 0
    BY <1>1, <1>3 DEF n
  <2>2. k = "subject" => s[C(j)].title <= 0
    BY <1>3 DEF SoundList, n
  <2>. QED
    BY <1>3, <2>1, <2>2
<1>9. k = "subject" => r[n-1].role = "fixed" /\ r[n-1].name = 0
  <2>. SUFFICES ASSUME k = "subject" PROVE r[n-1].role = "fixed" /\ r[n-1].name = 0
    OBVIOUS
  <2>1. s[n].role = "fixed" /\ s[n].name = 0
    BY DEF SoundList, n
  <2>2. i # n
    BY <2>1
  <2>3. n-1 \in 1..n-1 /\ C(n-1) = n
    <3>1. i \in 1..n /\ n > 1 /\ n \in Nat
      BY <1>1 DEF n
    <3>. QED
      BY <2>2, <3>1 DEF C
  <2>4. r[n-1].role = s[C(n-1)].role /\ r[n-1].name = s[C(n-1)].name
    BY <1>3, <2>3
  <2>. QED
    BY <2>1, <2>3, <2>4
<1>. DOMAIN r = 1..n-1 /\ DOMAIN s = 1..n /\ i \in 1..n
  BY <1>1, <1>2 DEF n
<1>10. ASSUME NEW d \in Ids(s) \ {s[i].id} PROVE d \in Ids(r)
  <2>1. PICK c \in 1..n : s[c].id = d /\ c # i
    BY DEF Ids
  <2>2. PICK j \in 1..n-1 : C(j) = c
    BY <1>5, <2>1
  <2>3. r[j].id = d
    BY <1>3, <2>1, <2>2
  <2>. QED
    BY <2>3 DEF Ids
<1>11. ASSUME NEW d \in Ids(r) PROVE d \in Ids(s) \ {s[i].id}
  <2>1. PICK j \in 1..n-1 : r[j].id = d
    BY DEF Ids
  <2>2. C(j) \in 1..n /\ C(j) # i /\ s[C(j)].id = d
    BY <1>3, <2>1
  <2>3. \A a, b \in 1..n : s[a].id = s[b].id => a = b
    BY DEF SoundList, n
  <2>. QED
    BY <2>2, <2>3 DEF Ids
<1>12. Len(r) > 0 /\ \E j \in 1..n-1 : r[j].id = r[m].id
  <2>1. n > 1 /\ n \in Nat
    BY <1>1 DEF n
  <2>2. m \in 1..n-1
    BY DEF n
  <2>. QED
    BY <1>2, <2>1, <2>2
<1>. QED
  BY <1>2, <1>6, <1>7, <1>8, <1>9, <1>10, <1>11, <1>12 DEF SoundList, n

(* The question that is shown, and a form that is valid.                    *)
LEMMA OneShown ==
  ASSUME SoundList(kind, questions, selectedQuestion)
  PROVE  /\ questions \in Seq(Question) /\ Len(questions) \in Nat \ {0} /\ DOMAIN questions = 1..Len(questions)
         /\ \A i \in 1..Len(questions) : questions[i].new \in BOOLEAN
         /\ Position \in 1..Len(questions) /\ questions[Position].id = selectedQuestion
         /\ \A i \in 1..Len(questions) : questions[i].id = selectedQuestion => i = Position
         /\ FormValid => \A i \in 1..Len(questions) : questions[i].title # 0
         /\ \A i \in 1..Len(questions) : i # Position => questions[i].title # 0
<1>1. /\ questions \in Seq(Question) /\ Len(questions) \in Nat \ {0} /\ DOMAIN questions = 1..Len(questions)
      /\ \A i \in 1..Len(questions) : questions[i].new \in BOOLEAN
  BY QuestionFields DEF SoundList
<1>2. Position \in 1..Len(questions) /\ questions[Position].id = selectedQuestion
  BY <1>1 DEF SoundList, Position
<1>3. \A i \in 1..Len(questions) : questions[i].id = selectedQuestion => i = Position
  BY <1>2 DEF SoundList
<1>4. \A i \in 1..Len(questions) : questions[i].id # selectedQuestion => questions[i].title # 0
  BY DEF SoundList
<1>5. FormValid => questions[Position].title # 0
  BY DEF FormValid, Selected
<1>. HIDE DEF Position
<1>. QED
  BY <1>1, <1>2, <1>3, <1>4, <1>5

LEMMA IdsOf ==
  ASSUME NEW s \in Seq(Question), NEW i \in 1..Len(s)
  PROVE  s[i].id \in Ids(s)
<1>1. DOMAIN s = 1..Len(s)
  OBVIOUS
<1>. QED
  BY <1>1 DEF Ids

(* Extended lists: a new question stands after the saved ones.             *)
LEMMA NewIsLater ==
  ASSUME NEW s \in Seq(Question), NEW l \in Seq(Question), Extends(s, l), NewApart(s, l),
         NEW i \in 1..Len(s), s[i].new
  PROVE  i > Len(l)
<1>1. Len(l) \in Nat /\ Len(s) \in Nat
  OBVIOUS
<1>2. ASSUME i \in 1..Len(l) PROVE FALSE
  <2>1. s[i].id = l[i].id /\ l[i].id \in Ids(l)
    BY <1>2, IdsOf DEF Extends
  <2>. QED
    BY <2>1 DEF NewApart
<1>. QED
  BY <1>1, <1>2

LEMMA TemplateSound ==
  ASSUME NEW b \in BOOLEAN
  PROVE  LET t == Template(b) IN
         /\ t \in Seq(Question) /\ Len(t) \in {1, 2} /\ t[1].id = 1
         /\ \A i \in 1..Len(t) : ~t[i].new
         /\ SoundList("create", t, 1)
<1> DEFINE t == Template(b)
           e == Saved(1, 1, EntityQuestion, 0, "fixed")
           p == Saved(2, 2, PeriodQuestion, 0, "period")
           o == Saved(1, 1, PeriodQuestion, 0, "period")
<1>1. /\ e \in Question /\ e.id = 1 /\ e.title # 0 /\ ~(e.title > 0) /\ e.name = 0 /\ ~e.new
      /\ p \in Question /\ p.id = 2 /\ p.title # 0 /\ ~(p.title > 0) /\ p.name = 0 /\ ~p.new
      /\ o \in Question /\ o.id = 1 /\ o.title # 0 /\ ~(o.title > 0) /\ o.name = 0 /\ ~o.new
  BY DEF Saved, Question, EntityQuestion, PeriodQuestion
<1>2. t = IF b THEN <<e, p>> ELSE <<o>>
  BY DEF Template
<1>. HIDE DEF t, e, p, o
<1>3. CASE b
  <2>1. t \in Seq(Question) /\ Len(t) = 2 /\ t[1] = e /\ t[2] = p /\ \A i \in 1..2 : i = 1 \/ i = 2
    BY <1>1, <1>2, <1>3
  <2>. HIDE <1>2
  <2>2. \A i \in 1..Len(t) : (t[i] = e /\ i = 1) \/ (t[i] = p /\ i = 2)
    BY <2>1
  <2>3. \A i \in 1..Len(t) : t[i].id = i /\ t[i].title # 0 /\ ~(t[i].title > 0) /\ t[i].name = 0
    BY <1>1, <2>2
  <2>4. 1 \in 1..Len(t) /\ Len(t) > 0
    BY <2>1
  <2>5. SoundList("create", t, 1)
    BY <2>1, <2>3, <2>4 DEF SoundList
  <2>. QED
    BY <1>1, <2>1, <2>2, <2>5 DEF t
<1>4. CASE ~b
  <2>1. t \in Seq(Question) /\ Len(t) = 1 /\ t[1] = o /\ \A i \in 1..1 : i = 1
    BY <1>1, <1>2, <1>4
  <2>. HIDE <1>2
  <2>2. \A i \in 1..Len(t) : t[i] = o /\ i = 1
    BY <2>1
  <2>3. \A i \in 1..Len(t) : t[i].id = i /\ t[i].title # 0 /\ ~(t[i].title > 0) /\ t[i].name = 0
    BY <1>1, <2>2
  <2>4. 1 \in 1..Len(t) /\ Len(t) > 0
    BY <2>1
  <2>5. SoundList("create", t, 1)
    BY <2>1, <2>3, <2>4 DEF SoundList
  <2>. QED
    BY <1>1, <2>1, <2>2, <2>5 DEF t
<1>. QED
  BY <1>3, <1>4

LEMMA LoadedList ==
  ASSUME NEW k \in PageKinds \ {"create"}
  PROVE  LET f == FirstFields[k] IN
         /\ f \in Seq(Question) /\ Len(f) \in 1..MaxQuestions
         /\ \A i \in 1..Len(f) : ~f[i].new
         /\ SoundList(k, f, f[1].id)
<1> DEFINE f == FirstFields[k]
<1>1. f \in Seq(Question) /\ Len(f) \in 1..MaxQuestions
  BY FieldsAssumption
<1>2. DOMAIN f = 1..Len(f) /\ Len(f) \in Nat /\ Len(f) > 0
  BY <1>1, BuilderAssumption
<1>3. \A i \in 1..Len(f) :
       /\ ~f[i].new /\ f[i].title # 0 /\ (f[i].title > 0 => f[i].title = i /\ k # "subject")
       /\ \A j \in 1..Len(f) : f[i].id = f[j].id \/ (f[i].name = f[j].name /\ f[i].name > 0) => i = j
  BY <1>2, FieldsAssumption
<1>4. k = "subject" => f[Len(f)].role = "fixed" /\ f[Len(f)].name = 0
  BY FieldsAssumption DEF Last
<1>. HIDE DEF f
<1>5. \A i \in 1..Len(f) : f[i].title \in Int
  BY <1>1, QuestionFields
<1>6. 1 \in 1..Len(f)
  BY <1>2
<1>7. SoundList(k, f, f[1].id)
  BY <1>1, <1>2, <1>3, <1>4, <1>5, <1>6 DEF SoundList
<1>. QED
  BY <1>1, <1>3, <1>7 DEF f

LEMMA BuilderStart == BuilderInit => BuilderInv
<1>. SUFFICES ASSUME BuilderInit PROVE BuilderInv
  OBVIOUS
<1>1. /\ questions \in Seq(Question) /\ Len(questions) \in 1..MaxQuestions
      /\ \A i \in 1..Len(questions) : ~questions[i].new
      /\ SoundList(kind, questions, selectedQuestion)
  <2>1. CASE kind = "create"
    <3>1. questions = Template(FALSE) /\ selectedQuestion = questions[1].id
      BY <2>1 DEF BuilderInit
    <3>2. MaxQuestions \in Nat /\ MaxQuestions > 1
      BY BuilderAssumption
    <3>3. /\ questions \in Seq(Question) /\ Len(questions) \in {1, 2} /\ questions[1].id = 1
          /\ \A i \in 1..Len(questions) : ~questions[i].new
          /\ SoundList("create", questions, 1)
      BY <3>1, TemplateSound
    <3>4. Len(questions) \in 1..MaxQuestions
      BY <3>2, <3>3
    <3>5. questions[1].id = 1 /\ selectedQuestion = questions[1].id
      BY <3>1, <3>3
    <3>. QED
      BY <2>1, <3>3, <3>4, <3>5
  <2>2. CASE kind # "create"
    <3>1. kind \in PageKinds \ {"create"} /\ questions = FirstFields[kind] /\ selectedQuestion = questions[1].id
      BY <2>2 DEF BuilderInit
    <3>. QED
      BY <3>1, LoadedList
  <2>. QED
    BY <2>1, <2>2
<1>2. Len(questions) \in Nat /\ Len(questions) <= MaxQuestions /\ MaxQuestions \in Nat /\ MaxPosts \in Nat
  BY <1>1, BuilderAssumption
<1>0. /\ kind \in PageKinds /\ loaded = questions /\ dialogs = {} /\ code = 1 /\ savedCode = 1
      /\ report = "general" /\ reportLoaded = "general" /\ posts = 0
  BY DEF BuilderInit
<1>3. BuilderShape
  <2>1. posts \in 0..MaxPosts /\ kind \in {"create", "edit", "subject", "tab"}
    BY <1>0, <1>2, BuilderAssumption
  <2>. QED
    BY <1>0, <1>1, <1>2, <2>1 DEF BuilderShape, Reports
<1>4. ListInv
  BY <1>1 DEF ListInv, BuilderInit, NewApart
<1>5. ReportInv /\ NotBlockedForGood
  BY <1>1 DEF ReportInv, BuilderInit, ReportMatchesQuestions, NotBlockedForGood
<1>6. Extends(questions, loaded)
  BY <1>0, <1>2 DEF Extends
<1>7. LossInv /\ TextInv
  BY <1>6 DEF LossInv, TextInv, BuilderInit
<1>. QED
  BY <1>3, <1>4, <1>5, <1>7 DEF BuilderInv

LEMMA Adds ==
  ASSUME BuilderInv, FormValid, Len(questions) < MaxQuestions, addQuestion
  PROVE  /\ SoundList(kind, questions', selectedQuestion') /\ Len(questions') = Len(questions) + 1
         /\ NewApart(questions', loaded) /\ Ids(questions) \subseteq Ids(questions')
         /\ kind # "subject" /\ Extends(questions, loaded) => Extends(questions', loaded)
<1> DEFINE s == questions
           n == Len(s)
           before == IF kind = "subject" THEN Front(s) ELSE s
           q == NewQuestion(before)
           p == Len(before)
           a == Append(before, q)
           c == SubSeq(s, p+1, n)
           r == questions'
<1>1. /\ s \in Seq(Question) /\ n \in Nat \ {0} /\ DOMAIN s = 1..n
      /\ \A i \in 1..n : s[i].title # 0
      /\ SoundList(kind, s, selectedQuestion)
  BY OneShown DEF BuilderInv, ListInv
<1>2. loaded \in Seq(Question) /\ Len(loaded) <= MaxQuestions /\ n <= MaxQuestions /\ MaxQuestions \in Nat
  BY BuilderAssumption DEF BuilderInv, BuilderShape
<1>3. r = a \o c /\ selectedQuestion' = q.id
  BY DEF addQuestion
<1>4. /\ before \in Seq(Question) /\ p = (IF kind = "subject" THEN n-1 ELSE n)
      /\ \A i \in 1..p : before[i] = s[i]
  <2>1. CASE kind = "subject"
    <3>1. before = SubSeq(s, 1, n-1)
      BY <2>1 DEF Front
    <3>. HIDE DEF before, s
    <3>2. SubSeq(s, 1, n-1) \in Seq(Question) /\ Len(SubSeq(s, 1, n-1)) = n-1
          /\ \A i \in 1..n-1 : SubSeq(s, 1, n-1)[i] = s[i]
      BY <1>1
    <3>. QED
      BY <2>1, <3>1, <3>2
  <2>2. CASE kind # "subject"
    BY <1>1, <2>2
  <2>. QED
    BY <2>1, <2>2
<1>. HIDE DEF before
<1>5. /\ q \in Question /\ q.new /\ q.role = "plain" /\ q.title # 0
      /\ q.id \notin Ids(s) /\ q.id \notin Ids(loaded)
      /\ kind = "subject" => /\ q.title = PlainTitle /\ q.name > 0
                             /\ \A i \in 1..p : before[i].name < q.name
      /\ kind # "subject" => q.title = p + 1 /\ q.name = 0
  BY <1>1, <1>2, <1>4, NewOne
<1>. HIDE DEF q, r, n, s
<1>6. a \in Seq(Question) /\ Len(a) = p+1 /\ a[p+1] = q /\ \A j \in 1..p : a[j] = before[j]
  BY <1>4, <1>5
<1>7. p \in Nat /\ p+1 \in 1..n+1 /\ p <= n
  BY <1>1, <1>4
<1>8. c \in Seq(Question) /\ Len(c) = n-p /\ \A j \in 1..n-p : c[j] = s[p+j]
  BY <1>1, <1>7 DEF n
<1>. HIDE DEF a, c, p
<1>9. r \in Seq(Question) /\ Len(r) = n + 1
  BY <1>3, <1>6, <1>7, <1>8, <1>1, Joined
<1>10. ASSUME NEW j \in 1..n+1
       PROVE r[j] = IF j <= p THEN s[j] ELSE IF j = p+1 THEN q ELSE s[j-1]
  <2>1. CASE j <= p + 1
    <3>1. r[j] = a[j] /\ (j \in 1..p \/ j = p+1)
      BY <1>1, <1>3, <1>6, <1>7, <1>8, <2>1
    <3>. QED
      BY <1>4, <1>6, <1>7, <3>1
  <2>2. CASE ~(j <= p + 1)
    <3>1. j-(p+1) \in 1..n-p /\ p+(j-(p+1)) = j-1
      BY <1>1, <1>7, <2>2
    <3>2. r[j] = c[j-(p+1)]
      BY <1>1, <1>3, <1>6, <1>7, <1>8, <2>2
    <3>. QED
      BY <1>1, <1>7, <1>8, <2>2, <3>1, <3>2
  <2>. QED
    BY <2>1, <2>2
<1>11. SoundList(kind, r, q.id)
  <2>1. p \in {Len(s)-1, Len(s)} /\ (kind = "subject" => p = Len(s)-1) /\ (kind # "subject" => p = Len(s))
    BY <1>4 DEF n
  <2>2. (kind = "subject" => q.title <= 0) /\ (kind # "subject" => q.title = Len(s) + 1)
    BY <1>5, <2>1 DEF PlainTitle
  <2>3. ASSUME NEW i \in 1..Len(s), q.name > 0 PROVE s[i].name # q.name
    <3>1. kind = "subject"
      BY <1>5, <2>3
    <3>2. s[Len(s)].name = 0 /\ Len(s) \in Nat
      BY <1>1, <3>1 DEF SoundList
    <3>3. i \in 1..p \/ i = Len(s)
      BY <2>1, <3>1, <3>2
    <3>4. \A j \in 1..p : s[j].name < q.name /\ s[j].name \in Nat
      <4>1. \A j \in 1..p : j \in 1..Len(s)
        BY <1>7, <3>2 DEF n
      <4>. QED
        BY <1>1, <1>4, <1>5, <3>1, <4>1, QuestionFields
    <3>5. q.name \in Nat
      BY <1>5 DEF Question
    <3>. QED
      BY <2>3, <3>2, <3>3, <3>4, <3>5
  <2>. QED
    BY <1>1, <1>5, <1>9, <1>10, <2>1, <2>2, <2>3, Grown DEF n
<1>12. NewApart(r, loaded)
  <2>1. ASSUME NEW j \in 1..n+1, r[j].new PROVE r[j].id \notin Ids(loaded)
    <3>1. r[j] = q \/ \E i \in 1..n : r[j] = s[i]
      BY <1>1, <1>7, <1>10
    <3>2. \A i \in 1..n : s[i].new => s[i].id \notin Ids(loaded)
      BY DEF BuilderInv, ListInv, NewApart, s, n
    <3>. QED
      BY <1>5, <2>1, <3>1, <3>2
  <2>. QED
    BY <1>9, <2>1 DEF NewApart
<1>13. Ids(s) \subseteq Ids(r)
  <2>1. ASSUME NEW i \in 1..n PROVE s[i].id \in Ids(r)
    <3>1. PICK j \in 1..n+1 : r[j] = s[i]
      <4>1. CASE i <= p
        BY <1>1, <1>7, <1>10, <4>1
      <4>2. CASE ~(i <= p)
        <5>1. i+1 \in 1..n+1 /\ ~(i+1 <= p) /\ i+1 # p+1 /\ (i+1)-1 = i
          BY <1>1, <1>7, <4>2
        <5>. QED
          BY <1>10, <5>1
      <4>. QED
        BY <4>1, <4>2
    <3>. QED
      BY <1>9, <3>1, IdsOf
  <2>. QED
    BY <1>1, <2>1 DEF Ids
<1>14. ASSUME kind # "subject", Extends(s, loaded) PROVE Extends(r, loaded)
  <2>1. p = n /\ Len(loaded) \in Nat /\ Len(loaded) <= n
    BY <1>2, <1>4, <1>14 DEF Extends, n
  <2>2. \A i \in 1..n : r[i] = s[i]
    BY <1>1, <1>10, <2>1
  <2>3. r[n+1] = q
    BY <1>1, <1>10, <2>1
  <2>4. \A i \in 1..n+1 : i \in 1..n \/ i = n+1
    BY <1>1
  <2>5. \A i \in 1..Len(loaded) : i \in 1..n
    BY <1>1, <2>1
  <2>6. Len(loaded) <= Len(r)
    BY <1>1, <1>9, <2>1
  <2>7. /\ \A i \in 1..Len(loaded) : s[i].id = loaded[i].id /\ s[i].title = loaded[i].title
        /\ \A i \in 1..n : i > Len(loaded) => s[i].new
    BY <1>14 DEF Extends, n
  <2>. QED
    BY <1>5, <1>9, <2>2, <2>3, <2>4, <2>5, <2>6, <2>7 DEF Extends
<1>. QED
  BY <1>3, <1>9, <1>11, <1>12, <1>13, <1>14 DEF r, s, n

LEMMA Removes ==
  ASSUME BuilderInv, NEW i \in 1..Len(questions), removeQuestion(i), canBeDeleted(questions[i]),
         \A j \in 1..Len(questions) : j # i => questions[j].title # 0
  PROVE  /\ SoundList(kind, questions', selectedQuestion') /\ Len(questions') \in 1..MaxQuestions
         /\ NewApart(questions', loaded)
         /\ hasAddedNewQuestions'
         /\ hasDeletedOldQuestion => hasDeletedOldQuestion'
         /\ Ids(loaded) \subseteq Ids(questions) =>
              Ids(loaded) \subseteq Ids(questions') \/ (kind # "tab" /\ hasDeletedOldQuestion')
         /\ ~questionnaire_was_changed' => ~questionnaire_was_changed
         /\ ~questionnaire_was_changed' /\ Extends(questions, loaded) => Extends(questions', loaded)
<1> DEFINE s == questions
           n == Len(s)
           rest == renumberQuestions(RemoveAt(s, i))
           list == IF rest = <<>> THEN <<NewQuestion(rest)>> ELSE rest
           m == ((i - 1) % Len(list)) + 1
           old == ~s[i].new
<1>1. /\ questions' = list /\ selectedQuestion' = list[m].id
      /\ hasDeletedOldQuestion' = (hasDeletedOldQuestion \/ old)
      /\ questionnaire_was_changed' = (questionnaire_was_changed \/ old)
      /\ hasAddedNewQuestions' = TRUE
  BY DEF removeQuestion
<1>2. /\ s \in Seq(Question) /\ n \in Nat \ {0} /\ DOMAIN s = 1..n
      /\ SoundList(kind, s, selectedQuestion) /\ NewApart(s, loaded)
  BY OneShown DEF BuilderInv, ListInv
<1>3. loaded \in Seq(Question) /\ Len(loaded) \in 1..MaxQuestions /\ n <= MaxQuestions /\ MaxQuestions \in Nat
  BY BuilderAssumption DEF BuilderInv, BuilderShape
<1>4. rest \in Seq(Question) /\ Len(rest) = n - 1
      /\ \A j \in 1..n-1 : LET o == IF j < i THEN s[j] ELSE s[j+1] IN
                 /\ rest[j].id = o.id /\ rest[j].name = o.name /\ rest[j].role = o.role /\ rest[j].new = o.new
                 /\ rest[j].title = IF o.title > 0 THEN j ELSE o.title
  BY <1>2, Renumbered
<1>5. (kind = "tab" => s[i].new) /\ (kind # "tab" => s[i].role # "fixed")
  BY DEF canBeDeleted
<1>6. Extends(s, loaded) /\ ~old => i > Len(loaded)
  BY <1>2, <1>3, NewIsLater
<1>7. ~old => s[i].id \notin Ids(loaded)
  BY DEF BuilderInv, ListInv, NewApart
<1>10. /\ questions' = list /\ selectedQuestion' = list[m].id
       /\ hasAddedNewQuestions'
       /\ (hasDeletedOldQuestion' <=> hasDeletedOldQuestion \/ old)
       /\ (questionnaire_was_changed' <=> questionnaire_was_changed \/ old)
  BY <1>1
<1>8. CASE n = 1
  <2>1. rest = <<>>
    BY <1>4, <1>8
  <2>2. kind # "subject"
    <3>1. i = n
      BY <1>8
    <3>. QED
      BY <1>2, <1>5, <3>1 DEF SoundList
  <2> DEFINE q == NewQuestion(rest)
  <2>3. /\ q \in Question /\ q.new /\ q.role = "plain" /\ q.title # 0
        /\ q.id \notin Ids(s) /\ q.id \notin Ids(loaded)
        /\ kind # "subject" => q.title = Len(rest) + 1 /\ q.name = 0
    BY <1>2, <1>3, <1>4, NewOne
  <2>. HIDE DEF q, rest
  <2>4. list = <<q>>
    BY <2>1 DEF q
  <2>. HIDE DEF list
  <2>5. list \in Seq(Question) /\ Len(list) = 1 /\ list[1] = q /\ \A j \in 1..Len(list) : j = 1
    BY <2>3, <2>4
  <2>6. m = 1
    <3>1. i - 1 = 0 /\ 0 % 1 = 0
      BY <1>8
    <3>. QED
      BY <2>5, <3>1
  <2>7. q.title = 1 /\ q.name = 0
    BY <1>4, <1>8, <2>2, <2>3
  <2>. HIDE DEF list, m, old
  <2>8. SoundList(kind, list, list[m].id)
    BY <2>2, <2>5, <2>6, <2>7 DEF SoundList
  <2>9. NewApart(list, loaded)
    BY <2>3, <2>5 DEF NewApart
  <2>10. Ids(loaded) \subseteq Ids(s) => kind # "tab" /\ old
    <3>. SUFFICES ASSUME ~(kind # "tab" /\ old), Ids(loaded) \subseteq Ids(s) PROVE FALSE
      OBVIOUS
    <3>1. ~old
      BY <1>5 DEF old
    <3>2. 1 \in 1..Len(loaded)
      BY <1>3
    <3>3. loaded[1].id \in Ids(s)
      BY <1>3, <3>2, IdsOf
    <3>4. PICK j \in 1..n : s[j].id = loaded[1].id
      BY <1>2, <3>3 DEF Ids
    <3>5. j = i
      BY <1>8
    <3>. QED
      BY <1>3, <1>7, <3>1, <3>2, <3>4, <3>5, IdsOf
  <2>11. Extends(s, loaded) => old
    <3>1. Len(loaded) >= 1 /\ Len(loaded) \in Nat /\ i = 1
      BY <1>3, <1>8
    <3>. QED
      BY <1>6, <3>1
  <2>12. Len(list) \in 1..MaxQuestions
    BY <1>3, <2>5
  <2>. QED
    BY <1>10, <2>8, <2>9, <2>10, <2>11, <2>12
<1>9. CASE n > 1
  <2>1. rest # <<>> /\ list = rest
    BY <1>2, <1>4, <1>9
  <2>. HIDE DEF rest, list
  <2>2. m \in 1..n-1
    <3>1. Len(list) = n-1 /\ n-1 \in Nat \ {0} /\ i-1 \in Nat
      <4>1. i \in 1..n /\ n \in Nat
        BY <1>2
      <4>2. Len(list) = n-1
        BY <1>4, <2>1
      <4>. HIDE DEF n
      <4>. QED
        BY <1>9, <4>1, <4>2
    <3>2. ((i-1) % Len(list)) \in 0..(Len(list)-1)
      BY <3>1
    <3>. QED
      BY <3>1, <3>2
  <2>. HIDE DEF m, old
  <2>3. /\ SoundList(kind, rest, rest[m].id)
        /\ Ids(s) \ {s[i].id} \subseteq Ids(rest)
    BY <1>2, <1>5, <1>9, <2>2, Shrunk DEF rest
  <2>4. NewApart(rest, loaded)
    <3>1. ASSUME NEW j \in 1..n-1, rest[j].new PROVE rest[j].id \notin Ids(loaded)
      <4>1. PICK c \in 1..n : rest[j].new = s[c].new /\ rest[j].id = s[c].id
        BY <1>2, <1>4
      <4>. QED
        BY <1>2, <3>1, <4>1 DEF NewApart
    <3>. QED
      BY <1>4, <3>1 DEF NewApart
  <2>5. Ids(loaded) \subseteq Ids(s) => Ids(loaded) \subseteq Ids(rest) \/ (kind # "tab" /\ old)
    BY <1>5, <1>7, <2>3 DEF old
  <2>6. ASSUME ~old, Extends(s, loaded) PROVE Extends(rest, loaded)
    <3>1. i > Len(loaded) /\ Len(loaded) \in Nat
      BY <1>3, <1>6, <2>6
    <3>2. Len(loaded) <= n-1
      BY <1>2, <3>1
    <3>3. ASSUME NEW j \in 1..Len(loaded)
          PROVE  rest[j].id = loaded[j].id /\ rest[j].title = loaded[j].title
      <4>1. j \in 1..n-1 /\ j < i /\ j \in 1..n
        BY <1>2, <3>1, <3>2
      <4>2. rest[j].id = s[j].id /\ rest[j].title = IF s[j].title > 0 THEN j ELSE s[j].title
        BY <1>4, <4>1
      <4>3. s[j].title > 0 => s[j].title = j
        BY <1>2, <4>1 DEF SoundList
      <4>4. s[j].id = loaded[j].id /\ s[j].title = loaded[j].title
        BY <2>6 DEF Extends
      <4>. QED
        BY <4>2, <4>3, <4>4
    <3>4. ASSUME NEW j \in 1..n-1, j > Len(loaded) PROVE rest[j].new
      <4>1. PICK c \in 1..n : rest[j].new = s[c].new /\ c > Len(loaded)
        <5>1. CASE j < i
          BY <1>2, <1>4, <3>4, <5>1
        <5>2. CASE ~(j < i)
          <6>1. j+1 \in 1..n /\ j+1 > Len(loaded)
            BY <1>2, <3>1, <3>4
          <6>. QED
            BY <1>4, <5>2, <6>1
        <5>. QED
          BY <5>1, <5>2
      <4>. QED
        BY <2>6, <4>1 DEF Extends
    <3>. QED
      BY <1>4, <3>2, <3>3, <3>4 DEF Extends
  <2>7. Len(list) \in 1..MaxQuestions
    BY <1>2, <1>3, <1>4, <1>9, <2>1
  <2>8. /\ SoundList(kind, list, list[m].id) /\ NewApart(list, loaded)
        /\ Ids(loaded) \subseteq Ids(s) => Ids(loaded) \subseteq Ids(list) \/ (kind # "tab" /\ old)
        /\ ~old /\ Extends(s, loaded) => Extends(list, loaded)
    BY <2>1, <2>3, <2>4, <2>5, <2>6
  <2>9. /\ SoundList(kind, questions', selectedQuestion') /\ Len(questions') \in 1..MaxQuestions
        /\ NewApart(questions', loaded)
    BY <1>10, <2>7, <2>8
  <2>10. /\ hasAddedNewQuestions' /\ (hasDeletedOldQuestion => hasDeletedOldQuestion')
         /\ (~questionnaire_was_changed' => ~questionnaire_was_changed)
    BY <1>10
  <2>11. Ids(loaded) \subseteq Ids(questions) =>
              Ids(loaded) \subseteq Ids(questions') \/ (kind # "tab" /\ hasDeletedOldQuestion')
    BY <1>10, <2>8
  <2>12. ~questionnaire_was_changed' /\ Extends(questions, loaded) => Extends(questions', loaded)
    BY <1>10, <2>8
  <2>. HIDE DEF s
  <2>. QED
    BY <2>9, <2>10, <2>11, <2>12
<1>. QED
  BY <1>2, <1>8, <1>9

(* Lists that differ in titles only, and in what is new.                   *)
LEMMA SameIds ==
  ASSUME NEW s \in Seq(Question), NEW r \in Seq(Question), Len(r) = Len(s),
         \A i \in 1..Len(s) : r[i].id = s[i].id
  PROVE  Ids(r) = Ids(s)
<1>1. DOMAIN s = 1..Len(s) /\ DOMAIN r = 1..Len(s)
  OBVIOUS
<1>. QED
  BY <1>1 DEF Ids

(* Actions that leave the list alone.                                      *)
LEMMA ListStays ==
  ASSUME BuilderInv, UNCHANGED <<kind, questions, selectedQuestion, loaded, code, savedCode,
                                 hasAddedNewQuestions, hasDeletedOldQuestion, questionnaire_was_changed>>
  PROVE  /\ SoundList(kind', questions', selectedQuestion') /\ NewApart(questions', loaded')
         /\ Len(questions') <= MaxQuestions /\ TextInv'
         /\ (is_continue' => confirmed') => LossInv'
  BY DEF BuilderInv, BuilderShape, ListInv, LossInv, TextInv

LEMMA SaveKeeps ==
  ASSUME BuilderInv, Save \/ SaveInvalid \/ ContinueSave \/ SaveAsDraft
  PROVE  BuilderInv'
<1>1. /\ UNCHANGED <<kind, questions, selectedQuestion, loaded, code, savedCode,
                     hasAddedNewQuestions, hasDeletedOldQuestion, questionnaire_was_changed>>
      /\ UNCHANGED <<report, reportLoaded, open, is_continue, answered>>
      /\ (confirmed => confirmed')
      /\ dialogs' \subseteq dialogs \/ (dialogs = {} /\ dialogs' = {"save"})
      /\ ("flip" \in dialogs => "flip" \in dialogs')
      /\ (busy' /\ kind \in Projects => posts' > 0 \/ (busy /\ posts' = posts)) /\ posts' \in 0..MaxPosts
  <2>1. posts \in Nat /\ posts \in 0..MaxPosts /\ MaxPosts \in Nat
    BY BuilderAssumption DEF BuilderInv, BuilderShape
  <2>2. CASE Save
    BY <2>1, <2>2 DEF Save, Idle, Post, formVars, modelVars, flagVars
  <2>3. CASE SaveInvalid
    BY <2>1, <2>3 DEF SaveInvalid, Idle, Projects, formVars, modelVars, flagVars
  <2>4. CASE ContinueSave
    BY <2>1, <2>4 DEF ContinueSave, Post, formVars, modelVars, flagVars
  <2>5. CASE SaveAsDraft
    BY <2>1, <2>5 DEF SaveAsDraft, Post, formVars, modelVars, flagVars
  <2>. QED
    BY <2>2, <2>3, <2>4, <2>5
<1>2. /\ SoundList(kind', questions', selectedQuestion') /\ NewApart(questions', loaded')
      /\ Len(questions') <= MaxQuestions /\ TextInv' /\ LossInv'
  BY <1>1, ListStays DEF BuilderInv, LossInv
<1>3. BuilderShape'
  BY <1>1, <1>2 DEF BuilderInv, BuilderShape
<1>4. ListInv'
  BY <1>1, <1>2 DEF BuilderInv, ListInv
<1>5. ReportInv'
  BY <1>1 DEF BuilderInv, ReportInv, ReportMatchesQuestions
<1>6. NotBlockedForGood'
  BY <1>1 DEF BuilderInv, NotBlockedForGood
<1>. QED
  BY <1>2, <1>3, <1>4, <1>5, <1>6 DEF BuilderInv

LEMMA AnswerOfPostKeeps ==
  ASSUME BuilderInv, SavedAndLeaves \/ Refused \/ PostFails \/ ContinueInform \/ DataArrive
  PROVE  BuilderInv'
<1>1. /\ UNCHANGED <<kind, questions, selectedQuestion, loaded, code, savedCode,
                     hasAddedNewQuestions, hasDeletedOldQuestion, questionnaire_was_changed>>
      /\ UNCHANGED <<report, reportLoaded, is_continue, confirmed>>
      /\ (open' => open) /\ (kind = "create" /\ ~answered => ~answered')
      /\ dialogs' \subseteq dialogs \cup {"inform"} /\ (open' => dialogs \ {"inform"} \subseteq dialogs')
      /\ (busy' /\ kind \in Projects /\ open' => posts' > 0 \/ (busy /\ posts' = posts)) /\ posts' \in 0..MaxPosts
  <2>1. posts \in Nat /\ posts \in 0..MaxPosts /\ MaxPosts \in Nat
    BY BuilderAssumption DEF BuilderInv, BuilderShape
  <2>2. CASE SavedAndLeaves
    <3>1. CASE kind = "edit" /\ Informs
      BY <2>1, <2>2, <3>1 DEF SavedAndLeaves, formVars, modelVars, flagVars
    <3>2. CASE ~(kind = "edit" /\ Informs)
      <4>1. posts > 0 /\ posts' = posts - 1 /\ ~busy'
        BY <2>2 DEF SavedAndLeaves
      <4>2. posts' \in 0..MaxPosts
        BY <2>1, <4>1
      <4>3. IF kind = "edit" /\ Informs THEN TRUE ELSE dialogs' = {} /\ open' = FALSE
        BY <2>2 DEF SavedAndLeaves
      <4>4. dialogs' = {} /\ ~open'
        BY <3>2, <4>3
      <4>. QED
        BY <2>2, <4>1, <4>2, <4>4 DEF SavedAndLeaves, formVars, modelVars, flagVars
    <3>. QED
      BY <3>1, <3>2
  <2>3. CASE Refused
    BY <2>1, <2>3 DEF Refused, formVars, modelVars, flagVars
  <2>4. CASE PostFails
    <3>1. posts' \in 0..MaxPosts /\ (posts > 1 => posts' > 0) /\ busy' = (busy /\ (kind = "subject" \/ posts > 1))
      BY <2>1, <2>4 DEF PostFails
    <3>2. busy' /\ kind \in Projects => posts' > 0
      BY <3>1 DEF Projects
    <3>. QED
      BY <2>4, <3>1, <3>2 DEF PostFails, formVars, modelVars, flagVars
  <2>5. CASE ContinueInform
    BY <2>1, <2>5 DEF ContinueInform, formVars, modelVars, flagVars
  <2>6. CASE DataArrive
    BY <2>1, <2>6 DEF DataArrive, formVars, modelVars, flagVars
  <2>. QED
    BY <2>2, <2>3, <2>4, <2>5, <2>6
<1>2. /\ SoundList(kind', questions', selectedQuestion') /\ NewApart(questions', loaded')
      /\ Len(questions') <= MaxQuestions /\ TextInv' /\ LossInv'
  BY <1>1, ListStays DEF BuilderInv, LossInv
<1>3. BuilderShape'
  BY <1>1, <1>2 DEF BuilderInv, BuilderShape
<1>4. ListInv'
  BY <1>1, <1>2 DEF BuilderInv, ListInv
<1>5. ReportInv'
  BY <1>1 DEF BuilderInv, ReportInv, ReportMatchesQuestions
<1>6. NotBlockedForGood'
  BY <1>1 DEF BuilderInv, NotBlockedForGood
<1>. QED
  BY <1>2, <1>3, <1>4, <1>5, <1>6 DEF BuilderInv

LEMMA CancelKeeps ==
  ASSUME BuilderInv, CancelDialog
  PROVE  BuilderInv'
<1>1. /\ UNCHANGED <<kind, questions, selectedQuestion, loaded, code, savedCode,
                     hasAddedNewQuestions, hasDeletedOldQuestion, questionnaire_was_changed>>
      /\ UNCHANGED <<reportLoaded, open, posts, busy, answered, confirmed>>
      /\ (is_continue' => is_continue)
      /\ dialogs' \subseteq dialogs
      /\ report' \in {report, reportLoaded}
      /\ "flip" \in dialogs /\ "flip" \notin dialogs' => report' = reportLoaded
      /\ ~("flip" \in dialogs /\ "flip" \notin dialogs') => report' = report
  BY DEF CancelDialog, modelVars, flagVars
<1>2. /\ SoundList(kind', questions', selectedQuestion') /\ NewApart(questions', loaded')
      /\ Len(questions') <= MaxQuestions /\ TextInv' /\ LossInv'
  BY <1>1, ListStays DEF BuilderInv, LossInv
<1>3. BuilderShape'
  BY <1>1, <1>2 DEF BuilderInv, BuilderShape
<1>4. ListInv'
  BY <1>1, <1>2 DEF BuilderInv, ListInv
<1>5. ReportInv'
  BY <1>1 DEF BuilderInv, ReportInv, ReportMatchesQuestions
<1>6. NotBlockedForGood'
  BY <1>1 DEF BuilderInv, NotBlockedForGood
<1>. QED
  BY <1>2, <1>3, <1>4, <1>5, <1>6 DEF BuilderInv

LEMMA SelectKeeps ==
  ASSUME BuilderInv, ChangeSelectedQuestion
  PROVE  BuilderInv'
<1>1. /\ UNCHANGED <<kind, questions, loaded, code, savedCode, report, reportLoaded, open, dialogs, posts,
                     busy, answered, is_continue, confirmed,
                     hasAddedNewQuestions, hasDeletedOldQuestion, questionnaire_was_changed>>
      /\ dialogs = {} /\ FormValid /\ \E i \in DOMAIN questions : selectedQuestion' = questions[i].id
  BY DEF ChangeSelectedQuestion, Idle, formVars, flagVars
<1>2. DOMAIN questions = 1..Len(questions) /\ \A i \in 1..Len(questions) : questions[i].title # 0
  BY <1>1, OneShown DEF BuilderInv, ListInv
<1>3. SoundList(kind', questions', selectedQuestion')
  BY <1>1, <1>2 DEF BuilderInv, ListInv, SoundList
<1>4. BuilderShape' /\ LossInv'
  BY <1>1 DEF BuilderInv, BuilderShape, LossInv
<1>5. TextInv'
  BY <1>1 DEF BuilderInv, TextInv
<1>6. ListInv'
  BY <1>1, <1>3 DEF BuilderInv, ListInv
<1>7. ReportInv' /\ NotBlockedForGood'
  BY <1>1 DEF BuilderInv, ReportInv, ReportMatchesQuestions, NotBlockedForGood
<1>. QED
  BY <1>4, <1>5, <1>6, <1>7 DEF BuilderInv

LEMMA CodeKeeps ==
  ASSUME BuilderInv, ChangeCode
  PROVE  BuilderInv'
<1>1. /\ UNCHANGED <<kind, questions, selectedQuestion, loaded, savedCode, report, reportLoaded, open, dialogs,
                     posts, busy, answered, is_continue, confirmed,
                     hasAddedNewQuestions, hasDeletedOldQuestion>>
      /\ code' \in {1, 2} /\ kind \in {"edit", "subject"}
      /\ (~questionnaire_was_changed' => ~questionnaire_was_changed)
      /\ (~questionnaire_was_changed' /\ kind = "edit" => code' = savedCode)
  BY DEF ChangeCode
<1>2. BuilderShape' /\ LossInv'
  BY <1>1 DEF BuilderInv, BuilderShape, LossInv
<1>3. TextInv'
  BY <1>1 DEF BuilderInv, TextInv
<1>4. ListInv'
  BY <1>1 DEF BuilderInv, ListInv
<1>5. ReportInv' /\ NotBlockedForGood'
  BY <1>1 DEF BuilderInv, ReportInv, ReportMatchesQuestions, NotBlockedForGood
<1>. QED
  BY <1>2, <1>3, <1>4, <1>5 DEF BuilderInv

LEMMA AddKeeps ==
  ASSUME BuilderInv, AddQuestion
  PROVE  BuilderInv'
<1>1. /\ UNCHANGED <<kind, loaded, code, savedCode, report, reportLoaded, open, dialogs,
                     posts, busy, answered, is_continue, confirmed,
                     hasDeletedOldQuestion, questionnaire_was_changed>>
      /\ dialogs = {} /\ hasAddedNewQuestions'
      /\ FormValid /\ Len(questions) < MaxQuestions /\ addQuestion
  BY DEF AddQuestion, addQuestion, Idle, formVars
<1>2. /\ SoundList(kind, questions', selectedQuestion') /\ Len(questions') = Len(questions) + 1
      /\ NewApart(questions', loaded) /\ Ids(questions) \subseteq Ids(questions')
      /\ kind # "subject" /\ Extends(questions, loaded) => Extends(questions', loaded)
  BY <1>1, Adds
<1>3. Len(questions') <= MaxQuestions
  <2>1. Len(questions) \in Nat /\ MaxQuestions \in Nat
    BY OneShown, BuilderAssumption DEF BuilderInv, ListInv
  <2>. QED
    BY <1>1, <1>2, <2>1
<1>4. BuilderShape'
  BY <1>1, <1>3 DEF BuilderInv, BuilderShape
<1>5. ListInv'
  BY <1>1, <1>2 DEF BuilderInv, ListInv
<1>6. LossInv'
  BY <1>1, <1>2 DEF BuilderInv, LossInv
<1>7. TextInv'
  BY <1>1, <1>2 DEF BuilderInv, TextInv
<1>8. ReportInv' /\ NotBlockedForGood'
  BY <1>1 DEF BuilderInv, ReportInv, ReportMatchesQuestions, NotBlockedForGood
<1>. QED
  BY <1>4, <1>5, <1>6, <1>7, <1>8 DEF BuilderInv

(* A removal, by a click or by Continue in its warning.                    *)
LEMMA RemovalKeeps ==
  ASSUME BuilderInv, NEW i \in 1..Len(questions), removeQuestion(i), canBeDeleted(questions[i]),
         \A j \in 1..Len(questions) : j # i => questions[j].title # 0,
         UNCHANGED <<kind, loaded, code, savedCode, report, reportLoaded, open, posts, busy, answered>>,
         dialogs' \cap {"delete", "period"} = {}, dialogs' \subseteq dialogs,
         "flip" \in dialogs => "flip" \in dialogs',
         is_continue' => confirmed'
  PROVE  BuilderInv'
<1>1. /\ SoundList(kind, questions', selectedQuestion') /\ Len(questions') \in 1..MaxQuestions
      /\ NewApart(questions', loaded)
      /\ hasAddedNewQuestions'
      /\ hasDeletedOldQuestion => hasDeletedOldQuestion'
      /\ Ids(loaded) \subseteq Ids(questions) =>
              Ids(loaded) \subseteq Ids(questions') \/ (kind # "tab" /\ hasDeletedOldQuestion')
      /\ ~questionnaire_was_changed' => ~questionnaire_was_changed
      /\ ~questionnaire_was_changed' /\ Extends(questions, loaded) => Extends(questions', loaded)
  BY Removes
<1>2. Len(questions') <= MaxQuestions
  BY <1>1, BuilderAssumption
<1>3. BuilderShape'
  BY <1>2 DEF BuilderInv, BuilderShape
<1>4. ListInv'
  BY <1>1 DEF BuilderInv, ListInv
<1>5. LossInv'
  BY <1>1 DEF BuilderInv, LossInv
<1>6. TextInv'
  BY <1>1 DEF BuilderInv, TextInv
<1>7. ReportInv' /\ NotBlockedForGood'
  BY <1>1 DEF BuilderInv, ReportInv, ReportMatchesQuestions, NotBlockedForGood
<1>. QED
  BY <1>3, <1>4, <1>5, <1>6, <1>7 DEF BuilderInv

LEMMA ClickDeleteKeeps ==
  ASSUME BuilderInv, ClickDelete
  PROVE  BuilderInv'
<1>1. /\ DOMAIN questions = 1..Len(questions)
      /\ \A j \in 1..Len(questions) : questions[j].id = selectedQuestion => j = Position
      /\ FormValid => \A j \in 1..Len(questions) : questions[j].title # 0
      /\ \A j \in 1..Len(questions) : j # Position => questions[j].title # 0
  BY OneShown DEF BuilderInv, ListInv
<1>2. PICK i \in 1..Len(questions), has \in questionnaire_has_submission :
        LET warning == IF FormValid THEN DeleteWarning(questions[i], has) ELSE "none"
        IN /\ Idle /\ canBeDeleted(questions[i])
           /\ FormValid \/ questions[i].id = selectedQuestion
           /\ IF warning = "none"
              THEN removeQuestion(i) /\ UNCHANGED <<dialogs, is_continue>>
              ELSE /\ dialogs' = {warning}
                   /\ is_continue' = (is_continue /\ warning # "delete")
                   /\ selectedQuestion' = questions[i].id
                   /\ UNCHANGED <<questions, flagVars>>
           /\ UNCHANGED <<formVars, open, busy, posts, answered, loaded, confirmed>>
  BY <1>1 DEF ClickDelete
<1> DEFINE warning == IF FormValid THEN DeleteWarning(questions[i], has) ELSE "none"
<1>3. /\ canBeDeleted(questions[i]) /\ dialogs = {}
      /\ FormValid \/ questions[i].id = selectedQuestion
      /\ UNCHANGED <<kind, loaded, code, savedCode, report, reportLoaded, open, posts, busy, answered, confirmed>>
  BY <1>2 DEF Idle, formVars
<1>4. warning \in {"none", "delete", "period"} /\ (warning # "none" => FormValid /\ kind # "tab")
  BY DEF DeleteWarning, Projects
<1>5. CASE warning = "none"
  <2>1. removeQuestion(i) /\ UNCHANGED <<dialogs, is_continue>>
    BY <1>2, <1>5
  <2>2. \A j \in 1..Len(questions) : j # i => questions[j].title # 0
    BY <1>1, <1>3
  <2>3. is_continue' => confirmed'
    BY <1>3, <2>1 DEF BuilderInv, LossInv
  <2>. QED
    BY <1>3, <2>1, <2>2, <2>3, RemovalKeeps
<1>6. CASE warning # "none"
  <2>1. /\ dialogs' = {warning}
        /\ is_continue' = (is_continue /\ warning # "delete")
        /\ selectedQuestion' = questions[i].id
        /\ UNCHANGED <<questions, hasAddedNewQuestions, hasDeletedOldQuestion, questionnaire_was_changed>>
    BY <1>2, <1>6 DEF flagVars
  <2>. HIDE DEF warning
  <2>2. FormValid /\ kind # "tab" /\ questions[i].role # "fixed" /\ dialogs' \subseteq {"delete", "period"}
    BY <1>3, <1>4, <1>6, <2>1 DEF canBeDeleted
  <2>3. SoundList(kind', questions', selectedQuestion')
    BY <1>1, <1>3, <2>1, <2>2 DEF BuilderInv, ListInv, SoundList
  <2>4. \A j \in 1..Len(questions) : questions[j].id = selectedQuestion' => questions[j].role # "fixed"
    BY <2>1, <2>2 DEF BuilderInv, ListInv, SoundList
  <2>5. BuilderShape'
    BY <1>3, <2>1, <2>2 DEF BuilderInv, BuilderShape
  <2>6. ListInv'
    BY <1>3, <2>1, <2>2, <2>3, <2>4 DEF BuilderInv, ListInv
  <2>7. ReportInv' /\ NotBlockedForGood'
    BY <1>3, <2>1, <2>2 DEF BuilderInv, ReportInv, ReportMatchesQuestions, NotBlockedForGood
  <2>8. LossInv' /\ TextInv'
    BY <1>3, <2>1 DEF BuilderInv, LossInv, TextInv
  <2>. QED
    BY <2>5, <2>6, <2>7, <2>8 DEF BuilderInv
<1>. QED
  BY <1>5, <1>6

LEMMA ContinueDeleteKeeps ==
  ASSUME BuilderInv, ContinueDelete
  PROVE  BuilderInv'
<1>1. PICK d \in dialogs \cap {"delete", "period"} :
        /\ dialogs' = dialogs \ {d}
        /\ removeQuestion(Position) /\ confirmed' = TRUE
        /\ UNCHANGED <<formVars, open, busy, posts, answered, loaded>>
  BY DEF ContinueDelete
<1>2. /\ Position \in 1..Len(questions) /\ questions[Position].id = selectedQuestion
      /\ \A j \in 1..Len(questions) : j # Position => questions[j].title # 0
  BY OneShown DEF BuilderInv, ListInv
<1>3. kind # "tab" /\ questions[Position].role # "fixed"
  BY <1>1, <1>2 DEF BuilderInv, ListInv
<1>4. canBeDeleted(questions[Position])
  BY <1>3 DEF canBeDeleted
<1>5. dialogs' \cap {"delete", "period"} = {} /\ dialogs' \subseteq dialogs /\ ("flip" \in dialogs => "flip" \in dialogs')
  BY <1>1 DEF BuilderInv, ListInv
<1>6. UNCHANGED <<kind, loaded, code, savedCode, report, reportLoaded, open, posts, busy, answered>>
      /\ (is_continue' => confirmed') /\ removeQuestion(Position)
  BY <1>1 DEF formVars
<1>. HIDE DEF Position
<1>. QED
  BY <1>2, <1>4, <1>5, <1>6, RemovalKeeps

(* Another template.                                                       *)
LEMMA FlipKeeps ==
  ASSUME BuilderInv, NEW r \in Reports, continue_flip(r), kind = "create", report' = r,
         UNCHANGED <<kind, loaded, code, savedCode, open, posts, busy, answered, is_continue, confirmed>>,
         dialogs' \subseteq {"inform"}
  PROVE  BuilderInv'
<1> DEFINE b == r # "general"
<1>1. /\ questions' = Template(b) /\ selectedQuestion' = 1 /\ reportLoaded' = r
      /\ UNCHANGED <<hasDeletedOldQuestion, questionnaire_was_changed>> /\ b \in BOOLEAN
  BY DEF continue_flip
<1>. HIDE DEF b
<1>2. /\ questions' \in Seq(Question) /\ Len(questions') \in {1, 2}
      /\ \A i \in 1..Len(questions') : ~questions'[i].new
      /\ SoundList(kind', questions', selectedQuestion')
  BY <1>1, TemplateSound
<1>3. Len(questions') <= MaxQuestions
  <2>1. MaxQuestions \in Nat /\ MaxQuestions > 1
    BY BuilderAssumption
  <2>. QED
    BY <1>2, <2>1
<1>4. BuilderShape'
  BY <1>1, <1>3 DEF BuilderInv, BuilderShape
<1>5. ListInv'
  BY <1>2 DEF ListInv, NewApart
<1>6. ReportInv'
  BY <1>1, <1>2 DEF BuilderInv, ReportInv, ReportMatchesQuestions
<1>7. NotBlockedForGood' /\ LossInv' /\ TextInv'
  BY <1>1 DEF BuilderInv, NotBlockedForGood, LossInv, TextInv
<1>. QED
  BY <1>4, <1>5, <1>6, <1>7 DEF BuilderInv

LEMMA ReportKeeps ==
  ASSUME BuilderInv, ChangeReport \/ ContinueFlip
  PROVE  BuilderInv'
<1>1. CASE ContinueFlip
  <2>1. /\ "flip" \in dialogs /\ continue_flip(report) /\ dialogs' = dialogs \ {"flip"} /\ report' = reportLoaded'
        /\ UNCHANGED <<kind, code, savedCode, open, is_continue, busy, posts, answered, loaded, confirmed>>
    BY <1>1 DEF ContinueFlip
  <2>2. kind = "create" /\ report \in Reports /\ dialogs' \subseteq {"inform"}
    BY <2>1 DEF BuilderInv, BuilderShape, ReportInv, ListInv
  <2>3. report' = report
    BY <2>1 DEF continue_flip
  <2>. QED
    BY <2>1, <2>2, <2>3, FlipKeeps
<1>2. CASE ChangeReport
  <2>1. PICK r \in Reports \ {report} :
          /\ Idle /\ kind = "create"
          /\ report' = r
          /\ IF hasAddedNewQuestions
             THEN dialogs' = {"flip"} /\ UNCHANGED <<reportLoaded, modelVars>>
             ELSE continue_flip(r) /\ UNCHANGED dialogs
          /\ UNCHANGED <<kind, code, savedCode, open, is_continue, busy, posts, answered, loaded, confirmed>>
    BY <1>2 DEF ChangeReport
  <2>2. dialogs = {}
    BY <2>1 DEF Idle
  <2>3. CASE ~hasAddedNewQuestions
    <3>1. continue_flip(r) /\ dialogs' \subseteq {"inform"} /\ r \in Reports
      BY <2>1, <2>2, <2>3
    <3>2. UNCHANGED <<kind, loaded, code, savedCode, open, posts, busy, answered, is_continue, confirmed>>
      BY <2>1
    <3>. QED
      BY <2>1, <3>1, <3>2, FlipKeeps
  <2>4. CASE hasAddedNewQuestions
    <3>1. /\ UNCHANGED <<kind, questions, selectedQuestion, loaded, code, savedCode, reportLoaded, open, posts,
                         hasAddedNewQuestions, hasDeletedOldQuestion, questionnaire_was_changed,
                         busy, answered, is_continue, confirmed>>
          /\ dialogs' = {"flip"} /\ report' \in Reports /\ kind = "create"
      BY <2>1, <2>4 DEF modelVars, flagVars
    <3>2. BuilderShape' /\ LossInv' /\ TextInv'
      BY <3>1 DEF BuilderInv, BuilderShape, LossInv, TextInv
    <3>3. ListInv'
      BY <3>1 DEF BuilderInv, ListInv
    <3>4. ReportInv' /\ NotBlockedForGood'
      BY <3>1 DEF BuilderInv, ReportInv, ReportMatchesQuestions, NotBlockedForGood
    <3>. QED
      BY <3>2, <3>3, <3>4 DEF BuilderInv
  <2>. QED
    BY <2>3, <2>4
<1>. QED
  BY <1>1, <1>2

LEMMA TitleKeeps ==
  ASSUME BuilderInv, ChangeTitle
  PROVE  BuilderInv'
<1>1. PICK t \in Titles :
        /\ Idle /\ isEnabled(Selected)
        /\ questions' = [questions EXCEPT ![Position].title = t]
        /\ questionnaire_was_changed' = (questionnaire_was_changed \/ ~Selected.new)
        /\ UNCHANGED <<formVars, open, selectedQuestion, hasAddedNewQuestions, hasDeletedOldQuestion,
                       is_continue, dialogs, busy, posts, answered, loaded, confirmed>>
  BY DEF ChangeTitle
<1> DEFINE s == questions
           r == questions'
           p == Position
           n == Len(s)
<1>2. /\ s \in Seq(Question) /\ n \in Nat \ {0} /\ DOMAIN s = 1..n
      /\ p \in 1..n /\ s[p].id = selectedQuestion
      /\ SoundList(kind, s, selectedQuestion) /\ NewApart(s, loaded)
  BY OneShown DEF BuilderInv, ListInv
<1>3. t \in Int /\ t <= 0
  BY BuilderAssumption
<1>4. /\ dialogs = {} /\ (questionnaire_was_changed' <=> questionnaire_was_changed \/ ~s[p].new)
      /\ UNCHANGED <<kind, loaded, code, savedCode, report, reportLoaded, open, selectedQuestion,
                     hasAddedNewQuestions, hasDeletedOldQuestion, is_continue, dialogs, busy, posts,
                     answered, confirmed>>
  BY <1>1 DEF Idle, Selected, formVars
<1>5. r = [j \in 1..n |-> IF j = p THEN [s[p] EXCEPT !.title = t] ELSE s[j]]
  BY <1>1, <1>2
<1>. HIDE DEF s, r, p, n
<1>6. ASSUME NEW j \in 1..n
      PROVE  /\ r[j] \in Question
             /\ r[j].id = s[j].id /\ r[j].name = s[j].name /\ r[j].role = s[j].role /\ r[j].new = s[j].new
             /\ r[j].title = IF j = p THEN t ELSE s[j].title
  <2>1. s[j] \in Question /\ r[j] = IF j = p THEN [s[p] EXCEPT !.title = t] ELSE s[j]
    BY <1>2, <1>5 DEF n
  <2>. QED
    BY <1>3, <2>1 DEF Question
<1>7. r \in Seq(Question) /\ Len(r) = n
  <2>1. \A j \in 1..n : r[j] \in Question
    BY <1>6
  <2>2. r = [j \in 1..n |-> r[j]]
    BY <1>5
  <2>. HIDE <1>5
  <2>. QED
    BY <1>2, <2>1, <2>2
<1>8. SoundList(kind, r, selectedQuestion)
  <2>1. \A i, j \in 1..n : r[i].id = r[j].id => i = j
    BY <1>2, <1>6 DEF SoundList, n
  <2>2. \A i, j \in 1..n : r[i].name > 0 /\ r[i].name = r[j].name => i = j
    BY <1>2, <1>6 DEF SoundList, n
  <2>3. \A i \in 1..n : r[i].id # selectedQuestion => r[i].title # 0
    BY <1>2, <1>6 DEF SoundList, n
  <2>4. \A i \in 1..n : r[i].title > 0 => r[i].title = i
    BY <1>2, <1>3, <1>6 DEF SoundList, n
  <2>5. kind = "subject" => /\ \A i \in 1..n : r[i].title <= 0
                            /\ r[n].role = "fixed" /\ r[n].name = 0
    BY <1>2, <1>3, <1>6 DEF SoundList, n
  <2>6. Len(r) > 0 /\ \E i \in 1..n : r[i].id = selectedQuestion
    BY <1>2, <1>6, <1>7
  <2>. QED
    BY <1>7, <2>1, <2>2, <2>3, <2>4, <2>5, <2>6 DEF SoundList
<1>9. Ids(r) = Ids(s)
  BY <1>2, <1>6, <1>7, SameIds DEF n
<1>10. NewApart(r, loaded)
  BY <1>2, <1>6, <1>7 DEF NewApart, n
<1>11. ASSUME s[p].new, Extends(s, loaded) PROVE Extends(r, loaded)
  <2>1. loaded \in Seq(Question)
    BY DEF BuilderInv, BuilderShape
  <2>2. p > Len(loaded) /\ Len(loaded) \in Nat /\ Len(loaded) <= n
    BY <1>2, <1>11, <2>1, NewIsLater DEF Extends, n
  <2>3. ASSUME NEW i \in 1..Len(loaded) PROVE r[i].id = loaded[i].id /\ r[i].title = loaded[i].title
    <3>1. i \in 1..n /\ i # p
      BY <1>2, <2>2
    <3>. QED
      BY <1>6, <1>11, <3>1 DEF Extends
  <2>4. \A i \in 1..n : i > Len(loaded) => r[i].new
    BY <1>6, <1>11 DEF Extends, n
  <2>. QED
    BY <1>7, <2>2, <2>3, <2>4 DEF Extends
<1>12. BuilderShape'
  BY <1>4, <1>7 DEF BuilderInv, BuilderShape, r, s, n
<1>13. ListInv'
  BY <1>4, <1>8, <1>10 DEF ListInv, r
<1>14. ReportInv'
  <2>1. kind = "create" /\ ~hasAddedNewQuestions => \A i \in 1..n : ~s[i].new
    BY DEF BuilderInv, ReportInv, s, n
  <2>2. kind = "create" /\ ~hasAddedNewQuestions => \A i \in 1..Len(r) : ~r[i].new
    BY <1>6, <1>7, <2>1
  <2>. QED
    BY <1>4, <2>2 DEF BuilderInv, ReportInv, ReportMatchesQuestions, r
<1>15. LossInv' /\ NotBlockedForGood'
  BY <1>4, <1>9 DEF BuilderInv, LossInv, NotBlockedForGood, r, s
<1>16. TextInv'
  BY <1>4, <1>11 DEF BuilderInv, TextInv, r, s
<1>. QED
  BY <1>12, <1>13, <1>14, <1>15, <1>16 DEF BuilderInv

LEMMA SavedKeeps ==
  ASSUME BuilderInv, SavedAndStays
  PROVE  BuilderInv'
<1> DEFINE s == questions
           r == questions'
           n == Len(s)
<1>1. /\ s \in Seq(Question) /\ n \in Nat \ {0} /\ DOMAIN s = 1..n /\ n <= MaxQuestions
      /\ SoundList(kind, s, selectedQuestion) /\ MaxQuestions \in Nat
  BY OneShown, BuilderAssumption DEF BuilderInv, ListInv, BuilderShape
<1>2. /\ kind \in {"subject", "tab"} /\ loaded' = r /\ ~busy' /\ open
      /\ r = [i \in DOMAIN s |-> [s[i] EXCEPT !.new = FALSE]]
      /\ savedCode' \in {1, 2} /\ (kind = "tab" => savedCode' = savedCode)
      /\ dialogs' \subseteq dialogs \cup {"inform"} /\ dialogs \subseteq dialogs'
      /\ UNCHANGED <<kind, code, report, reportLoaded, open, selectedQuestion,
                     hasAddedNewQuestions, hasDeletedOldQuestion, is_continue, answered, confirmed>>
  <2>1. savedCode \in {1, 2}
    BY DEF BuilderInv, BuilderShape
  <2>2. CASE kind = "tab" /\ Informs
    BY <2>1, <2>2 DEF SavedAndStays
  <2>3. CASE ~(kind = "tab" /\ Informs)
    BY <2>1, <2>3 DEF SavedAndStays
  <2>. QED
    BY <2>2, <2>3
<1>3. posts' \in 0..MaxPosts
  <2>1. posts \in Nat /\ posts \in 0..MaxPosts /\ MaxPosts \in Nat /\ posts > 0 /\ posts' = posts - 1
    BY BuilderAssumption DEF BuilderInv, BuilderShape, SavedAndStays
  <2>. QED
    BY <2>1
<1>. HIDE DEF s, r, n
<1>4. ASSUME NEW j \in 1..n
      PROVE  /\ r[j] \in Question /\ ~r[j].new
             /\ r[j].id = s[j].id /\ r[j].name = s[j].name /\ r[j].role = s[j].role /\ r[j].title = s[j].title
  <2>1. s[j] \in Question /\ r[j] = [s[j] EXCEPT !.new = FALSE]
    BY <1>1, <1>2 DEF n
  <2>. QED
    BY <2>1 DEF Question
<1>5. r \in Seq(Question) /\ Len(r) = n
  <2>1. \A j \in 1..n : r[j] \in Question
    BY <1>4
  <2>2. r = [j \in 1..n |-> r[j]]
    BY <1>1, <1>2
  <2>. HIDE <1>2
  <2>. QED
    BY <1>1, <2>1, <2>2
<1>6. SoundList(kind, r, selectedQuestion)
  <2>1. \A i, j \in 1..n : r[i].id = r[j].id => i = j
    BY <1>1, <1>4 DEF SoundList, n
  <2>2. \A i, j \in 1..n : r[i].name > 0 /\ r[i].name = r[j].name => i = j
    BY <1>1, <1>4 DEF SoundList, n
  <2>3. \A i \in 1..n : r[i].id # selectedQuestion => r[i].title # 0
    BY <1>1, <1>4 DEF SoundList, n
  <2>4. \A i \in 1..n : r[i].title > 0 => r[i].title = i
    BY <1>1, <1>4 DEF SoundList, n
  <2>5. kind = "subject" => /\ \A i \in 1..n : r[i].title <= 0
                            /\ r[n].role = "fixed" /\ r[n].name = 0
    BY <1>1, <1>4 DEF SoundList, n
  <2>6. Len(r) > 0 /\ \E i \in 1..n : r[i].id = selectedQuestion
    BY <1>1, <1>4, <1>5 DEF SoundList, n
  <2>. QED
    BY <1>5, <2>1, <2>2, <2>3, <2>4, <2>5, <2>6 DEF SoundList
<1>7. NewApart(r, r)
  BY <1>4, <1>5 DEF NewApart
<1>8. Extends(r, r)
  BY <1>1, <1>5 DEF Extends
<1>9. BuilderShape'
  <2>1. Len(r) <= MaxQuestions /\ Len(r) \in 1..MaxQuestions
    BY <1>1, <1>5
  <2>. QED
    BY <1>2, <1>3, <1>5, <2>1 DEF BuilderInv, BuilderShape, r
<1>10. ListInv'
  <2>1. dialogs \cap {"delete", "period"} # {} =>
          kind # "tab" /\ \A i \in 1..n : s[i].id = selectedQuestion => s[i].role # "fixed"
    BY DEF BuilderInv, ListInv, s, n
  <2>2. dialogs' \cap {"delete", "period"} # {} =>
          kind # "tab" /\ \A i \in 1..Len(r) : r[i].id = selectedQuestion => r[i].role # "fixed"
    BY <1>2, <1>4, <1>5, <2>1
  <2>3. \A d, e \in dialogs' \ {"inform"} : d = e
    BY <1>2 DEF BuilderInv, ListInv
  <2>. QED
    BY <1>2, <1>6, <1>7, <2>2, <2>3 DEF ListInv, r
<1>11. ReportInv' /\ NotBlockedForGood'
  BY <1>2 DEF BuilderInv, ReportInv, ReportMatchesQuestions, NotBlockedForGood
<1>12. LossInv'
  BY <1>2 DEF BuilderInv, LossInv, r
<1>13. TextInv'
  BY <1>2, <1>8 DEF BuilderInv, TextInv, r
<1>. QED
  BY <1>9, <1>10, <1>11, <1>12, <1>13 DEF BuilderInv

LEMMA BuilderStep == BuilderInv /\ [BuilderNext]_builderVars => BuilderInv'
<1>. SUFFICES ASSUME BuilderInv, [BuilderNext]_builderVars PROVE BuilderInv'
  OBVIOUS
<1>1. CASE BuilderNext
  BY <1>1, SelectKeeps, TitleKeeps, CodeKeeps, AddKeeps, ClickDeleteKeeps, ReportKeeps, ContinueDeleteKeeps,
     CancelKeeps, SaveKeeps, SavedKeeps, AnswerOfPostKeeps DEF BuilderNext
<1>2. CASE UNCHANGED builderVars
  BY <1>2 DEF builderVars, formVars, modelVars, flagVars, BuilderInv, BuilderShape, ListInv, ReportInv,
     ReportMatchesQuestions, LossInv, TextInv, NotBlockedForGood
<1>. QED
  BY <1>1, <1>2

THEOREM BuilderInvariant == BuilderSpec => []BuilderInv
BY BuilderStart, BuilderStep, PTL DEF BuilderSpec

LEMMA BuilderFacts == BuilderInv => BuilderTypeOK /\ QuestionsSound /\ NotBlockedForGood
<1>. SUFFICES ASSUME BuilderInv PROVE BuilderTypeOK /\ QuestionsSound /\ NotBlockedForGood
  OBVIOUS
<1>1. SoundList(kind, questions, selectedQuestion) /\ BuilderShape
  BY DEF BuilderInv, ListInv
<1>2. /\ questions \in Seq(Question) /\ DOMAIN questions = 1..Len(questions)
      /\ Position \in 1..Len(questions) /\ questions[Position].id = selectedQuestion
  BY <1>1, OneShown
<1>. HIDE DEF Position
<1>3. selectedQuestion \in Ids(questions)
  BY <1>2, IdsOf
<1>4. BuilderTypeOK
  BY <1>1, <1>2, <1>3 DEF BuilderShape, BuilderTypeOK
<1>5. QuestionsSound
  BY <1>1, <1>2 DEF QuestionsSound, HiddenQuestionsValid, GeneratedNamesDistinct, SoundList
<1>. QED
  BY <1>4, <1>5 DEF BuilderInv

(* project_questionnaire.js, entity/create_subject_questionnaire.js: the   *)
(* form validates one question at a time, and still no other is without a  *)
(* title; "Question n" is the n-th, and names are given once.              *)
THEOREM QuestionsAreSound == BuilderSpec => []QuestionsSound
BY BuilderInvariant, BuilderFacts, PTL

(* create_project.js: a page that is blocked waits for a request.          *)
THEOREM BuilderIsUnblocked == BuilderSpec => []NotBlockedForGood
BY BuilderInvariant, BuilderFacts, PTL

(* has_submission_delete_warning.js, create_project.js: Save posts a       *)
(* questionnaire that has lost questions with data only after a warning.   *)
THEOREM LossIsConfirmed == BuilderSpec => DataLossConfirmed
<1> DEFINE Loss == (/\ posts' > posts /\ (busy' \/ kind = "subject")
                    /\ answered /\ Ids(loaded) \ Ids(questions) # {}) => confirmed'
<1>1. ASSUME BuilderInv, [BuilderNext]_builderVars PROVE [Loss]_builderVars
  <2>. SUFFICES ASSUME BuilderNext, posts' > posts, busy' \/ kind = "subject",
                       answered, Ids(loaded) \ Ids(questions) # {}
                PROVE  confirmed'
    BY <1>1
  <2>1. posts \in Nat /\ ~(posts > posts) /\ ~(posts - 1 > posts)
    BY <1>1, BuilderAssumption DEF BuilderInv, BuilderShape
  <2>2. kind \in {"edit", "subject"} /\ hasDeletedOldQuestion /\ (is_continue => confirmed)
    BY <1>1 DEF BuilderInv, BuilderShape, ReportInv, LossInv
  <2>3. Save \/ ContinueSave \/ SaveAsDraft
    <3>1. CASE posts' = posts
      BY <2>1, <3>1
    <3>2. CASE posts' = posts - 1
      BY <2>1, <3>2
    <3>. QED
      BY <3>1, <3>2 DEF BuilderNext, ChangeSelectedQuestion, ChangeTitle, ChangeCode, AddQuestion, ClickDelete,
         ChangeReport, ContinueFlip, ContinueDelete, CancelDialog, SaveInvalid, SavedAndStays, SavedAndLeaves,
         Refused, PostFails, ContinueInform, DataArrive
  <2>4. CASE Save
    <3>1. PICK has \in questionnaire_has_submission :
            /\ IF /\ kind \in {"edit", "subject"} /\ hasDeletedOldQuestion
                  /\ ~is_continue /\ has
               THEN dialogs' = {"save"} /\ UNCHANGED <<posts, busy>>
               ELSE Post /\ busy' = TRUE /\ UNCHANGED dialogs
            /\ UNCHANGED confirmed
      BY <2>4 DEF Save
    <3>2. has
      BY DEF questionnaire_has_submission
    <3>3. is_continue
      BY <2>1, <2>2, <3>1, <3>2
    <3>. QED
      BY <2>2, <3>1, <3>3
  <2>5. CASE ContinueSave
    BY <2>5 DEF ContinueSave
  <2>6. CASE SaveAsDraft
    BY <2>2, <2>6 DEF SaveAsDraft, Idle, Projects
  <2>. QED
    BY <2>3, <2>4, <2>5, <2>6
<1>2. BuilderSpec => [][Loss]_builderVars
  BY <1>1, BuilderInvariant, PTL DEF BuilderSpec
<1>. QED
  BY <1>2 DEF DataLossConfirmed

(* create_project.js, questionnaire_wizard.js: a page that shows something *)
(* else than it was opened with proposes to inform the data senders when   *)
(* it goes on.                                                             *)
LEMMA SameText ==
  ASSUME NEW s \in Seq(Question), NEW l \in Seq(Question), Extends(s, l), \A i \in DOMAIN s : ~s[i].new
  PROVE  Text(s) = Text(l)
<1>1. Len(s) \in Nat /\ Len(l) \in Nat /\ DOMAIN s = 1..Len(s) /\ DOMAIN l = 1..Len(l)
  OBVIOUS
<1>2. Len(s) = Len(l)
  <2>. SUFFICES ASSUME Len(s) # Len(l) PROVE FALSE
    OBVIOUS
  <2>1. Len(l) <= Len(s)
    BY DEF Extends
  <2>2. Len(s) \in 1..Len(s) /\ Len(s) > Len(l)
    <3> DEFINE n == Len(s)
               k == Len(l)
    <3>1. n \in Nat /\ k \in Nat /\ k <= n /\ n # k
      BY <1>1, <2>1
    <3>. HIDE DEF n, k
    <3>2. n \in 1..n /\ n > k
      BY <3>1
    <3>. QED
      BY <3>2 DEF n, k
  <2>. QED
    BY <1>1, <2>2 DEF Extends
<1>3. \A i \in 1..Len(l) : s[i].id = l[i].id /\ s[i].title = l[i].title
  BY DEF Extends
<1>. QED
  BY <1>1, <1>2, <1>3 DEF Text

THEOREM ChangesAreAnnounced == BuilderSpec => ChangesAnnounced
<1> DEFINE Told == (/\ kind \in {"edit", "tab"} /\ posts' < posts /\ (~open' \/ loaded' # loaded)
                    /\ Text(questions) # Text(loaded) \/ code # savedCode) => "inform" \in dialogs'
<1>1. ASSUME BuilderInv, [BuilderNext]_builderVars PROVE [Told]_builderVars
  <2>. SUFFICES ASSUME BuilderNext, kind \in {"edit", "tab"}, posts' < posts, ~open' \/ loaded' # loaded,
                       Text(questions) # Text(loaded) \/ code # savedCode
                PROVE  "inform" \in dialogs'
    BY <1>1
  <2>1. posts \in Nat /\ ~(posts < posts) /\ ~(posts + 1 < posts)
    BY <1>1, BuilderAssumption DEF BuilderInv, BuilderShape
  <2>2. SavedAndStays \/ SavedAndLeaves \/ Refused \/ PostFails
    <3>1. CASE posts' = posts
      BY <2>1, <3>1
    <3>2. CASE posts' = posts + 1
      BY <2>1, <3>2
    <3>. QED
      BY <3>1, <3>2 DEF BuilderNext, ChangeSelectedQuestion, ChangeTitle, ChangeCode, AddQuestion, ClickDelete,
         ChangeReport, ContinueFlip, ContinueDelete, CancelDialog, Save, SaveInvalid, ContinueSave, SaveAsDraft,
         Post, ContinueInform, DataArrive
  <2>3. Informs
    <3>. SUFFICES ASSUME ~questionnaire_was_changed, \A i \in DOMAIN questions : ~questions[i].new
                  PROVE  FALSE
      BY DEF Informs
    <3>1. Extends(questions, loaded) /\ code = savedCode
      BY <1>1 DEF BuilderInv, TextInv
    <3>2. questions \in Seq(Question) /\ loaded \in Seq(Question)
      BY <1>1 DEF BuilderInv, BuilderShape, ListInv, SoundList
    <3>3. Text(questions) = Text(loaded)
      BY <3>1, <3>2, SameText
    <3>. QED
      BY <3>1, <3>3
  <2>4. CASE SavedAndStays
    BY <2>3, <2>4 DEF SavedAndStays
  <2>5. CASE SavedAndLeaves
    BY <2>3, <2>5 DEF SavedAndLeaves, Projects
  <2>6. CASE Refused \/ PostFails
    BY <2>6 DEF Refused, PostFails
  <2>. QED
    BY <2>2, <2>4, <2>5, <2>6
<1>2. BuilderSpec => [][Told]_builderVars
  BY <1>1, BuilderInvariant, PTL DEF BuilderSpec
<1>. QED
  BY <1>2 DEF ChangesAnnounced

(* create_project.js: however the warning about the report is answered,    *)
(* the report and the questions belong together, and what the user added   *)
(* is replaced only after the warning.                                     *)
THEOREM ReportIsAsShown == BuilderSpec => ReportAndQuestionsAgree
<1> DEFINE Agree == ReportMatchesQuestions' /\ AddedQuestionsKept
<1>1. ASSUME BuilderInv, BuilderInv', [BuilderNext]_builderVars PROVE [Agree]_builderVars
  <2>. SUFFICES ASSUME BuilderNext, reportLoaded' # reportLoaded, "flip" \notin dialogs
                PROVE  \A i \in DOMAIN questions : ~questions[i].new
    BY <1>1 DEF AddedQuestionsKept, BuilderInv, ReportInv
  <2>1. ChangeReport
    BY DEF BuilderNext, ChangeSelectedQuestion, ChangeTitle, ChangeCode, AddQuestion, ClickDelete,
       ContinueFlip, ContinueDelete, CancelDialog, Save, SaveInvalid, ContinueSave, SaveAsDraft,
       SavedAndStays, SavedAndLeaves, Refused, PostFails, ContinueInform, DataArrive, formVars
  <2>2. kind = "create" /\ ~hasAddedNewQuestions
    BY <2>1 DEF ChangeReport
  <2>3. DOMAIN questions = 1..Len(questions)
    BY <1>1, OneShown DEF BuilderInv, ListInv
  <2>. QED
    BY <1>1, <2>2, <2>3 DEF BuilderInv, ReportInv
<1>2. BuilderSpec => [][Agree]_builderVars
  BY <1>1, BuilderInvariant, PTL DEF BuilderSpec
<1>. QED
  BY <1>2 DEF ReportAndQuestionsAgree

-----------------------------------------------------------------------------
(***************************************************************************)
(* OptionList.  The values after a value, one by one.                      *)
(***************************************************************************)
Next1(v, f, k) == [j \in 0..k |-> IF j = 0 THEN v ELSE next_option_value(f[j-1])]
Unfolds(v, f, k) == f = Next1(v, f, k)

LEMMA Unfolding ==
  ASSUME NEW v, NEW n \in Nat
  PROVE  \E f : Unfolds(v, f, n)
<1> DEFINE T == {k \in Nat : ~\E f : Unfolds(v, f, k)}
<1>. SUFFICES ASSUME T # {} PROVE FALSE
  OBVIOUS
<1>1. PICK k \in T : \A j \in T : k <= j
  <2>1. T \subseteq Nat
    OBVIOUS
  <2>. HIDE DEF T
  <2>. QED
    BY <2>1, LeastNat
<1>2. k # 0
  <2>1. Unfolds(v, [j \in 0..0 |-> v], 0)
    BY DEF Unfolds, Next1
  <2>. QED
    BY <2>1
<1>3. k \in Nat /\ k-1 \in Nat /\ k-1 \notin T
  BY <1>1, <1>2
<1>4. PICK f : Unfolds(v, f, k-1)
  BY <1>3
<1> DEFINE g == Next1(v, f, k)
<1>5. ASSUME NEW j \in 0..k, j # 0 PROVE g[j-1] = f[j-1]
  <2>1. j-1 \in 0..k-1 /\ j-1 \in 0..k
    BY <1>3, <1>5
  <2>2. f[j-1] = IF j-1 = 0 THEN v ELSE next_option_value(f[(j-1)-1])
    BY <1>4, <2>1 DEF Unfolds, Next1
  <2>. QED
    BY <2>1, <2>2 DEF Next1
<1>6. Unfolds(v, g, k)
  <2>. HIDE DEF g
  <2>1. g = [j \in 0..k |-> IF j = 0 THEN v ELSE next_option_value(f[j-1])]
    BY DEF g, Next1
  <2>. QED
    BY <1>5, <2>1 DEF Unfolds, Next1
<1>. QED
  BY <1>1, <1>6

(* The recursive function of After is one that unfolds.                    *)
LEMMA AfterUnfolds ==
  ASSUME NEW v, NEW n \in Nat
  PROVE  \E f : Unfolds(v, f, n) /\ After(v, n) = f[n]
<1> DEFINE f == CHOOSE f : Unfolds(v, f, n)
<1>1. Unfolds(v, f, n)
  BY Unfolding
<1>2. After(v, n) = f[n]
  BY DEF After, Unfolds, Next1
<1>. QED
  BY <1>1, <1>2

(* Two that unfold agree where both are defined.                           *)
LEMMA UnfoldingsAgree ==
  ASSUME NEW v, NEW m \in Nat, NEW n \in Nat, NEW f, NEW g,
         Unfolds(v, f, m), Unfolds(v, g, n), m <= n
  PROVE  \A j \in 0..m : f[j] = g[j]
<1> DEFINE T == {j \in 0..m : f[j] # g[j]}
<1>. SUFFICES ASSUME T # {} PROVE FALSE
  OBVIOUS
<1>1. PICK k \in T : \A j \in T : k <= j
  <2>1. T \subseteq Nat
    OBVIOUS
  <2>. HIDE DEF T
  <2>. QED
    BY <2>1, LeastNat
<1>2. k \in 0..m /\ k \in 0..n /\ f[k] # g[k]
  BY <1>1
<1>3. f[k] = (IF k = 0 THEN v ELSE next_option_value(f[k-1]))
      /\ g[k] = IF k = 0 THEN v ELSE next_option_value(g[k-1])
  BY <1>2 DEF Unfolds, Next1
<1>4. k # 0 => k-1 \in 0..m /\ k-1 < k
  BY <1>2
<1>5. k # 0 => f[k-1] = g[k-1]
  BY <1>1, <1>4
<1>. QED
  BY <1>2, <1>3, <1>5

LEMMA AfterStep ==
  ASSUME NEW v
  PROVE  After(v, 0) = v /\ \A k \in Nat : After(v, k+1) = next_option_value(After(v, k))
<1>1. After(v, 0) = v
  <2>1. PICK f : Unfolds(v, f, 0) /\ After(v, 0) = f[0]
    BY AfterUnfolds
  <2>. QED
    BY <2>1 DEF Unfolds, Next1
<1>2. ASSUME NEW k \in Nat PROVE After(v, k+1) = next_option_value(After(v, k))
  <2>1. PICK f : Unfolds(v, f, k) /\ After(v, k) = f[k]
    BY AfterUnfolds
  <2>2. k+1 \in Nat /\ k <= k+1 /\ k \in 0..k
    OBVIOUS
  <2>3. PICK g : Unfolds(v, g, k+1) /\ After(v, k+1) = g[k+1]
    BY <2>2, AfterUnfolds
  <2>4. f[k] = g[k]
    BY <2>1, <2>2, <2>3, UnfoldingsAgree
  <2>5. k+1 \in 0..k+1 /\ k+1 # 0 /\ (k+1)-1 = k
    OBVIOUS
  <2>6. g[k+1] = next_option_value(g[k])
    BY <2>3, <2>5 DEF Unfolds, Next1
  <2>. QED
    BY <2>1, <2>3, <2>4, <2>6
<1>. QED
  BY <1>1, <1>2

(* The values after one of the values are some of them.                    *)
LEMMA AfterAfter ==
  ASSUME NEW v, NEW m \in Nat, NEW n \in Nat
  PROVE  After(After(v, m), n) = After(v, m + n)
<1> DEFINE T == {k \in Nat : After(After(v, m), k) # After(v, m + k)}
<1>. SUFFICES ASSUME T # {} PROVE FALSE
  OBVIOUS
<1>1. PICK k \in T : \A j \in T : k <= j
  <2>1. T \subseteq Nat
    OBVIOUS
  <2>. HIDE DEF T
  <2>. QED
    BY <2>1, LeastNat
<1>2. k \in Nat /\ k # 0
  <2>1. After(After(v, m), 0) = After(v, m) /\ m + 0 = m
    BY AfterStep
  <2>. QED
    BY <1>1, <2>1
<1>3. k-1 \in Nat /\ (k-1)+1 = k /\ m + (k-1) \in Nat /\ (m + (k-1)) + 1 = m + k /\ ~(k <= k-1)
  BY <1>2
<1>4. After(After(v, m), k-1) = After(v, m + (k-1))
  BY <1>1, <1>3
<1>5. After(After(v, m), k) = next_option_value(After(After(v, m), k-1))
  BY <1>3, AfterStep
<1>6. After(v, m + k) = next_option_value(After(v, m + (k-1)))
  BY <1>3, AfterStep
<1>. QED
  BY <1>1, <1>4, <1>5, <1>6

(***************************************************************************)
(* The choices, and what they were when the page was opened.               *)
(***************************************************************************)
Val(i)  == After(FirstValue, i - 1)
OptionSet == [id : Int, val : {Val(i) : i \in Nat \ {0}}]

(* The choices follow the positions; the original ones are the first,      *)
(* unless one of them was removed.                                         *)
OptionInv ==
  /\ options \in Seq(OptionSet) /\ originals \in Seq(OptionSet) /\ Len(options) > 0
  /\ \A i \in 1..Len(options) : options[i].val = Val(i)
  /\ is_edit /\ ~optionsChanged =>
       Len(originals) <= Len(options) /\ \A i \in 1..Len(originals) : options[i] = originals[i]
  /\ lastId \in Int /\ optionsChanged \in BOOLEAN /\ is_edit \in BOOLEAN

LEMMA ValStep ==
  ASSUME NEW i \in Nat \ {0}
  PROVE  /\ Val(i+1) = next_option_value(Val(i)) /\ Val(1) = FirstValue
         /\ Val(i) \in {Val(j) : j \in Nat \ {0}}
         /\ \A k \in Nat : After(Val(i), k) = Val(i + k)
<1>1. i-1 \in Nat /\ (i-1)+1 = i /\ (i+1)-1 = (i-1)+1
  OBVIOUS
<1>2. Val(i+1) = next_option_value(Val(i))
  BY <1>1, AfterStep DEF Val
<1>3. Val(1) = FirstValue
  BY AfterStep DEF Val
<1>4. ASSUME NEW k \in Nat PROVE After(Val(i), k) = Val(i + k)
  <2>1. (i-1) + k = (i+k)-1
    OBVIOUS
  <2>2. After(After(FirstValue, i-1), k) = After(FirstValue, (i-1) + k)
    BY <1>1, AfterAfter
  <2>. QED
    BY <2>1, <2>2 DEF Val
<1>. QED
  BY <1>2, <1>3, <1>4

LEMMA OptionStart == OptionInit => OptionInv
<1>. SUFFICES ASSUME OptionInit PROVE OptionInv
  OBVIOUS
<1>1. PICK n \in 1..MaxOptions :
        /\ options = [i \in 1..n |-> [id |-> i, val |-> ValuesOf(n)[i]]]
        /\ originals = options /\ is_edit \in BOOLEAN /\ optionsChanged = FALSE /\ lastId = n
  BY DEF OptionInit
<1>2. n \in Nat \ {0}
  BY OptionAssumption
<1>3. \A i \in 1..n : options[i] = [id |-> i, val |-> Val(i)]
  BY <1>1 DEF ValuesOf, Val
<1>4. \A i \in 1..n : options[i] \in OptionSet
  <2>. SUFFICES ASSUME NEW i \in 1..n PROVE options[i] \in OptionSet
    OBVIOUS
  <2>1. i \in Nat \ {0} /\ options[i] = [id |-> i, val |-> Val(i)]
    BY <1>2, <1>3
  <2>2. Val(i) \in {Val(j) : j \in Nat \ {0}}
    BY <2>1
  <2>. QED
    BY <2>1, <2>2 DEF OptionSet
<1>5. options \in Seq(OptionSet) /\ Len(options) = n
  BY <1>1, <1>2, <1>4
<1>6. \A i \in 1..Len(options) : options[i].val = Val(i)
  BY <1>3, <1>5
<1>7. originals = options /\ is_edit \in BOOLEAN /\ optionsChanged = FALSE /\ lastId \in Int
  BY <1>1
<1>8. Len(options) \in Nat /\ Len(options) > 0
  BY <1>2, <1>5
<1>9. Len(originals) <= Len(options) /\ \A i \in 1..Len(originals) : options[i] = originals[i]
  BY <1>7, <1>8
<1>10. originals \in Seq(OptionSet)
  BY <1>5, <1>7
<1>. QED
  BY <1>5, <1>6, <1>7, <1>8, <1>9, <1>10 DEF OptionInv

LEMMA OptionAdded ==
  ASSUME OptionInv, addOptionToQuestion
  PROVE  OptionInv'
<1> DEFINE n == Len(options)
           new == [id |-> lastId', val |-> next_option_value(Last(options).val)]
<1>1. options \in Seq(OptionSet) /\ n \in Nat \ {0} /\ options # <<>>
  BY DEF OptionInv
<1>2. options' = Append(options, new) /\ lastId' = lastId + 1
      /\ UNCHANGED <<originals, is_edit, optionsChanged>>
  BY <1>1 DEF addOptionToQuestion
<1>3. new = [id |-> lastId', val |-> Val(n+1)] /\ new \in OptionSet
  <2>1. Last(options).val = Val(n)
    BY <1>1 DEF OptionInv, Last
  <2>2. lastId' \in Int
    BY <1>2 DEF OptionInv
  <2>3. new = [id |-> lastId', val |-> Val(n+1)]
    BY <1>1, <2>1, ValStep
  <2>4. n+1 \in Nat \ {0}
    BY <1>1
  <2>. HIDE DEF new
  <2>. QED
    BY <2>2, <2>3, <2>4 DEF OptionSet
<1>. HIDE DEF new, n
<1>4. options' \in Seq(OptionSet) /\ Len(options') = n+1
      /\ \A i \in 1..n+1 : options'[i] = IF i = n+1 THEN new ELSE options[i]
  BY <1>1, <1>2, <1>3 DEF n
<1>5. \A i \in 1..n+1 : options'[i].val = Val(i)
  <2>. SUFFICES ASSUME NEW i \in 1..n+1 PROVE options'[i].val = Val(i)
    OBVIOUS
  <2>1. CASE i = n+1
    BY <1>3, <1>4, <2>1
  <2>2. CASE i # n+1
    <3>1. i \in 1..n
      BY <1>1, <2>2
    <3>. QED
      BY <1>4, <2>2, <3>1 DEF OptionInv, n
  <2>. QED
    BY <2>1, <2>2
<1>6. is_edit' /\ ~optionsChanged' =>
        Len(originals') <= n+1 /\ \A i \in 1..Len(originals') : options'[i] = originals'[i]
  BY <1>1, <1>2, <1>4 DEF OptionInv, n
<1>. QED
  BY <1>1, <1>2, <1>4, <1>5, <1>6 DEF OptionInv

LEMMA OptionRemoved ==
  ASSUME OptionInv, removeOptionFromQuestion
  PROVE  OptionInv'
<1>1. PICK i \in DOMAIN options :
        /\ Len(options) > 1
        /\ optionsChanged' = (optionsChanged \/
             (is_edit /\ \E j \in DOMAIN originals : originals[j].val = options[i].val))
        /\ options' = RemoveAt(Shifted(i), i)
        /\ UNCHANGED <<originals, is_edit, lastId>>
  BY DEF removeOptionFromQuestion
<1> DEFINE n == Len(options)
           s == Shifted(i)
<1>2. options \in Seq(OptionSet) /\ n \in Nat /\ n > 1 /\ i \in 1..n /\ DOMAIN options = 1..n
      /\ \A j \in 1..n : options[j].val = Val(j) /\ options[j] \in OptionSet
  BY <1>1 DEF OptionInv
<1>. HIDE DEF n
<1>3. ASSUME NEW j \in 1..n
      PROVE  s[j] \in OptionSet /\ (j <= i => s[j] = options[j])
             /\ (j > i => s[j].val = Val(j-1))
  <2>1. CASE j <= i
    BY <1>2, <2>1 DEF Shifted
  <2>2. CASE j > i
    <3>1. s[j] = [options[j] EXCEPT !.val = After(options[i].val, j - i - 1)]
      BY <1>2, <2>2 DEF Shifted
    <3>2. j-i-1 \in Nat /\ i + (j-i-1) = j-1 /\ j-1 \in Nat \ {0} /\ i \in Nat \ {0}
      BY <1>2, <2>2
    <3>3. After(options[i].val, j-i-1) = Val(j-1)
      BY <1>2, <3>2, ValStep
    <3>4. Val(j-1) \in {Val(k) : k \in Nat \ {0}}
      BY <3>2
    <3>. HIDE DEF s
    <3>5. options[j] \in OptionSet
      BY <1>2
    <3>6. s[j] = [options[j] EXCEPT !.val = Val(j-1)]
      BY <3>1, <3>3
    <3>7. s[j].val = Val(j-1) /\ s[j] \in OptionSet
      BY <3>4, <3>5, <3>6 DEF OptionSet
    <3>. QED
      BY <1>2, <2>2, <3>7
  <2>. QED
    BY <1>2, <2>1, <2>2
<1>4. s \in Seq(OptionSet) /\ Len(s) = n
  <2>1. s = [j \in 1..n |-> s[j]]
    BY <1>2 DEF Shifted
  <2>. HIDE DEF s
  <2>. QED
    BY <1>2, <1>3, <2>1
<1>. HIDE DEF s
<1>5. options' \in Seq(OptionSet) /\ Len(options') = n-1
      /\ \A j \in 1..n-1 : options'[j] = IF j < i THEN s[j] ELSE s[j+1]
  <2>1. options' = RemoveAt(s, i)
    BY <1>1 DEF s
  <2>. QED
    BY <1>2, <1>4, <2>1, TakenOut
<1>6. ASSUME NEW j \in 1..n-1
      PROVE  options'[j].val = Val(j) /\ (j < i => options'[j] = options[j])
  <2>1. CASE j < i
    <3>1. j \in 1..n /\ j <= i
      BY <1>2, <2>1
    <3>. QED
      BY <1>2, <1>3, <1>5, <2>1, <3>1
  <2>2. CASE ~(j < i)
    <3>1. j+1 \in 1..n /\ j+1 > i /\ (j+1)-1 = j
      BY <1>2, <2>2
    <3>. QED
      BY <1>3, <1>5, <2>2, <3>1
  <2>. QED
    BY <2>1, <2>2
<1>7. is_edit' /\ ~optionsChanged' =>
        Len(originals') <= n-1 /\ \A j \in 1..Len(originals') : options'[j] = originals'[j]
  <2>. SUFFICES ASSUME is_edit, ~optionsChanged'
                PROVE  Len(originals) <= n-1 /\ \A j \in 1..Len(originals) : options'[j] = originals[j]
    BY <1>1
  <2>1. ~optionsChanged /\ ~\E j \in DOMAIN originals : originals[j].val = options[i].val
    BY <1>1
  <2>2. Len(originals) <= n /\ (\A j \in 1..Len(originals) : options[j] = originals[j])
        /\ DOMAIN originals = 1..Len(originals) /\ Len(originals) \in Nat
    BY <2>1 DEF OptionInv, n
  <2>3. Len(originals) < i
    BY <1>2, <2>1, <2>2
  <2>4. \A j \in 1..Len(originals) : j \in 1..n-1 /\ j < i
    BY <1>2, <2>2, <2>3
  <2>. QED
    BY <1>2, <1>6, <2>2, <2>3, <2>4
<1>8. optionsChanged' \in BOOLEAN
  BY <1>1 DEF OptionInv
<1>. QED
  BY <1>1, <1>2, <1>5, <1>6, <1>7, <1>8 DEF OptionInv

LEMMA OptionKept == OptionInv /\ [OptionNext]_optionVars => OptionInv'
<1>1. ASSUME OptionInv, UNCHANGED optionVars PROVE OptionInv'
  BY <1>1 DEF OptionInv, optionVars
<1>. QED
  BY <1>1, OptionAdded, OptionRemoved DEF OptionNext

LEMMA OptionFacts == OptionInv => AnswersStayReadable
<1>. SUFFICES ASSUME OptionInv PROVE AnswersStayReadable
  OBVIOUS
<1>1. ValuesFollowPositions
  <2>1. DOMAIN options = 1..Len(options) /\ \A i \in 1..Len(options) : options[i].val = Val(i)
    BY DEF OptionInv
  <2>. QED
    BY <2>1 DEF ValuesFollowPositions, ValuesOf, Val
<1>2. MeaningChangeNoticed
  <2>. SUFFICES ASSUME is_edit, ~optionsChanged, NEW i \in DOMAIN originals
                PROVE  originals[i] \in ToSet(options)
    BY DEF MeaningChangeNoticed, ToSet
  <2>1. i \in 1..Len(originals) /\ i \in DOMAIN options /\ options[i] = originals[i]
    BY DEF OptionInv
  <2>. QED
    BY <2>1 DEF ToSet
<1>. QED
  BY <1>1, <1>2 DEF AnswersStayReadable

(* The choices of a question: their values follow their positions, and     *)
(* when an answer may change its meaning the page knows it.                *)
THEOREM AnswersCanBeRead == OptionSpec => []AnswersStayReadable
BY OptionStart, OptionKept, OptionFacts, PTL DEF OptionSpec

-----------------------------------------------------------------------------
(***************************************************************************)
(* QuestionnaireStore.                                                     *)
(***************************************************************************)
Job      == [from : FormCodes, to : FormCodes, dropped : SUBSET Nat]
Answers  == UNION {[D -> Nat] : D \in SUBSET Nat}
Response == [form : FormCodes, answers : Answers]

(* A saved form: its questions were asked, and each has a code of its own. *)
WellFormed(f, a) ==
  /\ DOMAIN f \subseteq 1..a /\ DOMAIN f # {}
  /\ f \in [DOMAIN f -> 1..a]
  /\ \A q, r \in DOMAIN f : f[q] = f[r] => q = r

(* The answer under x was given to the question whose code x is.           *)
Right(r, x, f) == \E q \in DOMAIN f : f[q] = x /\ r.answers[x] = q

(* A response no task has to touch any more.                               *)
Settled(r, f, c) == r.form = c /\ \A x \in DOMAIN r.answers : Right(r, x, f)

(* A response the task j will settle, if it was not settled before.        *)
ToSettle(r, f, j) ==
  /\ r.form \in {j.from, j.to}
  /\ \A x \in DOMAIN r.answers : Right(r, x, f) \/ (r.form = j.from /\ x \in j.dropped)

(* The task leads to the form that is saved; it renames the form or drops  *)
(* questions, not both; and no question has a code that it drops.          *)
Prepares(j, f, c) ==
  /\ j.to = c /\ (j.from = j.to \/ j.dropped = {})
  /\ \A q \in DOMAIN f : f[q] \notin j.dropped

TypeInv ==
  /\ asked \in Nat /\ form_code \in FormCodes
  /\ received \in Seq(Response) /\ jobs \in Seq(Job)
OneJob      == Len(jobs) <= 1
AllSettled  == jobs = <<>> => \A i \in DOMAIN received : Settled(received[i], fields, form_code)
JobSettles  == jobs # <<>> => /\ Prepares(jobs[1], fields, form_code)
                              /\ \A i \in DOMAIN received : ToSettle(received[i], fields, jobs[1])

Ordered == TypeInv /\ WellFormed(fields, asked) /\ OneJob /\ AllSettled /\ JobSettles
Inv     == inOrder => Ordered

-----------------------------------------------------------------------------
(* The highest code of a form: the least bound of its codes is one.        *)
LEMMA HighestCode ==
  ASSUME NEW a \in Nat, NEW f, WellFormed(f, a)
  PROVE  Max(Codes(f)) \in Codes(f) /\ \A x \in Codes(f) : x <= Max(Codes(f))
<1>. DEFINE T == {b \in Nat : \A x \in Codes(f) : x <= b}
<1>1. Codes(f) \subseteq 1..a /\ Codes(f) # {}
  BY DEF WellFormed, Codes
<1>2. a \in T
  BY <1>1
<1>3. PICK m \in T : \A k \in T : ~(<<k, m>> \in OpToRel(<, Nat))
  <2>. HIDE DEF T
  <2>1. T \subseteq Nat
    BY DEF T
  <2>. QED
    BY <1>2, <2>1, WFMin, NatLessThanWellFounded
<1>4. \A k \in T : ~(k < m)
  BY <1>3 DEF OpToRel
<1>5. m \in Codes(f)
  <2>. SUFFICES ASSUME m \notin Codes(f) PROVE FALSE
    OBVIOUS
  <2>1. \A x \in Codes(f) : x <= m - 1 /\ 0 <= m - 1
    BY <1>1
  <2>2. m - 1 \in T
    BY <2>1, <1>1
  <2>. QED
    BY <2>2, <1>4
<1>6. \A x \in Codes(f) : m >= x
  BY <1>1
<1>. HIDE DEF T
<1>. QED
  BY <1>1, <1>5, <1>6 DEF Max

(* What generate_fields_by_question_set makes of a post that keeps some of *)
(* the questions of the form f and adds n.                                 *)
Within(f, a) == DOMAIN f \subseteq 1..a /\ \A q \in DOMAIN f : f[q] \in 1..a
Saving(f, kept, n) == generate_fields(Posted([q \in kept |-> f[q]], n))
Grafted(f, kept, n) == [q \in kept \cup (asked + 1..asked + n) |->
                          IF q \in kept THEN f[q] ELSE Max(Codes(fields)) + (q - asked)]

LEMMA Generated ==
  ASSUME asked \in Nat, NEW n \in Nat, NEW f, NEW kept, Within(f, asked), kept \subseteq DOMAIN f
  PROVE  Saving(f, kept, n) = Grafted(f, kept, n)
<1>. DEFINE posted  == Posted([q \in kept |-> f[q]], n)
            Upto(q) == {k \in DOMAIN posted : posted[k] = 0 /\ k <= q}
<1>1. /\ DOMAIN posted = kept \cup (asked + 1..asked + n)
      /\ \A q \in kept : posted[q] = f[q]
      /\ \A q \in asked + 1..asked + n : posted[q] = 0
  BY DEF Posted, Within
<1>2. \A q \in kept : posted[q] # 0
  BY <1>1 DEF Within
<1>3. Saving(f, kept, n) = [q \in DOMAIN posted |->
                           IF posted[q] # 0 THEN posted[q]
                           ELSE Max(Codes(fields)) + Cardinality(Upto(q))]
  BY DEF generate_fields, Saving
<1>. HIDE DEF posted
<1>4. ASSUME NEW q \in asked + 1..asked + n
      PROVE  Cardinality(Upto(q)) = q - asked
  <2>1. Upto(q) = asked + 1..q
    BY <1>1, <1>2 DEF Within
  <2>2. q \in Int /\ asked + 1 \in Int /\ q >= asked + 1
    OBVIOUS
  <2>. HIDE DEF Upto
  <2>3. Cardinality(asked + 1..q) = q - (asked + 1) + 1
    BY <2>2, FS_Interval
  <2>4. q - (asked + 1) + 1 = q - asked
    BY <2>2
  <2>. QED
    BY <2>1, <2>3, <2>4
<1>. HIDE DEF Upto
<1>5. /\ DOMAIN Saving(f, kept, n) = kept \cup (asked + 1..asked + n)
      /\ \A q \in kept : Saving(f, kept, n)[q] = f[q]
      /\ \A q \in asked + 1..asked + n : Saving(f, kept, n)[q] = Max(Codes(fields)) + (q - asked)
  BY <1>1, <1>2, <1>3, <1>4
<1>. QED
  BY <1>1, <1>3, <1>5 DEF Grafted

(* Such a form is well formed, and what it does not keep has no code in it. *)
LEMMA GeneratedWellFormed ==
  ASSUME asked \in Nat, WellFormed(fields, asked), NEW n \in Nat, NEW kept \in SUBSET DOMAIN fields,
         Saving(fields, kept, n) # <<>>
  PROVE  /\ WellFormed(Saving(fields, kept, n), asked + n)
         /\ \A q \in DOMAIN fields : q \in kept \/ fields[q] \notin Codes(Saving(fields, kept, n))
<1>. DEFINE M   == Max(Codes(fields))
            new == Saving(fields, kept, n)
<1>. HIDE DEF M, new
<1>1. /\ new = [q \in DOMAIN new |-> new[q]]
      /\ DOMAIN new = kept \cup (asked + 1..asked + n)
      /\ \A q \in kept : new[q] = fields[q]
      /\ \A q \in asked + 1..asked + n : new[q] = M + (q - asked)
  <2>1. Within(fields, asked) /\ kept \subseteq DOMAIN fields
    BY DEF WellFormed, Within
  <2>2. new = Grafted(fields, kept, n)
    BY <2>1, Generated DEF new
  <2>3. \A q \in asked + 1..asked + n : q \notin kept
    BY <2>1 DEF Within
  <2>. QED
    BY <2>2, <2>3 DEF Grafted, M
<1>2. M \in 1..asked /\ \A q \in DOMAIN fields : fields[q] <= M /\ fields[q] \in 1..asked
  <2>1. M \in Codes(fields) /\ \A x \in Codes(fields) : x <= M
    BY HighestCode DEF M
  <2>. QED
    BY <2>1 DEF Codes, WellFormed
<1>3. DOMAIN new \subseteq 1..asked + n
  BY <1>1 DEF WellFormed
<1>5. \A q \in DOMAIN new : new[q] \in 1..asked + n
  BY <1>1, <1>2
<1>6. DOMAIN new # {}
  <2>. SUFFICES ASSUME DOMAIN new = {} PROVE FALSE
    OBVIOUS
  <2>1. new = [q \in {} |-> new[q]]
    BY <1>1
  <2>2. new = <<>>
    BY <2>1
  <2>. QED
    BY <2>2 DEF new
<1>7. \A q, r \in DOMAIN new : new[q] = new[r] => q = r
  BY <1>1, <1>2 DEF WellFormed
<1>8. \A q \in DOMAIN fields : q \in kept \/ fields[q] \notin Codes(new)
  <2>. SUFFICES ASSUME NEW q \in DOMAIN fields, q \notin kept,
                       NEW r \in DOMAIN new, new[r] = fields[q]
                PROVE  FALSE
    BY DEF Codes
  <2>. QED
    BY <1>1, <1>2 DEF WellFormed
<1>. QED
  BY <1>1, <1>3, <1>5, <1>6, <1>7, <1>8 DEF WellFormed, new

-----------------------------------------------------------------------------
(* The task settles a response, and takes nothing but dropped codes from it. *)
LEMMA RewrittenSettles ==
  ASSUME NEW f, NEW c, NEW j \in Job, NEW r \in Response, Prepares(j, f, c), ToSettle(r, f, j)
  PROVE  /\ Rewritten(r, j) \in Response
         /\ Settled(Rewritten(r, j), f, c)
         /\ \A x \in DOMAIN r.answers : x \notin j.dropped => x \in DOMAIN Rewritten(r, j).answers
<1>. DEFINE w == Rewritten(r, j)
<1>1. PICK D \in SUBSET Nat : r.answers \in [D -> Nat]
  BY DEF Response, Answers
<1>2. CASE j.from = j.to /\ r.form = j.from
  <2>. DEFINE E == DOMAIN r.answers \ j.dropped
  <2>1. w = [form |-> r.form, answers |-> [x \in E |-> r.answers[x]]]
    BY <1>2 DEF Rewritten, Popped, Moved, Without, Response
  <2>2. w.form = c /\ w.answers = [x \in E |-> r.answers[x]]
    BY <2>1, <1>2 DEF Prepares
  <2>3. E \in SUBSET Nat /\ w.answers \in [E -> Nat]
    BY <2>2, <1>1
  <2>4. w.answers \in Answers
    BY <2>3 DEF Answers
  <2>5. w \in Response
    BY <2>1, <2>2, <2>4 DEF Response
  <2>6. \A x \in E : Right(w, x, f)
    BY <2>2 DEF ToSettle, Right
  <2>7. DOMAIN w.answers = E
    BY <2>2
  <2>. HIDE DEF w
  <2>8. Settled(w, f, c) /\ \A x \in DOMAIN r.answers : x \notin j.dropped => x \in DOMAIN w.answers
    BY <2>2, <2>6, <2>7 DEF Settled
  <2>. QED
    BY <2>5, <2>8 DEF w
<1>3. CASE j.from # j.to
  <2>1. j.dropped = {}
    BY <1>3 DEF Prepares
  <2>2. w = [r EXCEPT !.form = j.to]
    BY <1>3 DEF ToSettle, Rewritten, Popped, Moved, Response, Job
  <2>3. w \in Response /\ w.form = j.to /\ w.answers = r.answers
    BY <2>2 DEF Response, Job
  <2>4. \A x \in DOMAIN r.answers : Right(r, x, f)
    BY <2>1 DEF ToSettle
  <2>. HIDE DEF w
  <2>5. Settled(w, f, c)
    BY <2>3, <2>4 DEF Settled, Right, Prepares
  <2>. QED
    BY <2>3, <2>5 DEF w
<1>. QED
  BY <1>2, <1>3 DEF ToSettle

(* What is settled stays so while a task runs.                             *)
LEMMA SettledIsToSettle ==
  ASSUME NEW f, NEW c, NEW j, NEW r, Prepares(j, f, c), Settled(r, f, c)
  PROVE  ToSettle(r, f, j)
BY DEF Prepares, Settled, ToSettle

LEMMA StoreStart == StoreInit => Inv
<1>. SUFFICES ASSUME StoreInit PROVE Ordered
  BY DEF Inv
<1>1. TypeInv /\ OneJob
  BY StoreAssumption DEF StoreInit, TypeInv, OneJob
<1>2. WellFormed(fields, asked)
  BY DEF StoreInit, WellFormed
<1>3. AllSettled /\ JobSettles
  BY DEF StoreInit, AllSettled, JobSettles
<1>. QED
  BY <1>1, <1>2, <1>3 DEF Ordered

(* A save in order leaves the responses to its task.                       *)
LEMMA SaveOrdered ==
  ASSUME Ordered, SaveQuestionnaire, inOrder'
  PROVE  Ordered'
<1>0. PICK p \in Pages, c \in FormCodes, n \in 0..MaxAsked - asked :
        \E kept \in SUBSET DOMAIN opened[p] :
          LET new     == generate_fields(Posted([q \in kept |-> opened[p][q]], n))
              dropped == Codes(fields) \ Codes(new)
          IN /\ new # <<>>
             /\ fields' = new /\ form_code' = c /\ asked' = asked + n
             /\ jobs' = Append(jobs, [from |-> form_code, to |-> c, dropped |-> dropped])
             /\ inOrder' = (/\ inOrder /\ jobs = <<>> /\ opened[p] = fields
                            /\ c = form_code \/ dropped = {})
             /\ UNCHANGED received
  BY DEF SaveQuestionnaire
<1>1. PICK kept \in SUBSET DOMAIN opened[p] :
        LET new     == generate_fields(Posted([q \in kept |-> opened[p][q]], n))
            dropped == Codes(fields) \ Codes(new)
        IN /\ new # <<>>
           /\ fields' = new /\ form_code' = c /\ asked' = asked + n
           /\ jobs' = Append(jobs, [from |-> form_code, to |-> c, dropped |-> dropped])
           /\ inOrder' = (/\ inOrder /\ jobs = <<>> /\ opened[p] = fields
                          /\ c = form_code \/ dropped = {})
           /\ UNCHANGED received
  BY <1>0
<1>. DEFINE new     == Saving(fields, kept, n)
            dropped == Codes(fields) \ Codes(new)
            job     == [from |-> form_code, to |-> c, dropped |-> dropped]
<1>2. jobs = <<>> /\ opened[p] = fields
  BY <1>1
<1>3. /\ new # <<>> /\ kept \in SUBSET DOMAIN fields
      /\ fields' = new /\ form_code' = c /\ asked' = asked + n
      /\ jobs' = Append(jobs, job) /\ (c = form_code \/ dropped = {})
      /\ received' = received
  BY <1>1, <1>2 DEF Saving
<1>4. asked \in Nat /\ n \in Nat /\ form_code \in FormCodes /\ WellFormed(fields, asked)
      /\ received \in Seq(Response)
  BY DEF Ordered, TypeInv
<1>5. /\ WellFormed(new, asked + n)
      /\ \A q \in DOMAIN fields : q \in kept \/ fields[q] \notin Codes(new)
  BY <1>3, <1>4, GeneratedWellFormed
<1>6. \A q \in kept : q \in DOMAIN new /\ new[q] = fields[q]
  <2>1. Within(fields, asked)
    BY <1>4 DEF WellFormed, Within
  <2>. HIDE DEF new
  <2>2. kept \subseteq DOMAIN fields /\ asked \in Nat /\ n \in Nat
    BY <1>3, <1>4
  <2>3. new = Grafted(fields, kept, n)
    BY <2>1, <2>2, Generated DEF new
  <2>. QED
    BY <2>2, <2>3 DEF Grafted
<1>. HIDE DEF new
<1>7. dropped \subseteq Nat
  BY <1>4 DEF WellFormed, Codes
<1>. HIDE DEF dropped
<1>8. jobs' = <<job>> /\ job \in Job
  BY <1>2, <1>3, <1>4, <1>7 DEF Job
<1>9. Prepares(job, new, c)
  BY <1>3 DEF Prepares, Codes, dropped
<1>10. ASSUME NEW i \in DOMAIN received
       PROVE  ToSettle(received[i], new, job)
  <2>1. Settled(received[i], fields, form_code)
    BY <1>2 DEF Ordered, AllSettled
  <2>2. ASSUME NEW x \in DOMAIN received[i].answers
        PROVE  Right(received[i], x, new) \/ x \in dropped
    <3>1. PICK q \in DOMAIN fields : fields[q] = x /\ received[i].answers[x] = q
      BY <2>1 DEF Settled, Right
    <3>. QED
      BY <3>1, <1>5, <1>6 DEF Right, dropped, Codes
  <2>. QED
    BY <2>1, <2>2 DEF ToSettle, Settled
<1>. HIDE DEF job
<1>11. TypeInv' /\ OneJob'
  BY <1>3, <1>4, <1>8 DEF TypeInv, OneJob
<1>12. jobs' # <<>> /\ jobs'[1] = job
  BY <1>8
<1>13. AllSettled' /\ JobSettles'
  BY <1>3, <1>9, <1>10, <1>12 DEF AllSettled, JobSettles
<1>. QED
  BY <1>3, <1>5, <1>11, <1>13 DEF Ordered

(* A new response answers the form that is saved.                          *)
LEMMA ReceiveOrdered ==
  ASSUME Ordered, Receive
  PROVE  Ordered'
<1>. DEFINE answers == [x \in Codes(fields) |-> CHOOSE q \in DOMAIN fields : fields[q] = x]
            r       == [form |-> form_code, answers |-> answers]
<1>1. /\ received' = Append(received, r)
      /\ UNCHANGED <<fields, form_code, asked, jobs>>
  BY DEF Receive
<1>2. asked \in Nat /\ form_code \in FormCodes /\ WellFormed(fields, asked)
      /\ received \in Seq(Response) /\ jobs \in Seq(Job)
  BY DEF Ordered, TypeInv
<1>3. \A x \in Codes(fields) : answers[x] \in DOMAIN fields /\ fields[answers[x]] = x
  BY DEF Codes
<1>4. Codes(fields) \in SUBSET Nat /\ DOMAIN fields \subseteq Nat
  BY <1>2 DEF WellFormed, Codes
<1>5. r \in Response
  <2>1. answers \in [Codes(fields) -> Nat]
    BY <1>3, <1>4
  <2>2. answers \in Answers
    BY <2>1, <1>4 DEF Answers
  <2>. QED
    BY <2>2, <1>2 DEF Response
<1>6. Settled(r, fields, form_code)
  BY <1>3 DEF Settled, Right
<1>. HIDE DEF r
<1>7. /\ received' \in Seq(Response) /\ DOMAIN received' = DOMAIN received \cup {Len(received) + 1}
      /\ \A i \in DOMAIN received : received'[i] = received[i]
      /\ received'[Len(received) + 1] = r
  BY <1>1, <1>2, <1>5
<1>8. AllSettled'
  BY <1>1, <1>6, <1>7 DEF Ordered, AllSettled
<1>9. JobSettles'
  <2>. SUFFICES ASSUME jobs # <<>>
                PROVE  /\ Prepares(jobs[1], fields, form_code)
                       /\ \A i \in DOMAIN received' : ToSettle(received'[i], fields, jobs[1])
    BY <1>1 DEF JobSettles
  <2>1. /\ Prepares(jobs[1], fields, form_code)
        /\ \A i \in DOMAIN received : ToSettle(received[i], fields, jobs[1])
    BY DEF Ordered, JobSettles
  <2>. QED
    BY <2>1, <1>6, <1>7, SettledIsToSettle
<1>. QED
  BY <1>1, <1>2, <1>7, <1>8, <1>9 DEF Ordered, TypeInv, OneJob

(* A task that ends has settled every response; one that is tried again    *)
(* some.                                                                   *)
LEMMA JobOrdered ==
  ASSUME Ordered, inOrder', RunJob \/ JobFails
  PROVE  Ordered'
<1>. DEFINE j == jobs[1]
<1>0. jobs # <<>> /\ Head(jobs) = j
  <2>1. jobs # <<>> /\ jobs \in Seq(Job)
    BY DEF RunJob, JobFails, Ordered, TypeInv
  <2>. QED
    BY <2>1
<1>. HIDE DEF j
<1>1. /\ UNCHANGED <<fields, form_code, asked>>
      /\ \A i \in DOMAIN received : received'[i] \in {received[i], Rewritten(received[i], j)}
      /\ DOMAIN received' = DOMAIN received
      /\ received' = [i \in DOMAIN received |-> received'[i]]
  <2>1. CASE RunJob
    <3>1. /\ received' = [i \in DOMAIN received |-> Rewritten(received[i], j)]
          /\ UNCHANGED <<fields, form_code, asked>>
      BY <1>0, <2>1 DEF RunJob
    <3>. QED
      BY <3>1
  <2>2. CASE JobFails
    <3>1. PICK n \in 0..Len(received) :
            /\ received' = [i \in DOMAIN received |->
                              IF i <= n THEN Rewritten(received[i], Head(jobs)) ELSE received[i]]
            /\ UNCHANGED <<fields, form_code, asked>>
      BY <2>2 DEF JobFails
    <3>2. received' = [i \in DOMAIN received |->
                              IF i <= n THEN Rewritten(received[i], j) ELSE received[i]]
      BY <1>0, <3>1
    <3>. QED
      BY <3>1, <3>2
  <2>. QED
    BY <2>1, <2>2
<1>2. \/ /\ jobs' = Tail(jobs)
         /\ \A i \in DOMAIN received : received'[i] = Rewritten(received[i], j)
      \/ jobs' = jobs
  <2>1. CASE RunJob
    <3>1. /\ received' = [i \in DOMAIN received |-> Rewritten(received[i], j)]
          /\ jobs' = Tail(jobs)
      BY <1>0, <2>1 DEF RunJob
    <3>. QED
      BY <3>1
  <2>2. CASE JobFails
    BY <2>2 DEF JobFails
  <2>. QED
    BY <2>1, <2>2
<1>3. /\ TypeInv /\ OneJob /\ WellFormed(fields, asked) /\ j \in Job
      /\ Prepares(j, fields, form_code)
      /\ \A i \in DOMAIN received : ToSettle(received[i], fields, j)
  BY <1>0 DEF Ordered, TypeInv, JobSettles, j
<1>4. ASSUME NEW i \in DOMAIN received
      PROVE  LET w == Rewritten(received[i], j)
             IN w \in Response /\ received[i] \in Response /\ Settled(w, fields, form_code)
                  /\ ToSettle(w, fields, j)
  <2>1. received[i] \in Response
    BY <1>3 DEF TypeInv
  <2>2. Rewritten(received[i], j) \in Response
        /\ Settled(Rewritten(received[i], j), fields, form_code)
    BY <2>1, <1>3, RewrittenSettles
  <2>. QED
    BY <2>1, <2>2, <1>3, SettledIsToSettle
<1>5. received' \in Seq(Response)
  <2>1. \A i \in DOMAIN received : received'[i] \in Response
    BY <1>1, <1>4
  <2>2. DOMAIN received = 1..Len(received) /\ Len(received) \in Nat
    BY <1>3 DEF TypeInv
  <2>. QED
    BY <1>1, <2>1, <2>2
<1>6. CASE jobs' = jobs
  <2>1. \A i \in DOMAIN received : ToSettle(received'[i], fields, j)
    BY <1>1, <1>3, <1>4
  <2>. QED
    BY <1>0, <1>1, <1>3, <1>5, <1>6, <2>1 DEF Ordered, TypeInv, OneJob, AllSettled, JobSettles, j
<1>7. CASE /\ jobs' = Tail(jobs)
           /\ \A i \in DOMAIN received : received'[i] = Rewritten(received[i], j)
  <2>1. jobs' = <<>>
    BY <1>0, <1>3, <1>7 DEF TypeInv, OneJob
  <2>2. \A i \in DOMAIN received : Settled(received'[i], fields, form_code)
    BY <1>4, <1>7
  <2>3. TypeInv' /\ OneJob'
    BY <1>1, <1>3, <1>5, <2>1 DEF TypeInv, OneJob
  <2>4. AllSettled' /\ JobSettles'
    BY <1>1, <2>1, <2>2 DEF AllSettled, JobSettles
  <2>. QED
    BY <1>1, <1>3, <2>3, <2>4 DEF Ordered
<1>. QED
  BY <1>2, <1>6, <1>7

LEMMA StoreStep == Inv /\ [StoreNext]_storeVars => Inv'
<1>. SUFFICES ASSUME Inv, [StoreNext]_storeVars, inOrder' PROVE Ordered'
  BY DEF Inv
<1>1. inOrder /\ Ordered
  BY DEF Inv, StoreNext, storeVars
<1>2. CASE OpenPage \/ UNCHANGED storeVars
  <2>1. UNCHANGED <<fields, form_code, received, jobs, asked>>
    BY <1>2 DEF OpenPage, storeVars
  <2>. QED
    BY <1>1, <2>1 DEF Ordered, TypeInv, OneJob, AllSettled, JobSettles
<1>3. CASE SaveQuestionnaire
  BY <1>1, <1>3, SaveOrdered
<1>4. CASE Receive
  BY <1>1, <1>4, ReceiveOrdered
<1>5. CASE RunJob \/ JobFails
  BY <1>1, <1>5, JobOrdered
<1>. QED
  BY <1>2, <1>3, <1>4, <1>5 DEF StoreNext

(* Whatever is saved over whatever, in order, the codes stay distinct, the *)
(* answers stand for their questions once the task ran, and every answer   *)
(* that a task drops belongs to a dropped question.                        *)
THEOREM StoreInvariant == StoreSpec => []Inv
BY StoreStart, StoreStep, PTL DEF StoreSpec

-----------------------------------------------------------------------------
(* The codes of the saved form are distinct, and once the tasks have run   *)
(* an answer under a code was given to the question that has it.           *)
THEOREM AnswersAreIdentified == StoreSpec => []AnswersIdentified
<1>1. Inv => AnswersIdentified
  BY DEF Inv, Ordered, WellFormed, AllSettled, Settled, Right, AnswersIdentified, CodesDistinct,
         AnswersBelong
<1>. QED
  BY <1>1, StoreInvariant, PTL

(* No step takes from a response the answer to a question that is asked    *)
(* before and after it.                                                    *)
LEMMA StepKeeps ==
  ASSUME Inv, [StoreNext]_storeVars, inOrder',
         NEW i \in DOMAIN received, NEW x \in DOMAIN received[i].answers,
         received[i].answers[x] \in DOMAIN fields', fields'[received[i].answers[x]] = x
  PROVE  x \in DOMAIN received'[i].answers
<1>1. inOrder /\ Ordered
  BY DEF Inv, StoreNext, storeVars
<1>2. CASE OpenPage \/ SaveQuestionnaire \/ UNCHANGED storeVars
  BY <1>2 DEF OpenPage, SaveQuestionnaire, storeVars
<1>3. CASE Receive
  BY <1>1, <1>3 DEF Receive, Ordered, TypeInv
<1>4. CASE RunJob \/ JobFails
  <2>. DEFINE j == jobs[1]
  <2>1. jobs # <<>> /\ Head(jobs) = j /\ fields' = fields
    <3>1. jobs # <<>> /\ fields' = fields /\ jobs \in Seq(Job)
      BY <1>1, <1>4 DEF RunJob, JobFails, Ordered, TypeInv
    <3>. QED
      BY <3>1
  <2>2. /\ j \in Job /\ received[i] \in Response
        /\ Prepares(j, fields, form_code) /\ ToSettle(received[i], fields, j)
    BY <1>1, <2>1 DEF Ordered, TypeInv, JobSettles
  <2>. HIDE DEF j
  <2>3. x \notin j.dropped
    BY <2>1, <2>2 DEF Prepares
  <2>4. x \in DOMAIN Rewritten(received[i], j).answers
    BY <2>2, <2>3, RewrittenSettles
  <2>5. received'[i] \in {received[i], Rewritten(received[i], j)}
    BY <1>4, <2>1 DEF RunJob, JobFails
  <2>. QED
    BY <2>4, <2>5
<1>. QED
  BY <1>2, <1>3, <1>4 DEF StoreNext

(* A response under the code of the form keeps its answers to the          *)
(* questions that are still asked: the tasks drop none of them.            *)
THEOREM AnswersAreKept == StoreSpec => AnswersKept
<1>. DEFINE Kept == inOrder' => \A i \in DOMAIN received : \A x \in DOMAIN received[i].answers :
       LET q == received[i].answers[x]
       IN q \in DOMAIN fields' /\ fields'[q] = x => x \in DOMAIN received'[i].answers
<1>1. Inv /\ [StoreNext]_storeVars => [Kept]_storeVars
  BY StepKeeps
<1>. QED
  BY <1>1, StoreInvariant, PTL DEF StoreSpec, AnswersKept

-----------------------------------------------------------------------------
(* Type correctness.  What is saved and what the pages were opened with is *)
(* within the questions asked so far.                                      *)
FormsShape ==
  /\ asked \in 2..MaxAsked /\ form_code \in FormCodes
  /\ fields # <<>> /\ Within(fields, asked)
  /\ DOMAIN opened = Pages /\ \A p \in Pages : Within(opened[p], asked)
  /\ \A i \in DOMAIN received : received[i].form \in FormCodes

LEMMA WithinMore ==
  ASSUME NEW a \in Nat, NEW n \in Nat, NEW f, Within(f, a)
  PROVE  Within(f, a + n)
BY DEF Within

(* A save of a page, whenever it was opened.                               *)
LEMMA SavedWithin ==
  ASSUME Ordered, FormsShape, SaveQuestionnaire
  PROVE  FormsShape'
<1>0. PICK p \in Pages, c \in FormCodes, n \in 0..MaxAsked - asked, named \in BOOLEAN :
        \E kept \in SUBSET DOMAIN opened[p] :
          LET new == Saving(opened[p], kept, n)
          IN /\ new # <<>>
             /\ fields' = new /\ form_code' = c /\ asked' = asked + n
             /\ opened' = IF named THEN [opened EXCEPT ![p] = new] ELSE opened
             /\ UNCHANGED received
  BY DEF SaveQuestionnaire, Saving
<1>1. PICK kept \in SUBSET DOMAIN opened[p] :
        LET new == Saving(opened[p], kept, n)
        IN /\ new # <<>>
           /\ fields' = new /\ form_code' = c /\ asked' = asked + n
           /\ opened' = IF named THEN [opened EXCEPT ![p] = new] ELSE opened
           /\ UNCHANGED received
  BY <1>0
<1>. DEFINE M   == Max(Codes(fields))
            f   == opened[p]
            new == Saving(f, kept, n)
<1>2. asked \in Nat /\ n \in Nat /\ asked + n \in 2..MaxAsked /\ Within(f, asked)
  BY StoreAssumption DEF FormsShape
<1>3. M \in 1..asked
  <2>1. M \in Codes(fields)
    BY HighestCode, <1>2 DEF Ordered, M
  <2>. QED
    BY <2>1 DEF FormsShape, Within, Codes
<1>4. new # <<>> /\ fields' = new /\ form_code' = c /\ asked' = asked + n
      /\ opened' = (IF named THEN [opened EXCEPT ![p] = new] ELSE opened)
      /\ received' = received /\ kept \in SUBSET DOMAIN f
  BY <1>1
<1>. HIDE DEF f, M, new
<1>5. /\ DOMAIN new = kept \cup (asked + 1..asked + n)
      /\ \A q \in kept : new[q] = f[q]
      /\ \A q \in asked + 1..asked + n : new[q] = M + (q - asked)
  <2>1. asked \in Nat /\ n \in Nat /\ Within(f, asked) /\ kept \subseteq DOMAIN f
    BY <1>2, <1>4
  <2>2. new = Grafted(f, kept, n)
    BY <2>1, Generated DEF new
  <2>3. \A q \in asked + 1..asked + n : q \notin kept
    BY <2>1 DEF Within
  <2>. QED
    BY <2>2, <2>3 DEF Grafted, M
<1>6. Within(new, asked + n)
  <2>1. DOMAIN new \subseteq 1..asked + n
    BY <1>2, <1>4, <1>5 DEF Within
  <2>2. \A q \in DOMAIN new : new[q] \in 1..asked + n
    BY <1>2, <1>3, <1>4, <1>5 DEF Within
  <2>. QED
    BY <2>1, <2>2 DEF Within
<1>7. \A q \in Pages : Within(opened[q], asked + n)
  BY <1>2, WithinMore DEF FormsShape
<1>8. DOMAIN opened' = Pages /\ \A q \in Pages : opened'[q] \in {opened[q], new}
  BY <1>4 DEF FormsShape
<1>9. \A q \in Pages : Within(opened'[q], asked + n)
  BY <1>6, <1>7, <1>8
<1>. QED
  BY <1>2, <1>4, <1>6, <1>8, <1>9 DEF FormsShape

LEMMA ShapeStep == Inv /\ FormsShape /\ [StoreNext]_storeVars => FormsShape'
<1>. SUFFICES ASSUME Inv, FormsShape, [StoreNext]_storeVars PROVE FormsShape'
  OBVIOUS
<1>1. CASE UNCHANGED storeVars
  BY <1>1 DEF storeVars, FormsShape
<1>2. CASE StoreNext
  <2>1. Ordered
    BY <1>2 DEF StoreNext, Inv
  <2>2. CASE OpenPage
    <3>1. PICK p \in Pages : opened' = [opened EXCEPT ![p] = fields]
                           /\ UNCHANGED <<fields, form_code, received, asked>>
      BY <2>2 DEF OpenPage
    <3>2. DOMAIN opened' = Pages /\ \A q \in Pages : opened'[q] \in {opened[q], fields}
      BY <3>1 DEF FormsShape
    <3>. QED
      BY <3>1, <3>2 DEF FormsShape
  <2>3. CASE SaveQuestionnaire
    BY <2>1, <2>3, SavedWithin
  <2>4. CASE Receive
    <3>. DEFINE r == [form |-> form_code,
                      answers |-> [x \in Codes(fields) |-> CHOOSE q \in DOMAIN fields : fields[q] = x]]
    <3>1. received' = Append(received, r) /\ r.form = form_code
          /\ UNCHANGED <<fields, form_code, opened, asked>>
      BY <2>4 DEF Receive
    <3>2. received \in Seq(Response)
      BY <2>1 DEF Ordered, TypeInv
    <3>. HIDE DEF r
    <3>3. \A i \in DOMAIN received' : \/ i \in DOMAIN received /\ received'[i] = received[i]
                                   \/ received'[i] = r
      BY <3>1, <3>2
    <3>. QED
      BY <3>1, <3>3 DEF FormsShape
  <2>5. CASE RunJob \/ JobFails
    <3>. DEFINE j == jobs[1]
    <3>1. jobs # <<>> /\ Head(jobs) = j
      <4>1. jobs # <<>> /\ jobs \in Seq(Job)
        BY <2>1, <2>5 DEF RunJob, JobFails, Ordered, TypeInv
      <4>. QED
        BY <4>1
    <3>2. j \in Job /\ Prepares(j, fields, form_code)
          /\ \A i \in DOMAIN received : received[i] \in Response /\ ToSettle(received[i], fields, j)
      BY <2>1, <3>1 DEF Ordered, TypeInv, JobSettles
    <3>. HIDE DEF j
    <3>3. \A i \in DOMAIN received : Rewritten(received[i], j) \in Response
      BY <3>2, RewrittenSettles
    <3>4. /\ UNCHANGED <<fields, form_code, opened, asked>> /\ DOMAIN received' = DOMAIN received
          /\ \A i \in DOMAIN received : received'[i] \in {received[i], Rewritten(received[i], j)}
      <4>1. CASE RunJob
        BY <4>1, <3>1 DEF RunJob
      <4>2. CASE JobFails
        BY <4>2, <3>1 DEF JobFails
      <4>. QED
        BY <2>5, <4>1, <4>2
    <3>5. \A i \in DOMAIN received' : received'[i].form \in FormCodes
      BY <3>2, <3>3, <3>4 DEF Response
    <3>. QED
      BY <3>4, <3>5 DEF FormsShape
  <2>. QED
    BY <1>2, <2>2, <2>3, <2>4, <2>5 DEF StoreNext
<1>. QED
  BY <1>1, <1>2

(* The codes of the saved form are numbers of questions that were asked.   *)
THEOREM FormsKeepTheirType == StoreSpec => []StoreTypeOK
<1>1. StoreInit => FormsShape
  BY StoreAssumption DEF StoreInit, FormsShape, Within
<1>2. FormsShape => StoreTypeOK
  <2>. SUFFICES ASSUME FormsShape PROVE StoreTypeOK
    OBVIOUS
  <2>1. 1..asked \subseteq 1..MaxAsked
    BY StoreAssumption DEF FormsShape
  <2>. QED
    BY <2>1 DEF FormsShape, Within, StoreTypeOK, Codes
<1>. QED
  BY <1>1, <1>2, ShapeStep, StoreInvariant, PTL DEF StoreSpec
=============================================================================
