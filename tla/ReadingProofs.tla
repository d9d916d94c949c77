---------------------------- MODULE ReadingProofs ----------------------------
(* What the pages show, for any number of items, notifications, versions,   *)
(* clicks, comments and failures: lists without holes, filters that agree   *)
(* with the address, a way to the text of a private diary, buttons and      *)
(* counters that are right, a queue that is served, and the types of all.   *)
EXTENDS MCReading, SequenceTheorems, FiniteSetTheorems, WellFoundedInduction, TLAPS

\* A set of naturals that is not empty has a least element.
LEMMA LeastElement ==
    ASSUME NEW S \in SUBSET Nat, S # {}
    PROVE  \E m \in S : \A k \in S : m <= k
<1> DEFINE R == OpToRel(<, Nat)
<1>1. IsWellFoundedOn(R, Nat)
  BY NatLessThanWellFounded
<1>2. \A a, b \in Nat : a < b => <<a, b>> \in R
  BY DEF OpToRel
<1> HIDE DEF R
<1>3. PICK m \in S : \A y \in S : ~ (<<y, m>> \in R)
  BY <1>1, WFMin
<1>4. \A y \in S : ~ (y < m) /\ m \in Nat /\ y \in Nat
  BY <1>2, <1>3
<1> QED
  BY <1>4

-----------------------------------------------------------------------------
(* Lists by pages.                                                          *)

ListTypes ==
    /\ items \in Seq(Ids) /\ made \in 0..MaxItems /\ removed \in BOOLEAN
    /\ pages \in Seq(Pages) /\ job.acc \in Seq(Pages) /\ job.left \in Nat
    /\ \A i \in DOMAIN pages : pages[i].no = i

\* Without deletions the server has the items that were ever made, newest first.
NewestFirst == items = [i \in 1..made |-> made + 1 - i]

\* The i-th page of a list of the first m items.
Before(i) == i * PerPage
Slice(m, i) == {x \in 1..m : m - Before(i) < x /\ x <= m - Before(i - 1)}

\* Each page is one of a list that has only grown since the page before was read.
ReadInOrder(ps, m) ==
    /\ m \in [DOMAIN ps -> 0..made]
    /\ \A i \in DOMAIN ps : Range(ps[i].ids) = Slice(m[i], i)
    /\ \A i, j \in DOMAIN ps : i <= j => m[i] <= m[j]

ListInv ==
    /\ ListTypes
    /\ \A i \in DOMAIN job.acc : job.acc[i].no = i
    /\ ~removed => /\ NewestFirst
                   /\ \E m : ReadInOrder(pages, m)
                   /\ \E m : ReadInOrder(job.acc, m)

\* Each page begins where the one before it ends.
LEMMA NextPage ==
    ASSUME NEW i \in Nat \ {0}
    PROVE  Before(i) \in Nat /\ Before(i - 1) \in Nat /\ Before(i) = Before(i - 1) + PerPage
BY BrowsingBounds DEF Before

\* The list is there before anyone looks at it.
LEMMA ListStarts == BrowsingInit => ListInv
<1> SUFFICES ASSUME BrowsingInit PROVE ListInv
  OBVIOUS
<1>1. made \in 0..MaxItems /\ MaxItems \in Nat /\ removed = FALSE /\ job = NoJob /\ pages = <<>>
  BY BrowsingBounds DEF BrowsingInit
<1>2. items = [i \in 1..made |-> made + 1 - i]
  BY DEF BrowsingInit
<1>3. \A i \in 1..made : made + 1 - i \in Ids
  BY <1>1 DEF Ids
<1>4. items \in Seq(Ids)
  BY <1>1, <1>2, <1>3, IsASeq
<1>5. pages \in Seq(Pages) /\ job.acc \in Seq(Pages) /\ job.left \in Nat
  BY <1>1, EmptySeq DEF NoJob
<1>6. ListTypes
  <2>1. \A i \in DOMAIN pages : pages[i].no = i
    BY <1>1
  <2> QED
    BY <1>1, <1>4, <1>5, <2>1 DEF ListTypes
<1>7. ASSUME NEW m, m = [i \in {} |-> 0] PROVE ReadInOrder(<<>>, m)
  BY <1>7 DEF ReadInOrder
<1>8. ReadInOrder(<<>>, [i \in {} |-> 0])
  BY <1>7
<1> QED
  BY <1>1, <1>2, <1>6, <1>8 DEF ListInv, NoJob, NewestFirst

\* The server's page has the items of its place in the list.
LEMMA PageFits ==
    ASSUME ListTypes, NEW no \in Nat \ {0}
    PROVE  /\ PageAt(no) \in Pages /\ PageAt(no).no = no
           /\ NewestFirst => Range(PageAt(no).ids) = Slice(made, no)
<1> DEFINE b0 == Before(no - 1)
           b1 == Before(no)
           to == IF b1 < Len(items) THEN b1 ELSE Len(items)
           ids == SubSeq(items, b0 + 1, to)
<1>1. b0 \in Nat /\ b1 \in Nat /\ PerPage \in Nat /\ b1 = b0 + PerPage
  BY NextPage, BrowsingBounds
<1>2. PageAt(no) = [no |-> no, ids |-> ids, more |-> b1 < Len(items)]
  BY DEF PageAt, Before
<1>3. Slice(made, no) = {x \in 1..made : made - b1 < x /\ x <= made - b0}
  BY DEF Slice
<1> HIDE DEF b0, b1
<1>4. items \in Seq(Ids) /\ Len(items) \in Nat /\ DOMAIN items = 1..Len(items)
  BY LenProperties DEF ListTypes
<1>5. to \in Nat /\ to <= Len(items) /\ b0 + 1 \in Nat \ {0} /\ to <= b1
  BY <1>1, <1>4
<1>6. \A i \in (b0 + 1)..to : i \in 1..Len(items)
  BY <1>4, <1>5
<1>7. \A i \in (b0 + 1)..to : items[i] \in Ids
  BY <1>4, <1>6, ElementOfSeq
<1> HIDE DEF to
<1>8. /\ ids \in Seq(Ids)
      /\ Len(ids) = IF b0 + 1 <= to THEN to - (b0 + 1) + 1 ELSE 0
      /\ \A i \in 1..(to - (b0 + 1) + 1) : ids[i] = items[(b0 + 1) + i - 1]
  BY <1>5, <1>7, SubSeqProperties
<1>9. DOMAIN ids = 1..Len(ids) /\ Len(ids) \in Nat
  BY <1>8, LenProperties
<1> HIDE DEF ids
<1>10. PageAt(no) \in Pages /\ PageAt(no).no = no
  BY <1>2, <1>8 DEF Pages
<1>11. ASSUME NewestFirst PROVE Range(ids) = Slice(made, no)
  <2>5. made \in Nat
    BY BrowsingBounds DEF ListTypes
  <2>6. DOMAIN items = 1..made /\ \A i \in 1..made : items[i] = made + 1 - i
    BY <1>11 DEF NewestFirst
  <2>1. made \in Nat /\ Len(items) = made /\ \A i \in 1..made : items[i] = made + 1 - i
    <3>1. \A a, b \in Nat : 1..a = 1..b => a = b
      OBVIOUS
    <3> QED
      BY <1>4, <2>5, <2>6, <3>1
  <2>2. to = IF b1 < made THEN b1 ELSE made
    BY <2>1 DEF to
  <2>3. ASSUME NEW i \in DOMAIN ids PROVE ids[i] \in Slice(made, no)
    <3>1. i \in Nat /\ 1 <= i /\ i <= to - b0
      BY <1>1, <1>5, <1>8, <1>9
    <3>2. ids[i] = items[b0 + i] /\ b0 + i \in 1..made
      <4>1. i \in 1..(to - (b0 + 1) + 1) /\ (b0 + 1) + i - 1 = b0 + i
        BY <1>1, <1>5, <3>1
      <4>2. ids[i] = items[b0 + i]
        BY <1>8, <4>1
      <4> QED
        BY <1>1, <1>5, <2>1, <3>1, <4>2
    <3>3. ids[i] = made + 1 - (b0 + i)
      BY <2>1, <3>2
    <3>4. /\ made + 1 - (b0 + i) \in 1..made /\ made - b1 < made + 1 - (b0 + i)
          /\ made + 1 - (b0 + i) <= made - b0
      BY <1>1, <1>5, <2>1, <3>1, <3>2
    <3> QED
      BY <1>3, <3>3, <3>4
  <2>4. ASSUME NEW x \in Slice(made, no) PROVE \E i \in DOMAIN ids : ids[i] = x
    <3>1. x \in 1..made /\ made - b1 < x /\ x <= made - b0
      BY <1>3
    <3> DEFINE i == made + 1 - x - b0
    <3>2. i \in Nat /\ 1 <= i /\ i <= to - b0 /\ b0 + i \in 1..made /\ made + 1 - (b0 + i) = x
      BY <1>1, <2>1, <2>2, <3>1
    <3> HIDE DEF i
    <3>3. i \in 1..(to - (b0 + 1) + 1) /\ (b0 + 1) + i - 1 = b0 + i /\ i \in 1..Len(ids)
      BY <1>1, <1>5, <1>8, <3>2
    <3>4. ids[i] = items[b0 + i]
      BY <1>8, <3>3
    <3>5. items[b0 + i] = x
      BY <2>1, <3>2
    <3> QED
      BY <1>9, <3>3, <3>4, <3>5
  <2> QED
    BY <2>3, <2>4 DEF Range
<1> QED
  BY <1>2, <1>10, <1>11

\* The page after those that were read is the next one.
LEMMA NextNoFits ==
    ASSUME NEW ps \in Seq(Pages), \A i \in DOMAIN ps : ps[i].no = i
    PROVE  NextNo(ps) = Len(ps) + 1 /\ Len(ps) \in Nat /\ DOMAIN ps = 1..Len(ps)
<1>1. Len(ps) \in Nat /\ DOMAIN ps = 1..Len(ps)
  BY LenProperties
<1>2. CASE ps = <<>>
  BY <1>1, <1>2, EmptySeq DEF NextNo
<1>3. CASE ps # <<>>
  <2>1. Len(ps) \in DOMAIN ps
    BY <1>1, <1>3, EmptySeq
  <2> QED
    BY <1>1, <1>3, <2>1 DEF NextNo, Last
<1> QED
  BY <1>1, <1>2, <1>3

\* Items that are added to the head do not change what was read before.
LEMMA OrderStays ==
    ASSUME NEW ps, NEW m, ReadInOrder(ps, m), made \in Nat, made' \in Nat, made' >= made
    PROVE  ReadInOrder(ps, m)'
<1>1. \A i \in DOMAIN ps : m[i] \in 0..made'
  BY DEF ReadInOrder
<1> QED
  BY <1>1 DEF ReadInOrder, Slice, Before

\* One more page is one of the list as it is.
LEMMA PageAppended ==
    ASSUME ListTypes, NewestFirst, NEW ps \in Seq(Pages), NEW m, ReadInOrder(ps, m),
           NEW qs, qs = Append(ps, PageAt(Len(ps) + 1)),
           NEW k, k = [i \in DOMAIN qs |-> IF i <= Len(ps) THEN m[i] ELSE made]
    PROVE  ReadInOrder(qs, k)
<1>1. Len(ps) \in Nat /\ DOMAIN ps = 1..Len(ps)
  BY LenProperties
<1> DEFINE n == Len(ps) + 1
<1>2. n \in Nat \ {0} /\ n - 1 = Len(ps)
  BY <1>1
<1> DEFINE p == PageAt(n)
<1>3. p \in Pages /\ Range(p.ids) = Slice(made, n)
  BY <1>2, PageFits
<1> HIDE DEF p, n
<1>4. qs = Append(ps, p)
  BY DEF p, n
<1>5. /\ qs \in Seq(Pages) /\ Len(qs) = Len(ps) + 1
      /\ \A i \in 1..Len(ps) : qs[i] = ps[i]
      /\ qs[Len(ps) + 1] = p
  BY <1>3, <1>4, AppendProperties
<1>6. DOMAIN qs = 1..n
  BY <1>5, LenProperties DEF n
<1>7. made \in Nat /\ \A i \in 1..Len(ps) : m[i] \in 0..made
  <2>1. made \in Nat
    BY BrowsingBounds DEF ListTypes
  <2> QED
    BY <1>1, <2>1 DEF ReadInOrder
<1>8. \A i \in 1..n : k[i] = IF i <= Len(ps) THEN m[i] ELSE made
  BY <1>6
<1>9. \A i \in 1..n : i <= Len(ps) => i \in 1..Len(ps)
  BY <1>1
<1>10. \A i \in 1..n : ~(i <= Len(ps)) => i = n
  BY <1>1, <1>2
<1>11. k \in [DOMAIN qs -> 0..made]
  BY <1>6, <1>7, <1>9
<1>12. ASSUME NEW i \in 1..n PROVE Range(qs[i].ids) = Slice(k[i], i)
  <2>1. CASE i <= Len(ps)
    BY <1>1, <1>5, <1>8, <1>9, <2>1 DEF ReadInOrder
  <2>2. CASE ~(i <= Len(ps))
    <3>1. i = n /\ k[i] = made /\ qs[n] = p
      BY <1>5, <1>8, <1>10, <2>2 DEF n
    <3> QED
      BY <1>3, <3>1
  <2> QED
    BY <2>1, <2>2
<1>13. ASSUME NEW i \in 1..n, NEW j \in 1..n, i <= j PROVE k[i] <= k[j]
  <2>1. CASE j <= Len(ps)
    <3>1. i <= Len(ps)
      BY <1>1, <1>2, <1>13, <2>1
    <3>2. k[i] = m[i] /\ k[j] = m[j] /\ i \in DOMAIN ps /\ j \in DOMAIN ps
      BY <1>1, <1>8, <1>9, <2>1, <3>1
    <3> QED
      BY <1>13, <3>2 DEF ReadInOrder
  <2>2. CASE ~(j <= Len(ps))
    <3>1. k[j] = made /\ (k[i] = made \/ k[i] \in 0..made)
      BY <1>7, <1>8, <1>9, <2>2
    <3> QED
      BY <1>7, <3>1
  <2> QED
    BY <2>1, <2>2
<1> QED
  BY <1>6, <1>11, <1>12, <1>13 DEF ReadInOrder

\* The list grows at its head.
LEMMA AddSafe == ListInv /\ AddItem => ListInv'
<1> SUFFICES ASSUME ListInv, AddItem PROVE ListInv'
  OBVIOUS
<1>1. /\ made' = made + 1 /\ items' = <<made + 1>> \o items
      /\ UNCHANGED <<removed, pages, job>>
  BY DEF AddItem
<1>2. made \in Nat /\ made' \in 0..MaxItems /\ made' \in Nat /\ made + 1 \in Ids
  <2>1. made \in 0..MaxItems /\ MaxItems \in Nat /\ made < MaxItems
    BY BrowsingBounds DEF ListInv, ListTypes, AddItem
  <2> QED
    BY <1>1, <2>1 DEF Ids
<1>3. items \in Seq(Ids) /\ <<made + 1>> \in Seq(Ids) /\ Len(<<made + 1>>) = 1
  BY <1>2 DEF ListInv, ListTypes
<1>4. /\ items' \in Seq(Ids) /\ Len(items') = 1 + Len(items)
      /\ \A i \in 1..(1 + Len(items)) :
           items'[i] = IF i <= 1 THEN <<made + 1>>[i] ELSE items[i - 1]
  BY <1>1, <1>3, ConcatProperties
<1>5. ListTypes'
  BY <1>1, <1>2, <1>4 DEF ListInv, ListTypes
<1>6. ASSUME NewestFirst PROVE NewestFirst'
  <2>1. Len(items) \in Nat /\ DOMAIN items = 1..Len(items) /\ DOMAIN items' = 1..(1 + Len(items))
    BY <1>3, <1>4, LenProperties
  <2>2. DOMAIN items = 1..made /\ \A i \in 1..made : items[i] = made + 1 - i
    BY <1>6 DEF NewestFirst
  <2>3. Len(items) = made
    <3>1. \A a, b \in Nat : 1..a = 1..b => a = b
      OBVIOUS
    <3> QED
      BY <1>2, <2>1, <2>2, <3>1
  <2>4. DOMAIN items' = 1..made'
    BY <1>1, <1>2, <2>1, <2>3
  <2>5. ASSUME NEW i \in 1..made' PROVE items'[i] = made' + 1 - i
    <3>1. i \in Nat /\ 1 <= i /\ i <= made + 1 /\ i \in 1..(1 + Len(items))
      BY <1>1, <1>2, <2>3
    <3>2. CASE i = 1
      <4>1. items'[1] = <<made + 1>>[1]
        BY <1>4, <3>1, <3>2
      <4> QED
        BY <1>1, <1>2, <3>2, <4>1
    <3>3. CASE i # 1
      <4>1. items'[i] = items[i - 1] /\ i - 1 \in 1..made
        BY <1>2, <1>4, <3>1, <3>3
      <4>2. items[i - 1] = made + 1 - (i - 1)
        BY <2>2, <4>1
      <4> QED
        BY <1>1, <1>2, <3>1, <4>1, <4>2
    <3> QED
      BY <3>2, <3>3
  <2>6. items' = [i \in DOMAIN items' |-> items'[i]]
    BY <1>1, <1>4, LenProperties
  <2> QED
    BY <2>4, <2>5, <2>6 DEF NewestFirst
<1>7. ~removed' => /\ NewestFirst'
                   /\ \E m : ReadInOrder(pages, m)'
                   /\ \E m : ReadInOrder(job.acc, m)'
  <2> SUFFICES ASSUME ~removed'
               PROVE  /\ NewestFirst'
                      /\ \E m : ReadInOrder(pages, m)'
                      /\ \E m : ReadInOrder(job.acc, m)'
    OBVIOUS
  <2>1. PICK m1 : ReadInOrder(pages, m1)
    BY <1>1 DEF ListInv
  <2>2. PICK m2 : ReadInOrder(job.acc, m2)
    BY <1>1 DEF ListInv
  <2>3. ReadInOrder(pages, m1)' /\ ReadInOrder(job.acc, m2)'
    <3>1. ReadInOrder(pages, m1)'
      BY <1>1, <1>2, <2>1, OrderStays DEF ReadInOrder
    <3>2. ReadInOrder(job.acc, m2)'
      BY <1>1, <1>2, <2>2, OrderStays DEF ReadInOrder
    <3> QED
      BY <3>1, <3>2
  <2> QED
    BY <1>1, <1>6, <2>3 DEF ListInv
<1> QED
  BY <1>1, <1>5, <1>7 DEF ListInv

\* What is left of the list is a list.
LEMMA RemoveSafe ==
    ASSUME ListInv, NEW i \in DOMAIN items, RemoveItem(i)
    PROVE  ListInv'
<1>1. items \in Seq(Ids) /\ Len(items) \in Nat /\ DOMAIN items = 1..Len(items)
  BY LenProperties DEF ListInv, ListTypes
<1>2. i \in Int /\ i + 1 \in Int /\ i - 1 \in Int /\ 1 <= i
  BY <1>1
<1>3. SubSeq(items, 1, i - 1) \in Seq(Ids)
  <2>1. \A k \in 1..(i - 1) : items[k] \in Ids
    BY <1>1, <1>2, ElementOfSeq
  <2> QED
    BY <1>2, <2>1, SubSeqProperties
<1>4. SubSeq(items, i + 1, Len(items)) \in Seq(Ids)
  <2>1. \A k \in (i + 1)..Len(items) : items[k] \in Ids
    BY <1>1, <1>2, ElementOfSeq
  <2> QED
    BY <1>1, <1>2, <2>1, SubSeqProperties
<1>5. items' \in Seq(Ids)
  BY <1>3, <1>4, ConcatProperties DEF RemoveItem, RemoveAt
<1> QED
  BY <1>5 DEF RemoveItem, ListInv, ListTypes

\* The client reads pages one by one and shows them together.
LEMMA RequestSafe ==
    ASSUME ListInv, Refetch \/ LoadMore \/ PagesFail
    PROVE  ListInv'
<1>1. UNCHANGED <<items, made, removed, pages>>
  BY DEF Refetch, LoadMore, PagesFail
<1>2. pages \in Seq(Pages) /\ Len(pages) \in Nat /\ <<>> \in Seq(Pages)
  BY LenProperties, EmptySeq DEF ListInv, ListTypes
<1>3. job'.acc \in {<<>>, pages} /\ job'.left \in Nat
  <2>1. CASE Refetch
    BY <1>2, <2>1 DEF Refetch
  <2>2. CASE LoadMore
    BY <2>2 DEF LoadMore
  <2>3. CASE PagesFail
    BY <2>3 DEF PagesFail, NoJob
  <2> QED
    BY <2>1, <2>2, <2>3
<1>4. ListTypes'
  BY <1>1, <1>2, <1>3 DEF ListInv, ListTypes
<1>5. \A i \in DOMAIN job'.acc : job'.acc[i].no = i
  <2>1. \A i \in DOMAIN pages : pages[i].no = i
    BY DEF ListInv, ListTypes
  <2> QED
    BY <1>3, <2>1
<1>6. ASSUME ~removed
      PROVE  NewestFirst' /\ (\E m : ReadInOrder(pages', m)) /\ \E m : ReadInOrder(job'.acc, m)
  <2>1. PICK m1 : ReadInOrder(pages, m1)
    BY <1>6 DEF ListInv
  <2>2. ReadInOrder(<<>>, [i \in {} |-> 0])
    <3>1. ASSUME NEW m, m = [i \in {} |-> 0] PROVE ReadInOrder(<<>>, m)
      BY <3>1 DEF ReadInOrder
    <3> QED
      BY <3>1
  <2> QED
    BY <1>1, <1>3, <1>6, <2>1, <2>2 DEF ListInv, NewestFirst
<1>7. \A ps, m : ReadInOrder(ps, m)' <=> ReadInOrder(ps, m)
  BY <1>1 DEF ReadInOrder
<1> QED
  BY <1>1, <1>4, <1>5, <1>6, <1>7 DEF ListInv

\* One more page is read.
LEMMA ReadSafe == ListInv /\ ReadPage => ListInv'
<1> SUFFICES ASSUME ListInv, ReadPage PROVE ListInv'
  OBVIOUS
<1> DEFINE ps == job.acc
           n == Len(ps) + 1
           p == PageAt(n)
<1>1. ps \in Seq(Pages) /\ \A i \in DOMAIN ps : ps[i].no = i
  BY DEF ListInv, ListTypes
<1>2. NextNo(ps) = n /\ Len(ps) \in Nat /\ DOMAIN ps = 1..Len(ps)
  BY <1>1, NextNoFits
<1>3. n \in Nat \ {0}
  BY <1>2
<1>4. p \in Pages /\ p.no = n
  BY <1>3, PageFits DEF ListInv
<1>5. /\ job'.acc = Append(ps, p)
      /\ job'.left = IF p.more THEN job.left - 1 ELSE 0
      /\ UNCHANGED <<items, made, removed, pages>>
  BY <1>2 DEF ReadPage
<1>6. job'.left \in Nat
  BY <1>5 DEF ReadPage, ListInv, ListTypes
<1> HIDE DEF p
<1>7. /\ job'.acc \in Seq(Pages) /\ Len(job'.acc) = n
      /\ \A i \in 1..Len(ps) : job'.acc[i] = ps[i]
      /\ job'.acc[n] = p
  BY <1>1, <1>4, <1>5, AppendProperties
<1>8. ListTypes'
  BY <1>5, <1>6, <1>7 DEF ListInv, ListTypes
<1>9. ASSUME NEW i \in DOMAIN job'.acc PROVE job'.acc[i].no = i
  <2>1. DOMAIN job'.acc = 1..n
    BY <1>7, LenProperties
  <2>2. i \in 1..Len(ps) \/ i = n
    BY <1>2, <2>1
  <2> QED
    BY <1>1, <1>2, <1>4, <1>7, <2>2
<1>10. ASSUME ~removed
       PROVE  NewestFirst' /\ (\E m : ReadInOrder(pages, m)) /\ \E m : ReadInOrder(job'.acc, m)
  <2>1. PICK m : ReadInOrder(ps, m)
    BY <1>10 DEF ListInv
  <2>2. NewestFirst /\ ListTypes /\ \E k : ReadInOrder(pages, k)
    BY <1>10 DEF ListInv
  <2> DEFINE qs == job'.acc
             k == [i \in DOMAIN qs |-> IF i <= Len(ps) THEN m[i] ELSE made]
  <2>3. qs = Append(ps, PageAt(Len(ps) + 1))
    BY <1>5 DEF p
  <2> HIDE DEF qs
  <2>4. ReadInOrder(qs, k)
    BY <1>1, <2>1, <2>2, <2>3, PageAppended
  <2> HIDE DEF k
  <2> QED
    BY <1>5, <2>2, <2>4 DEF NewestFirst, qs
<1>11. \A f, m : ReadInOrder(f, m)' <=> ReadInOrder(f, m)
  BY <1>5 DEF ReadInOrder
<1> QED
  BY <1>5, <1>8, <1>9, <1>10, <1>11 DEF ListInv

\* What is read is shown.
LEMMA ArriveSafe == ListInv /\ PagesArrive => ListInv'
<1> SUFFICES ASSUME ListInv, PagesArrive PROVE ListInv'
  OBVIOUS
<1>1. /\ pages' = job.acc /\ job' = NoJob
      /\ UNCHANGED <<items, made, removed>>
  BY DEF PagesArrive, Merged
<1>2. ListTypes'
  <2>1. <<>> \in Seq(Pages)
    BY EmptySeq
  <2> QED
    BY <1>1, <2>1 DEF ListInv, ListTypes, NoJob
<1>3. ReadInOrder(<<>>, [i \in {} |-> 0])
  <2>1. ASSUME NEW m, m = [i \in {} |-> 0] PROVE ReadInOrder(<<>>, m)
    BY <2>1 DEF ReadInOrder
  <2> QED
    BY <2>1
<1>4. \A f, m : ReadInOrder(f, m)' <=> ReadInOrder(f, m)
  BY <1>1 DEF ReadInOrder
<1> QED
  BY <1>1, <1>2, <1>3, <1>4 DEF ListInv, NoJob, NewestFirst

\* Every step of the list keeps its invariant.
LEMMA ListStep == ListInv /\ (ListNext \/ UNCHANGED listVars) => ListInv'
<1> SUFFICES ASSUME ListInv, ListNext \/ UNCHANGED listVars PROVE ListInv'
  OBVIOUS
<1>1. CASE AddItem
  BY <1>1, AddSafe
<1>2. CASE \E i \in DOMAIN items : RemoveItem(i)
  BY <1>2, RemoveSafe
<1>3. CASE Refetch \/ LoadMore \/ PagesFail
  BY <1>3, RequestSafe
<1>4. CASE ReadPage
  BY <1>4, ReadSafe
<1>5. CASE PagesArrive
  BY <1>5, ArriveSafe
<1>6. CASE UNCHANGED listVars
  <2>1. UNCHANGED <<items, made, removed, pages, job>>
    BY <1>6 DEF listVars
  <2>2. ListTypes' /\ (NewestFirst => NewestFirst')
    BY <2>1 DEF ListInv, ListTypes, NewestFirst
  <2>3. \A f, m : ReadInOrder(f, m)' <=> ReadInOrder(f, m)
    BY <2>1 DEF ReadInOrder
  <2> QED
    BY <2>1, <2>2, <2>3 DEF ListInv
<1> QED
  BY <1>1, <1>2, <1>3, <1>4, <1>5, <1>6 DEF ListNext

\* Some page has item z.
OnPage(ps, z) == \E k \in DOMAIN ps : z \in Range(ps[k].ids)

\* Between an item of one page and an older one of a later page there is no gap: the page
\* that holds what lies between begins no later than the one before it ends.
LEMMA NoGap ==
    ASSUME NEW ps, NEW m, ReadInOrder(ps, m), DOMAIN ps \subseteq Nat \ {0}, made \in Nat,
           NEW i \in DOMAIN ps, NEW j \in DOMAIN ps, i <= j, i..j \subseteq DOMAIN ps,
           NEW y \in Range(ps[i].ids), NEW x \in Range(ps[j].ids), NEW z \in Nat, x < z, z < y
    PROVE  OnPage(ps, z)
<1> DEFINE Low(k) == m[k] - Before(k)
           S == {k \in i..j : Low(k) < z}
<1>1. \A k \in i..j : /\ k \in Nat \ {0} /\ k \in DOMAIN ps /\ Range(ps[k].ids) = Slice(m[k], k)
                      /\ m[k] \in Nat /\ Before(k) \in Nat
  BY NextPage DEF ReadInOrder
<1>2. i \in i..j /\ j \in i..j /\ i \in Nat /\ j \in Nat
  OBVIOUS
<1>3. x \in Slice(m[j], j) /\ y \in Slice(m[i], i)
  BY DEF ReadInOrder
<1>4. x \in Nat /\ Low(j) < x /\ y \in Nat /\ y <= m[i] - Before(i - 1) /\ y <= m[i]
  BY <1>3 DEF Slice
<1>5. j \in S
  BY <1>1, <1>2, <1>4
<1>6. S \subseteq Nat /\ S # {}
  BY <1>1, <1>5
<1> HIDE DEF S
<1>7. PICK k \in S : \A l \in S : k <= l
  BY <1>6, LeastElement
<1>8. k \in i..j /\ Low(k) < z
  BY <1>7 DEF S
<1>9. z <= m[k] - Before(k - 1)
  <2>1. CASE k = i
    BY <1>1, <1>2, <1>4, <2>1, NextPage
  <2>2. CASE k # i
    <3>1. k - 1 \in i..j /\ k - 1 < k /\ k \in Nat
      BY <1>2, <1>8, <2>2
    <3>2. ~(Low(k - 1) < z)
      BY <1>7, <3>1 DEF S
    <3>3. m[k - 1] <= m[k] /\ m[k - 1] \in Nat /\ m[k] \in Nat /\ Before(k - 1) \in Nat
      BY <1>1, <1>8, <3>1 DEF ReadInOrder
    <3> QED
      BY <3>2, <3>3
  <2> QED
    BY <2>1, <2>2
<1>10. m[k] \in Nat /\ Before(k - 1) \in Nat /\ Range(ps[k].ids) = Slice(m[k], k) /\ k \in DOMAIN ps
  BY <1>1, <1>8, NextPage
<1>11. z \in 1..m[k]
  BY <1>4, <1>9, <1>10
<1>12. z \in Slice(m[k], k)
  BY <1>8, <1>9, <1>11 DEF Slice
<1>13. z \in Range(ps[k].ids) /\ k \in DOMAIN ps
  BY <1>10, <1>12, ZenonT(30)
<1> QED
  BY <1>13, ZenonT(30) DEF OnPage

\* A list without deletions has no holes.
LEMMA ListHasNoHoles == ListInv => NoHoles
<1> SUFFICES ASSUME ListInv, ~removed,
                    NEW i \in DOMAIN pages, NEW j \in DOMAIN pages,
                    NEW y \in Range(pages[i].ids), NEW x \in Range(pages[j].ids), i <= j,
                    NEW z \in Range(items), x < z, z < y
             PROVE  OnPage(pages, z)
  BY ZenonT(30) DEF NoHoles, OnScreen, OnPage
<1>1. PICK m : ReadInOrder(pages, m)
  BY DEF ListInv
<1>2. Len(pages) \in Nat /\ DOMAIN pages = 1..Len(pages) /\ DOMAIN items = 1..Len(items)
  BY LenProperties DEF ListInv, ListTypes
<1>3. z \in Nat /\ made \in Nat
  <2>1. z \in Ids
    <3>1. PICK n \in DOMAIN items : z = items[n]
      BY DEF Range
    <3> QED
      BY <1>2, <3>1, ElementOfSeq DEF ListInv, ListTypes
  <2> QED
    BY <2>1, BrowsingBounds DEF Ids, ListInv, ListTypes
<1>4. DOMAIN pages \subseteq Nat \ {0} /\ i..j \subseteq DOMAIN pages
  BY <1>2
<1> QED
  BY <1>1, <1>3, <1>4, NoGap, ZenonT(30)

-----------------------------------------------------------------------------
(* The explore page.                                                        *)

ExploreTypes ==
    /\ filters \in Filters /\ url \in Filters /\ navs \in Seq(Filters)
    /\ box \in Words /\ typed \in Words \cup {None} /\ here \in BOOLEAN

\* The store shows what an address says.
AgreesWith(u) == /\ u.q = filters.q /\ u.tags = filters.tags
                 /\ u.year # 0 => u.year = filters.year

ExploreInv ==
    /\ ExploreTypes
    /\ here => /\ AgreesWith(url) \/ (navs # <<>> /\ AgreesWith(navs[Len(navs)]))
               /\ box = filters.q \/ (typed # None /\ box = typed)
    /\ ~here => typed = None /\ navs = <<>>

\* No text of the box is the mark of a timer that is off.
LEMMA TypedWords == None \notin Words
BY DEF Words, None, Blank

\* The page starts from empty filters and the address without any.
LEMMA ExploreStarts == BrowsingInit => ExploreInv
<1> SUFFICES ASSUME BrowsingInit PROVE ExploreInv
  OBVIOUS
<1>1. NoFilters \in Filters /\ Blank \in Words
  BY DEF NoFilters, Filters, Words, Years
<1>2. /\ filters = NoFilters /\ url = NoFilters /\ navs = <<>>
      /\ box = Blank /\ typed = None /\ here = FALSE
  BY DEF BrowsingInit
<1>3. navs \in Seq(Filters)
  BY <1>2, EmptySeq
<1>4. ExploreTypes
  BY <1>1, <1>2, <1>3 DEF ExploreTypes
<1> QED
  BY <1>2, <1>4 DEF ExploreInv

\* A pushed address is the last one, and agrees with the store it was made of.
LEMMA PushFits ==
    ASSUME ExploreTypes, NEW f \in Filters, Push(f)
    PROVE  navs' \in Seq(Filters) /\ navs' # <<>> /\ navs'[Len(navs')] = f
<1>1. navs \in Seq(Filters) /\ navs' = Append(navs, f)
  BY DEF ExploreTypes, Push
<1>2. Len(navs') = Len(navs) + 1 /\ navs'[Len(navs) + 1] = f /\ navs' # <<>>
  BY <1>1, AppendProperties
<1> QED
  BY <1>1, <1>2, AppendProperties

\* The user changes the store, which goes to the address and to the box.
LEMMA ChangeSafe ==
    ASSUME ExploreInv, NEW f \in Filters, Change(f),
           \/ UNCHANGED typed
           \/ typed' = None /\ ((f.q = typed /\ typed # None) \/ f.q = box)
    PROVE  ExploreInv'
<1>1. /\ here /\ here' /\ filters' = f /\ UNCHANGED url
      /\ box' = IF f.q # filters.q THEN f.q ELSE box
      /\ Push(f)
  BY DEF Change, SetFilters
<1>2. navs' \in Seq(Filters) /\ navs' # <<>> /\ navs'[Len(navs')] = f
  BY <1>1, PushFits DEF ExploreInv
<1>3. f.q \in Words
  BY DEF Filters
<1>4. ExploreTypes'
  BY <1>1, <1>2, <1>3 DEF ExploreInv, ExploreTypes
<1>5. AgreesWith(navs[Len(navs)])'
  BY <1>1, <1>2 DEF AgreesWith
<1>6. box = filters.q \/ (typed # None /\ box = typed)
  BY <1>1 DEF ExploreInv
<1>7. (box = filters.q \/ (typed # None /\ box = typed))'
  BY <1>1, <1>6
<1> QED
  BY <1>1, <1>2, <1>4, <1>5, <1>7 DEF ExploreInv

\* Tags, dates, and the buttons that clear or search at once.
LEMMA PicksSafe ==
    ASSUME ExploreInv,
           \/ \E t \in Tags : ToggleTag(t)
           \/ \E y \in Years : PickDate(y)
           \/ ClearAll \/ FireSearch \/ PressEnter
    PROVE  ExploreInv'
<1>1. filters \in Filters /\ box \in Words /\ typed \in Words \cup {None}
  BY DEF ExploreInv, ExploreTypes
<1>2. ASSUME NEW t \in Tags, ToggleTag(t) PROVE ExploreInv'
  <2> DEFINE f == [filters EXCEPT !.tags = (@ \cup {t}) \ (@ \cap {t})]
  <2>1. f \in Filters /\ f.q = filters.q
    BY <1>1 DEF Filters
  <2>2. Change(f) /\ UNCHANGED typed
    BY <1>2 DEF ToggleTag
  <2> HIDE DEF f
  <2> QED
    BY <2>1, <2>2, ChangeSafe
<1>3. ASSUME NEW y \in Years, PickDate(y) PROVE ExploreInv'
  <2> DEFINE f == [filters EXCEPT !.year = y]
  <2>1. f \in Filters /\ f.q = filters.q
    BY <1>1 DEF Filters
  <2>2. Change(f) /\ UNCHANGED typed
    BY <1>3 DEF PickDate
  <2> HIDE DEF f
  <2> QED
    BY <2>1, <2>2, ChangeSafe
<1>4. CASE ClearAll
  <2>1. NoFilters \in Filters
    BY DEF NoFilters, Filters, Words, Years
  <2> QED
    BY <1>4, <2>1, ChangeSafe DEF ClearAll
<1>5. CASE FireSearch
  <2> DEFINE f == [filters EXCEPT !.q = typed]
  <2>1. f \in Filters /\ f.q = typed /\ typed # None
    BY <1>1, <1>5 DEF Filters, FireSearch
  <2>2. Change(f) /\ typed' = None
    BY <1>5 DEF FireSearch
  <2> HIDE DEF f
  <2> QED
    BY <2>1, <2>2, ChangeSafe
<1>6. CASE PressEnter
  <2> DEFINE f == [filters EXCEPT !.q = box]
  <2>1. f \in Filters /\ f.q = box
    BY <1>1 DEF Filters
  <2>2. Change(f) /\ typed' = None
    BY <1>6 DEF PressEnter
  <2> HIDE DEF f
  <2> QED
    BY <2>1, <2>2, ChangeSafe
<1> QED
  BY <1>2, <1>3, <1>4, <1>5, <1>6

\* The search box.
LEMMA BoxSafe ==
    ASSUME ExploreInv, (\E w \in Words : TypeSearch(w)) \/ ClearSearch
    PROVE  ExploreInv'
<1>1. ASSUME NEW w \in Words, TypeSearch(w) PROVE ExploreInv'
  <2>1. /\ here /\ here' /\ box' = w /\ typed' = w
        /\ UNCHANGED <<filters, url, navs>>
    BY <1>1 DEF TypeSearch
  <2>2. ExploreTypes'
    BY <2>1 DEF ExploreInv, ExploreTypes
  <2>3. typed' # None
    BY <2>1, TypedWords
  <2> QED
    BY <2>1, <2>2, <2>3 DEF ExploreInv, AgreesWith
<1>2. CASE ClearSearch
  <2> DEFINE f == [filters EXCEPT !.q = Blank]
  <2>1. f \in Filters /\ f.q = Blank /\ Blank \in Words
    BY DEF Filters, Words, ExploreInv, ExploreTypes
  <2>2. /\ here /\ here' /\ filters' = f /\ box' = Blank /\ UNCHANGED <<url, typed>>
        /\ Push(f)
    BY <1>2 DEF ClearSearch, Push
  <2> HIDE DEF f
  <2>3. navs' \in Seq(Filters) /\ navs' # <<>> /\ navs'[Len(navs')] = f
    BY <2>1, <2>2, PushFits DEF ExploreInv
  <2>4. ExploreTypes'
    BY <2>1, <2>2, <2>3 DEF ExploreInv, ExploreTypes
  <2> QED
    BY <2>1, <2>2, <2>3, <2>4 DEF ExploreInv, AgreesWith
<1> QED
  BY <1>1, <1>2

\* An address without a year leaves the year of the store as it is.
LEMMA SyncedFits ==
    ASSUME ExploreTypes, NEW u \in Filters, filters' = Synced(u)
    PROVE  filters' \in Filters /\ AgreesWith(u)' /\ filters'.q = u.q
<1>1. filters' \in Filters
  BY DEF ExploreTypes, Filters, Synced
<1> QED
  BY <1>1 DEF Synced, AgreesWith

\* The address that is there now, whether the store was taken to it or agreed with it.
LEMMA NowThere ==
    ASSUME ExploreInv, NEW u \in Filters, here, here', url' = u, UNCHANGED typed,
           navs' \in Seq(Filters),
           IF u = url THEN UNCHANGED <<filters, box>> ELSE SetFilters(Synced(u)),
           u = url => \/ AgreesWith(u)
                      \/ navs' # <<>> /\ AgreesWith(navs'[Len(navs')])
    PROVE  ExploreInv'
<1>1. box = filters.q \/ (typed # None /\ box = typed)
  BY DEF ExploreInv
<1>2. CASE u = url
  <2>1. UNCHANGED <<filters, box>>
    BY <1>2
  <2>2. ExploreTypes'
    BY <2>1 DEF ExploreInv, ExploreTypes
  <2> QED
    BY <1>1, <1>2, <2>1, <2>2 DEF ExploreInv, AgreesWith
<1>3. CASE u # url
  <2>1. filters' = Synced(u) /\ box' = IF filters'.q # filters.q THEN filters'.q ELSE box
    BY <1>3 DEF SetFilters
  <2>2. filters' \in Filters /\ AgreesWith(u)' /\ filters'.q = u.q /\ u.q \in Words
    BY <2>1, SyncedFits DEF ExploreInv, Filters
  <2>3. ExploreTypes'
    BY <2>1, <2>2 DEF ExploreInv, ExploreTypes
  <2>4. (box = filters.q \/ (typed # None /\ box = typed))'
    BY <1>1, <2>1
  <2> QED
    BY <2>2, <2>3, <2>4 DEF ExploreInv, AgreesWith
<1> QED
  BY <1>2, <1>3

\* A pushed address arrives.
LEMMA AddressSafe ==
    ASSUME ExploreInv, NEW n \in DOMAIN navs, Arrive(n)
    PROVE  ExploreInv'
<1> DEFINE u == navs[n]
<1>1. navs \in Seq(Filters) /\ Len(navs) \in Nat /\ DOMAIN navs = 1..Len(navs)
  BY LenProperties DEF ExploreInv, ExploreTypes
<1>2. u \in Filters /\ n \in Nat /\ 1 <= n /\ n <= Len(navs)
  BY <1>1, ElementOfSeq
<1>3. /\ here /\ here' /\ url' = u /\ UNCHANGED typed
      /\ navs' = SubSeq(navs, n + 1, Len(navs))
      /\ IF u = url THEN UNCHANGED <<filters, box>> ELSE SetFilters(Synced(u))
  BY DEF Arrive
<1>4. \A i \in (n + 1)..Len(navs) : navs[i] \in Filters
  <2>1. \A i \in (n + 1)..Len(navs) : i \in 1..Len(navs)
    BY <1>1, <1>2
  <2> QED
    BY <1>1, <2>1, ElementOfSeq
<1>5. /\ navs' \in Seq(Filters)
      /\ Len(navs') = IF n + 1 <= Len(navs) THEN Len(navs) - (n + 1) + 1 ELSE 0
      /\ \A i \in 1..(Len(navs) - (n + 1) + 1) : navs'[i] = navs[(n + 1) + i - 1]
  <2>1. n + 1 \in Int /\ Len(navs) \in Int
    BY <1>1, <1>2
  <2> QED
    BY <1>3, <1>4, <2>1, SubSeqProperties, SMTT(30)
<1>6. ASSUME n # Len(navs) PROVE navs' # <<>> /\ navs'[Len(navs')] = navs[Len(navs)]
  <2>3. Len(navs') = IF n + 1 <= Len(navs) THEN Len(navs) - (n + 1) + 1 ELSE 0
    BY <1>5
  <2>1. Len(navs') = Len(navs) - n /\ Len(navs') \in 1..(Len(navs) - (n + 1) + 1)
        /\ (n + 1) + Len(navs') - 1 = Len(navs)
    BY <1>1, <1>2, <1>6, <2>3
  <2>2. navs' # <<>>
    BY <2>1, EmptySeq
  <2> QED
    BY <1>5, <2>1, <2>2
<1>7. u = url => \/ AgreesWith(u)
                 \/ navs' # <<>> /\ AgreesWith(navs'[Len(navs')])
  <2>1. AgreesWith(url) \/ (navs # <<>> /\ AgreesWith(navs[Len(navs)]))
    BY <1>3 DEF ExploreInv
  <2> QED
    BY <1>6, <2>1
<1> HIDE DEF u
<1> QED
  BY <1>2, <1>3, <1>5, <1>7, NowThere

\* Links to the page, the browser's Back, and leaving.
LEMMA MovesSafe ==
    ASSUME ExploreInv, Leave \/ \E u \in Links : Visit(u) \/ Back(u)
    PROVE  ExploreInv'
<1>1. CASE Leave
  <2>1. <<>> \in Seq(Filters)
    BY EmptySeq
  <2> QED
    BY <1>1, <2>1 DEF Leave, ExploreInv, ExploreTypes
<1>2. ASSUME NEW u \in Links, Visit(u) \/ Back(u) PROVE ExploreInv'
  <2>1. u \in Filters
    BY DEF Links, NoFilters, Filters, Words, Years, Tags
  <2>2. CASE Visit(u)
    <3>1. /\ ~here /\ here' /\ url' = u /\ filters' = Synced(u) /\ box' = u.q
          /\ UNCHANGED <<navs, typed>>
      BY <2>2 DEF Visit
    <3>2. filters' \in Filters /\ AgreesWith(u)' /\ filters'.q = u.q /\ u.q \in Words
      BY <2>1, <3>1, SyncedFits DEF ExploreInv, Filters
    <3>3. ExploreTypes'
      BY <2>1, <3>1, <3>2 DEF ExploreInv, ExploreTypes
    <3> QED
      BY <3>1, <3>2, <3>3 DEF ExploreInv, AgreesWith
  <2>3. CASE Back(u)
    <3>1. /\ here /\ here' /\ url' = u /\ navs = <<>> /\ UNCHANGED <<navs, typed>>
          /\ IF u = url THEN UNCHANGED <<filters, box>> ELSE SetFilters(Synced(u))
      BY <2>3 DEF Back
    <3>2. AgreesWith(url) /\ navs' \in Seq(Filters)
      BY <3>1 DEF ExploreInv, ExploreTypes
    <3> QED
      BY <2>1, <3>1, <3>2, NowThere
  <2> QED
    BY <1>2, <2>2, <2>3
<1> QED
  BY <1>1, <1>2

\* Every step of the explore page keeps its invariant.
LEMMA ExploreStep == ExploreInv /\ (ExploreNext \/ UNCHANGED exploreVars) => ExploreInv'
<1> SUFFICES ASSUME ExploreInv, ExploreNext \/ UNCHANGED exploreVars PROVE ExploreInv'
  OBVIOUS
<1>1. CASE UNCHANGED exploreVars
  BY <1>1 DEF exploreVars, ExploreInv, ExploreTypes, AgreesWith
<1>2. ASSUME NEW n \in 1..MaxVisits, Arrive(n) PROVE ExploreInv'
  BY <1>2, AddressSafe DEF Arrive
<1> QED
  BY <1>1, <1>2, PicksSafe, BoxSafe, MovesSafe DEF ExploreNext

\* When nothing is pending the store agrees with the address.
LEMMA SettledAgree == ExploreInv => FiltersAgree
BY DEF ExploreInv, FiltersAgree, Settled, AgreesWith

-----------------------------------------------------------------------------
(* Notifications.                                                           *)

NoteTypes ==
    /\ notes \in [Notes -> {"none", "unread", "read"}]
    /\ badge \in 0..MaxNotes /\ shown \subseteq Notes
    /\ countJob \in 0..Asked /\ listJob \in [at : {"idle", "asked", "read"}, read : SUBSET Notes]
    /\ puts \subseteq Notes \X {"sent", "done"}
    /\ visible \in BOOLEAN

\* The badge and the list start with a question to the server.
LEMMA NotesStart == BrowsingInit => NoteTypes
<1> SUFFICES ASSUME BrowsingInit PROVE NoteTypes
  OBVIOUS
<1>1. Asked \in 0..Asked /\ 0 \in 0..MaxNotes
  BY BrowsingBounds DEF Asked
<1> QED
  BY <1>1 DEF BrowsingInit, NoteTypes

\* The numbers of the model.
LEMMA NoteNumbers ==
    /\ MaxNotes \in Nat /\ Idle \in 0..Asked /\ Asked \in 0..Asked
    /\ 0..MaxNotes \subseteq 0..Asked
    /\ Idle \in Nat /\ Asked \in Nat /\ Idle > MaxNotes /\ Asked > MaxNotes
BY BrowsingBounds DEF Idle, Asked

\* There are no more unread notifications than notifications.
LEMMA UnreadFits == Cardinality(Unread) \in 0..MaxNotes
<1>1. IsFiniteSet(1..MaxNotes) /\ Cardinality(1..MaxNotes) = MaxNotes
  <2>1. 1 \in Int /\ MaxNotes \in Int
    BY BrowsingBounds
  <2>2. Cardinality(1..MaxNotes) = IF 1 > MaxNotes THEN 0 ELSE MaxNotes - 1 + 1
    BY <2>1, FS_Interval
  <2> QED
    BY <2>1, <2>2, FS_Interval, BrowsingBounds
<1>2. Unread \subseteq 1..MaxNotes
  BY DEF Unread, Notes
<1>3. IsFiniteSet(Unread) /\ Cardinality(Unread) <= Cardinality(1..MaxNotes)
  BY <1>1, <1>2, FS_Subset
<1>4. Cardinality(Unread) \in Nat
  BY <1>3, FS_CardinalityType
<1> QED
  BY <1>1, <1>3, <1>4, BrowsingBounds

\* The queries and marks of the bell keep to their types.
LEMMA NotesStep == NoteTypes /\ (NoteNext \/ UNCHANGED noteVars) => NoteTypes'
<1> SUFFICES ASSUME NoteTypes, NoteNext \/ UNCHANGED noteVars PROVE NoteTypes'
  OBVIOUS
<1>1. CASE UNCHANGED noteVars
  BY <1>1 DEF noteVars, NoteTypes
<1>2. ASSUME NEW n \in Notes, Notify(n) \/ MarkRead(n) \/ StoreMark(n) \/ Marked(n)
      PROVE  NoteTypes'
  <2>1. CASE Notify(n)
    BY <2>1 DEF Notify, NoteTypes
  <2>2. CASE MarkRead(n)
    BY <2>2 DEF MarkRead, NoteTypes
  <2>3. CASE StoreMark(n)
    BY <2>3 DEF StoreMark, NoteTypes
  <2>4. CASE Marked(n)
    BY <2>4, NoteNumbers DEF Marked, AskAgain, AskList, NoteTypes
  <2> QED
    BY <1>2, <2>1, <2>2, <2>3, <2>4
<1>3. CASE PollCount \/ PollList \/ ReadCount \/ CountArrives
  <2>1. CASE PollCount
    BY <2>1, NoteNumbers DEF PollCount, NoteTypes
  <2>2. CASE PollList
    BY <2>2 DEF PollList, AskList, NoteTypes
  <2>3. CASE ReadCount
    <3>1. countJob' \in 0..Asked
      BY <2>3, UnreadFits, NoteNumbers DEF ReadCount
    <3> QED
      BY <2>3, <3>1 DEF ReadCount, NoteTypes
  <2>4. CASE CountArrives
    <3>1. badge' \in 0..MaxNotes
      BY <2>4, NoteNumbers DEF CountArrives, NoteTypes
    <3> QED
      BY <2>4, <3>1, NoteNumbers DEF CountArrives, NoteTypes
  <2> QED
    BY <1>3, <2>1, <2>2, <2>3, <2>4
<1>4. CASE ReadList \/ ListArrives
  BY <1>4 DEF ReadList, ListArrives, ReadOnes, NoteTypes
<1>5. CASE PollFails
  BY <1>5, NoteNumbers DEF PollFails, NoteTypes
<1>6. CASE MarkAll
  <2>1. puts' \subseteq Notes \X {"sent", "done"}
    BY <1>6 DEF MarkAll, Unread, NoteTypes
  <2> QED
    BY <1>6, <2>1 DEF MarkAll, NoteTypes
<1>7. CASE HideTab
  BY <1>7 DEF HideTab, NoteTypes
<1> QED
  BY <1>1, <1>2, <1>3, <1>4, <1>5, <1>6, <1>7 DEF NoteNext

-----------------------------------------------------------------------------
(* The page of a diary.                                                     *)

PageTypes ==
    /\ diary \in Diaries /\ owner \in BOOLEAN /\ lostKey \in BOOLEAN
    /\ query \in {"loading", "failed", "data", "error"} /\ copy \in Diaries /\ asking \in BOOLEAN
    /\ key \in BOOLEAN /\ cached \in BOOLEAN /\ prompt \in BOOLEAN
    /\ passwords \subseteq {"right", "wrong"}
    /\ decrypting \subseteq 1..MaxVersions /\ plain \in 0..MaxVersions /\ broken \in BOOLEAN

\* WayForward, also while an error hides the diary.
WayKept ==
    owner /\ copy.private /\ Held(query) /\ plain = 0 /\ ~broken => prompt \/ decrypting # {}

PageInv == PageTypes /\ WayKept

\* The page is opened while its query asks.
LEMMA PageStarts == ReadingInit => PageInv
<1> SUFFICES ASSUME ReadingInit PROVE PageInv
  OBVIOUS
<1>1. 0 \in 0..MaxVersions
  BY ReadingBounds
<1>2. PageTypes
  BY <1>1 DEF ReadingInit, PageTypes
<1> QED
  BY <1>2 DEF ReadingInit, PageInv, WayKept, Held

\* The effect opens a way to the text, whatever changed.
LEMMA WatchOpens ==
    ASSUME PageTypes, NEW d \in Diaries, NEW k \in BOOLEAN, NEW q, Watch(q, d, k),
           UNCHANGED <<owner, plain, broken>>, copy' = d, query' = q
    PROVE  WayKept' /\ prompt' \in BOOLEAN /\ decrypting' \subseteq 1..MaxVersions
<1>1. d.ver \in 1..MaxVersions
  BY DEF Diaries
<1>2. CASE Held(q) /\ d.private /\ owner /\ plain = 0 /\ ~broken
  BY <1>1, <1>2 DEF Watch, WayKept, PageTypes
<1>3. CASE ~(Held(q) /\ d.private /\ owner /\ plain = 0 /\ ~broken)
  BY <1>3 DEF Watch, WayKept, PageTypes
<1> QED
  BY <1>2, <1>3

\* The query of the diary.
LEMMA DiarySafe ==
    ASSUME PageInv, DiaryLoads \/ DiaryFails \/ AskDiary \/ EditElsewhere
    PROVE  PageInv'
<1>1. CASE DiaryLoads
  <2>1. /\ query' = "data" /\ copy' = diary /\ asking' = FALSE /\ diary \in Diaries
        /\ UNCHANGED <<diary, owner, lostKey, key, cached, passwords, plain, broken>>
    BY <1>1 DEF DiaryLoads, diaryVars, PageInv, PageTypes
  <2>2. CASE Held(query) /\ diary = copy
    <3>1. UNCHANGED <<prompt, decrypting>>
      BY <1>1, <2>2 DEF DiaryLoads
    <3> QED
      BY <2>1, <2>2, <3>1 DEF PageInv, PageTypes, WayKept
  <2>3. CASE ~(Held(query) /\ diary = copy)
    <3>1. Watch("data", diary, key) /\ key \in BOOLEAN
      BY <1>1, <2>3 DEF DiaryLoads, PageInv, PageTypes
    <3>2. WayKept' /\ prompt' \in BOOLEAN /\ decrypting' \subseteq 1..MaxVersions
      BY <2>1, <3>1, WatchOpens DEF PageInv
    <3> QED
      BY <2>1, <3>2 DEF PageInv, PageTypes
  <2> QED
    BY <2>2, <2>3
<1>2. CASE DiaryFails
  BY <1>2 DEF DiaryFails, diaryVars, Held, PageInv, PageTypes, WayKept
<1>3. CASE AskDiary
  BY <1>3 DEF AskDiary, diaryVars, Held, PageInv, PageTypes, WayKept
<1>4. CASE EditElsewhere
  <2>1. diary' \in Diaries
    BY <1>4, ReadingBounds DEF EditElsewhere, PageInv, PageTypes, Diaries
  <2> QED
    BY <1>4, <2>1 DEF EditElsewhere, PageInv, PageTypes, WayKept
<1> QED
  BY <1>1, <1>2, <1>3, <1>4

\* The key comes, from the password or from the cache.
LEMMA KeySafe ==
    ASSUME PageInv, KeyLoads \/ KeyFromCache
    PROVE  PageInv'
<1>1. ASSUME KeyHeld, cached' \in BOOLEAN, passwords' \subseteq {"right", "wrong"} PROVE PageInv'
  <2>1. /\ Watch(query, copy, TRUE) /\ key' = TRUE
        /\ UNCHANGED <<diary, owner, lostKey, query, copy, asking, plain, broken>>
    BY <1>1 DEF KeyHeld, diaryVars
  <2>2. copy \in Diaries
    BY DEF PageInv, PageTypes
  <2>3. WayKept' /\ prompt' \in BOOLEAN /\ decrypting' \subseteq 1..MaxVersions
    BY <2>1, <2>2, WatchOpens DEF PageInv
  <2> QED
    BY <1>1, <2>1, <2>3 DEF PageInv, PageTypes
<1>2. CASE KeyLoads /\ key
  BY <1>2 DEF KeyLoads, diaryVars, PageInv, PageTypes, WayKept
<1>3. CASE KeyLoads /\ ~key
  <2>1. KeyHeld /\ cached' \in BOOLEAN /\ passwords' \subseteq {"right", "wrong"}
    BY <1>3 DEF KeyLoads, PageInv, PageTypes
  <2> QED
    BY <1>1, <2>1
<1>4. CASE KeyFromCache
  BY <1>1, <1>4 DEF KeyFromCache, PageInv, PageTypes
<1> QED
  BY <1>2, <1>3, <1>4 DEF PageInv, PageTypes

\* Passwords are tried, texts are decrypted, and the page is opened again.
LEMMA TextSafe ==
    ASSUME PageInv,
           \/ \E pw \in {"right", "wrong"} : TryPassword(pw)
           \/ KeyRefused
           \/ \E v \in 1..MaxVersions : Decrypted(v)
           \/ Reopen
    PROVE  PageInv'
<1>1. ASSUME NEW pw \in {"right", "wrong"}, TryPassword(pw) PROVE PageInv'
  BY <1>1 DEF TryPassword, KeepDialog, diaryVars, PageInv, PageTypes, WayKept
<1>2. CASE KeyRefused
  BY <1>2 DEF KeyRefused, diaryVars, PageInv, PageTypes, WayKept
<1>3. ASSUME NEW v \in 1..MaxVersions, Decrypted(v) PROVE PageInv'
  <2>1. v # 0 /\ v \in 0..MaxVersions /\ decrypting' \subseteq 1..MaxVersions
    BY <1>3 DEF Decrypted, PageInv, PageTypes
  <2> QED
    BY <1>3, <2>1 DEF Decrypted, diaryVars, PageInv, PageTypes, WayKept
<1>4. CASE Reopen
  <2>1. 0 \in 0..MaxVersions /\ copy.private \in BOOLEAN
    BY ReadingBounds DEF PageInv, PageTypes, Diaries
  <2> QED
    BY <1>4, <2>1 DEF Reopen, diaryVars, PageInv, PageTypes, WayKept
<1> QED
  BY <1>1, <1>2, <1>3, <1>4

\* Every step of the page keeps its invariant.
LEMMA PageStep == PageInv /\ (PageNext \/ UNCHANGED pageVars) => PageInv'
<1> SUFFICES ASSUME PageInv, PageNext \/ UNCHANGED pageVars PROVE PageInv'
  OBVIOUS
<1>1. CASE UNCHANGED pageVars
  BY <1>1 DEF pageVars, PageInv, PageTypes, WayKept
<1> QED
  BY <1>1, DiarySafe, KeySafe, TextSafe DEF PageNext

\* The dialog is open if nothing else leads to the text.
LEMMA WayIsForward == PageInv => WayForward
BY DEF PageInv, WayKept, WayForward, Held

-----------------------------------------------------------------------------
(* An optimistic button.                                                    *)

ButtonTypes ==
    /\ kind \in Buttons /\ on \in BOOLEAN /\ lit \in BOOLEAN
    /\ clicks \in Seq(Click) /\ seen \in BOOLEAN /\ spoiled \in BOOLEAN

\* Clicks that the button shows and the server has not done.
Ahead == {i \in DOMAIN clicks : clicks[i].at \in {"sent", "failed"}}

\* A has an even number of elements if b is true, and an odd number otherwise.
EvenIff(A, b) == \E k \in Nat : Cardinality(A) = IF b THEN 2 * k ELSE 2 * k + 1

\* The button and the server agree exactly if an even number of them is ahead; the
\* latest click goes back to what was shown before it.
ButtonInv ==
    /\ ButtonTypes
    /\ ~spoiled =>
        /\ EvenIff(Ahead, lit = on)
        /\ clicks # <<>> /\ clicks[Len(clicks)].at # "over" => lit = ~clicks[Len(clicks)].was

\* One element more or less makes an odd number of an even one.
LEMMA OddAndEven ==
    ASSUME NEW A, IsFiniteSet(A), NEW x, NEW b \in BOOLEAN, EvenIff(A, b)
    PROVE  /\ x \notin A => EvenIff(A \cup {x}, ~b)
           /\ x \in A => EvenIff(A \ {x}, ~b)
<1>1. PICK k \in Nat : Cardinality(A) = IF b THEN 2 * k ELSE 2 * k + 1
  BY DEF EvenIff
<1>2. Cardinality(A) \in Nat
  BY FS_CardinalityType
<1>3. ASSUME x \notin A PROVE EvenIff(A \cup {x}, ~b)
  <2>1. Cardinality(A \cup {x}) = Cardinality(A) + 1
    BY <1>3, FS_AddElement
  <2> DEFINE n == Cardinality(A)
             n1 == Cardinality(A \cup {x})
  <2>4. n1 = n + 1 /\ n \in Nat
    BY <1>2, <2>1
  <2>5. n = IF b THEN 2 * k ELSE 2 * k + 1
    BY <1>1
  <2> HIDE DEF n, n1
  <2>2. n1 = n + 1 /\ n \in Nat /\ n = IF b THEN 2 * k ELSE 2 * k + 1
    BY <2>4, <2>5
  <2>3. n1 = IF ~b THEN 2 * (k + 1) ELSE 2 * k + 1
    BY <2>2
  <2>6. k + 1 \in Nat /\ k \in Nat
    OBVIOUS
  <2>7. \E l \in Nat : n1 = IF ~b THEN 2 * l ELSE 2 * l + 1
    <3>1. CASE b
      BY <2>3, <3>1
    <3>2. CASE ~b
      BY <2>3, <2>6, <3>2
    <3> QED
      BY <3>1, <3>2
  <2> QED
    BY <2>7 DEF EvenIff, n1
<1>4. ASSUME x \in A PROVE EvenIff(A \ {x}, ~b)
  <2>1. Cardinality(A \ {x}) = Cardinality(A) - 1
    BY <1>4, FS_RemoveElement
  <2>2. Cardinality(A \ {x}) \in Nat
    BY <1>4, FS_RemoveElement, FS_CardinalityType
  <2> DEFINE n == Cardinality(A)
             n1 == Cardinality(A \ {x})
  <2>3. n1 = n - 1 /\ n \in Nat /\ n1 \in Nat /\ n = IF b THEN 2 * k ELSE 2 * k + 1
    BY <1>1, <1>2, <2>1, <2>2
  <2> HIDE DEF n, n1
  <2>4. n1 = IF ~b THEN 2 * k ELSE 2 * (k - 1) + 1
    BY <2>3
  <2>5. b => k - 1 \in Nat
    BY <2>3
  <2> QED
    BY <2>4, <2>5 DEF EvenIff, n1
<1> QED
  BY <1>3, <1>4

\* The clicks that are ahead are some of the clicks.
LEMMA AheadFits ==
    ASSUME ButtonTypes
    PROVE  /\ IsFiniteSet(Ahead) /\ DOMAIN clicks = 1..Len(clicks) /\ Len(clicks) \in Nat
           /\ \A i \in DOMAIN clicks : clicks[i] \in Click
<1>1. DOMAIN clicks = 1..Len(clicks) /\ Len(clicks) \in Nat
  BY LenProperties DEF ButtonTypes
<1>2. IsFiniteSet(1..Len(clicks))
  BY <1>1, FS_Interval
<1>3. Ahead \subseteq 1..Len(clicks)
  BY <1>1 DEF Ahead
<1>4. \A i \in DOMAIN clicks : clicks[i] \in Click
  BY <1>1, ElementOfSeq DEF ButtonTypes
<1> QED
  BY <1>1, <1>2, <1>3, <1>4, FS_Subset

\* Nobody has clicked yet.
LEMMA ButtonStarts == ReadingInit => ButtonInv
<1> SUFFICES ASSUME ReadingInit PROVE ButtonInv
  OBVIOUS
<1>1. clicks = <<>> /\ on = FALSE /\ lit = FALSE
  BY DEF ReadingInit
<1>2. ButtonTypes
  BY <1>1, EmptySeq DEF ReadingInit, ButtonTypes
<1>3. Ahead = {}
  BY <1>1 DEF Ahead
<1>4. Cardinality(Ahead) = 2 * 0
  BY <1>3, FS_EmptySet
<1> QED
  BY <1>1, <1>2, <1>4 DEF ButtonInv, EvenIff

\* A click is ahead of the server, and has turned the button.
LEMMA ToggleSafe ==
    ASSUME ButtonInv, NEW k \in Buttons, Toggle(k)
    PROVE  ButtonInv'
<1> DEFINE c == [was |-> lit, at |-> "sent"]
           n == Len(clicks) + 1
<1>1. ButtonTypes /\ lit \in BOOLEAN /\ on \in BOOLEAN /\ clicks \in Seq(Click)
  BY DEF ButtonInv, ButtonTypes
<1>2. c \in Click /\ c.at = "sent" /\ c.was = lit
  BY <1>1 DEF Click
<1>3. clicks' = Append(clicks, c) /\ lit' = ~lit /\ UNCHANGED <<kind, on, seen, spoiled>>
  BY DEF Toggle
<1> HIDE DEF c
<1>4. /\ clicks' \in Seq(Click) /\ clicks' # <<>> /\ Len(clicks') = n
      /\ \A i \in 1..Len(clicks) : clicks'[i] = clicks[i]
      /\ clicks'[n] = c
  BY <1>1, <1>2, <1>3, AppendProperties
<1>5. ButtonTypes'
  BY <1>1, <1>3, <1>4 DEF ButtonTypes
<1>6. DOMAIN clicks = 1..Len(clicks) /\ Len(clicks) \in Nat /\ DOMAIN clicks' = 1..n
  BY <1>1, <1>4, LenProperties
<1>7. Ahead' = Ahead \cup {n} /\ n \notin Ahead
  <2>1. 1..n = 1..Len(clicks) \cup {n} /\ n \notin 1..Len(clicks)
    BY <1>6
  <2> HIDE DEF n
  <2> QED
    BY <1>2, <1>4, <1>6, <2>1 DEF Ahead
<1>8. ASSUME ~spoiled PROVE EvenIff(Ahead', ~(lit = on))
  <2>1. EvenIff(Ahead, lit = on) /\ IsFiniteSet(Ahead)
    BY <1>1, <1>8, AheadFits DEF ButtonInv
  <2>2. (lit = on) \in BOOLEAN
    OBVIOUS
  <2> QED
    BY <1>7, <2>1, <2>2, OddAndEven
<1>9. ~spoiled' => EvenIff(Ahead', lit' = on')
  <2>1. (lit' = on') = ~(lit = on)
    BY <1>1, <1>3
  <2> QED
    BY <1>3, <1>8, <2>1
<1>10. lit' = ~clicks'[Len(clicks')].was
  BY <1>2, <1>3, <1>4
<1>11. EvenIff(Ahead, lit = on)' <=> EvenIff(Ahead', lit' = on')
  BY DEF EvenIff
<1> QED
  BY <1>5, <1>9, <1>10, <1>11 DEF ButtonInv

\* Click i has gone to another stage.
LEMMA StagedFits ==
    ASSUME ButtonTypes, NEW i \in DOMAIN clicks, NEW s \in {"sent", "served", "failed", "over"},
           clicks' = [clicks EXCEPT ![i].at = s]
    PROVE  /\ clicks' \in Seq(Click) /\ Len(clicks') = Len(clicks)
           /\ DOMAIN clicks' = DOMAIN clicks
           /\ clicks'[i].at = s /\ clicks'[i].was = clicks[i].was
           /\ \A j \in DOMAIN clicks : j # i => clicks'[j] = clicks[j]
<1>1. DOMAIN clicks = 1..Len(clicks) /\ clicks[i] \in Click /\ clicks \in Seq(Click)
  BY AheadFits DEF ButtonTypes
<1> DEFINE c == [clicks[i] EXCEPT !.at = s]
<1>2. c \in Click /\ c.at = s /\ c.was = clicks[i].was
  BY <1>1 DEF Click
<1>3. clicks' = [clicks EXCEPT ![i] = c]
  OBVIOUS
<1> HIDE DEF c
<1>4. /\ clicks' \in Seq(Click) /\ Len(clicks') = Len(clicks)
      /\ \A j \in 1..Len(clicks) : clicks'[j] = IF j = i THEN c ELSE clicks[j]
  BY <1>1, <1>2, <1>3, ExceptSeq
<1> QED
  BY <1>1, <1>2, <1>4, LenProperties

\* The server toggles, and one click less is ahead.
LEMMA ServeSafe ==
    ASSUME ButtonInv, NEW i \in DOMAIN clicks, Serve(i)
    PROVE  ButtonInv'
<1>1. /\ clicks[i].at = "sent" /\ clicks' = [clicks EXCEPT ![i].at = "served"] /\ on' = ~on
      /\ UNCHANGED <<kind, lit, seen, spoiled>>
  BY DEF Serve
<1>2. ButtonTypes /\ lit \in BOOLEAN /\ on \in BOOLEAN
  BY DEF ButtonInv, ButtonTypes
<1>3. /\ clicks' \in Seq(Click) /\ Len(clicks') = Len(clicks)
      /\ DOMAIN clicks' = DOMAIN clicks
      /\ clicks'[i].at = "served" /\ clicks'[i].was = clicks[i].was
      /\ \A j \in DOMAIN clicks : j # i => clicks'[j] = clicks[j]
  BY <1>1, <1>2, StagedFits
<1>4. ButtonTypes'
  BY <1>1, <1>2, <1>3 DEF ButtonTypes
<1>5. Ahead' = Ahead \ {i} /\ i \in Ahead
  BY <1>1, <1>3 DEF Ahead
<1>6. ASSUME ~spoiled PROVE EvenIff(Ahead', ~(lit = on))
  <2>1. EvenIff(Ahead, lit = on) /\ IsFiniteSet(Ahead)
    BY <1>2, <1>6, AheadFits DEF ButtonInv
  <2>2. (lit = on) \in BOOLEAN
    OBVIOUS
  <2> QED
    BY <1>5, <2>1, <2>2, OddAndEven
<1>7. ~spoiled' => EvenIff(Ahead, lit = on)'
  <2>1. (lit' = on') = ~(lit = on)
    BY <1>1, <1>2
  <2> QED
    BY <1>1, <1>6, <2>1 DEF EvenIff
<1>8. ASSUME ~spoiled', clicks' # <<>>, clicks'[Len(clicks')].at # "over"
      PROVE  lit' = ~clicks'[Len(clicks')].was
  <2>1. Len(clicks) \in DOMAIN clicks /\ clicks # <<>>
    BY <1>2, AheadFits
  <2>2. clicks'[Len(clicks)].was = clicks[Len(clicks)].was /\ clicks[Len(clicks)].at # "over"
    BY <1>1, <1>3, <1>8, <2>1
  <2> QED
    BY <1>1, <1>3, <1>8, <2>1, <2>2 DEF ButtonInv
<1> QED
  BY <1>4, <1>7, <1>8 DEF ButtonInv

\* A request or its answer is lost: the click stays ahead, or nobody knows.
LEMMA LostClickSafe ==
    ASSUME ButtonInv, NEW i \in DOMAIN clicks, LoseClick(i)
    PROVE  ButtonInv'
<1>1. /\ clicks[i].at \in {"sent", "served"} /\ clicks' = [clicks EXCEPT ![i].at = "failed"]
      /\ spoiled' = (spoiled \/ clicks[i].at = "served")
      /\ UNCHANGED <<kind, on, lit, seen>>
  BY DEF LoseClick
<1>2. ButtonTypes
  BY DEF ButtonInv
<1>3. /\ clicks' \in Seq(Click) /\ Len(clicks') = Len(clicks)
      /\ DOMAIN clicks' = DOMAIN clicks
      /\ clicks'[i].at = "failed" /\ clicks'[i].was = clicks[i].was
      /\ \A j \in DOMAIN clicks : j # i => clicks'[j] = clicks[j]
  BY <1>1, <1>2, StagedFits
<1>4. ButtonTypes'
  BY <1>1, <1>2, <1>3 DEF ButtonTypes
<1>5. ASSUME ~spoiled' PROVE EvenIff(Ahead, lit = on)'
  <2>1. Ahead' = Ahead
    BY <1>1, <1>3, <1>5 DEF Ahead
  <2> QED
    BY <1>1, <1>5, <2>1 DEF ButtonInv, EvenIff
<1>6. ASSUME ~spoiled', clicks'[Len(clicks)].at # "over"
      PROVE  lit' = ~clicks'[Len(clicks)].was
  <2>1. Len(clicks) \in DOMAIN clicks /\ clicks # <<>>
    <3>1. DOMAIN clicks = 1..Len(clicks) /\ Len(clicks) \in Nat
      BY <1>2, AheadFits
    <3> QED
      BY <3>1
  <2>2. clicks'[Len(clicks)].was = clicks[Len(clicks)].was
    BY <1>3, <2>1
  <2>3. clicks[Len(clicks)].at # "over" /\ ~spoiled
    BY <1>1, <1>3, <1>6, <2>1
  <2> QED
    BY <1>1, <1>6, <2>1, <2>2, <2>3 DEF ButtonInv
<1> QED
  BY <1>3, <1>4, <1>5, <1>6 DEF ButtonInv

\* The answer to the latest click takes it back if it failed; that of an earlier one cannot.
LEMMA ClickAnsweredSafe ==
    ASSUME ButtonInv, NEW i \in DOMAIN clicks, ClickAnswered(i)
    PROVE  ButtonInv'
<1>1. /\ clicks[i].at \in {"served", "failed"} /\ clicks' = [clicks EXCEPT ![i].at = "over"]
      /\ UNCHANGED <<kind, on, seen>>
      /\ clicks[i].at = "failed" => /\ lit' = IF i = Len(clicks) THEN clicks[i].was ELSE lit
                                    /\ spoiled' = (spoiled \/ i # Len(clicks))
      /\ clicks[i].at # "failed" => UNCHANGED <<lit, spoiled>>
  BY DEF ClickAnswered, RollBack
<1>2. ButtonTypes /\ lit \in BOOLEAN /\ on \in BOOLEAN
  BY DEF ButtonInv, ButtonTypes
<1>3. /\ clicks' \in Seq(Click) /\ Len(clicks') = Len(clicks)
      /\ DOMAIN clicks' = DOMAIN clicks
      /\ clicks'[i].at = "over" /\ clicks'[i].was = clicks[i].was
      /\ \A j \in DOMAIN clicks : j # i => clicks'[j] = clicks[j]
  BY <1>1, <1>2, StagedFits
<1>4. DOMAIN clicks = 1..Len(clicks) /\ Len(clicks) \in Nat /\ clicks[i] \in Click
  BY <1>2, AheadFits
<1>5. ButtonTypes'
  <2>1. lit' \in BOOLEAN /\ spoiled' \in BOOLEAN
    BY <1>1, <1>2, <1>4 DEF ButtonTypes, Click
  <2> QED
    BY <1>1, <1>2, <1>3, <2>1 DEF ButtonTypes
<1>6. Len(clicks) \in DOMAIN clicks
  BY <1>4
<1>7. ASSUME ~spoiled', clicks[i].at = "failed"
      PROVE  /\ EvenIff(Ahead, lit = on)'
             /\ clicks' # <<>> /\ clicks'[Len(clicks')].at # "over"
                  => lit' = ~clicks'[Len(clicks')].was
  <2>1. i = Len(clicks) /\ ~spoiled
    BY <1>1, <1>2, <1>7 DEF ButtonTypes
  <2>2. lit = ~clicks[i].was /\ lit' = clicks[i].was
    BY <1>1, <1>6, <1>7, <2>1 DEF ButtonInv
  <2>3. Ahead' = Ahead \ {i} /\ i \in Ahead
    BY <1>1, <1>3, <1>7 DEF Ahead
  <2>4. EvenIff(Ahead, lit = on) /\ IsFiniteSet(Ahead) /\ (lit = on) \in BOOLEAN
    BY <1>2, <2>1, AheadFits DEF ButtonInv
  <2>5. EvenIff(Ahead', ~(lit = on))
    BY <2>3, <2>4, OddAndEven
  <2>6. (lit' = on') = ~(lit = on)
    BY <1>1, <1>2, <1>4, <2>2 DEF Click
  <2> QED
    BY <1>3, <2>1, <2>5, <2>6 DEF EvenIff
<1>8. ASSUME ~spoiled', clicks[i].at # "failed"
      PROVE  /\ EvenIff(Ahead, lit = on)'
             /\ clicks' # <<>> /\ clicks'[Len(clicks')].at # "over"
                  => lit' = ~clicks'[Len(clicks')].was
  <2>1. UNCHANGED <<lit, spoiled, on>>
    BY <1>1, <1>8
  <2>2. Ahead' = Ahead
    BY <1>1, <1>3, <1>8 DEF Ahead
  <2>3. EvenIff(Ahead, lit = on)'
    BY <1>8, <2>1, <2>2 DEF ButtonInv, EvenIff
  <2>4. ASSUME clicks'[Len(clicks')].at # "over" PROVE lit' = ~clicks'[Len(clicks')].was
    <3>1. i # Len(clicks) /\ clicks # <<>>
      BY <1>3, <1>6, <2>4
    <3>2. clicks'[Len(clicks)] = clicks[Len(clicks)]
      BY <1>3, <1>6, <3>1
    <3> QED
      BY <1>3, <1>8, <2>1, <2>4, <3>1, <3>2 DEF ButtonInv
  <2> QED
    BY <2>3, <2>4
<1> QED
  BY <1>5, <1>7, <1>8 DEF ButtonInv

\* The button is mounted anew: it can be trusted if what it starts from is up to date and
\* no request is on its way.
LEMMA RemountSafe == ButtonInv /\ Remount => ButtonInv'
<1> SUFFICES ASSUME ButtonInv, Remount PROVE ButtonInv'
  OBVIOUS
<1>1. /\ lit' = seen /\ UNCHANGED <<kind, on, seen>>
      /\ clicks' = [i \in DOMAIN clicks |->
                      IF clicks[i].at = "sent" THEN clicks[i]
                                               ELSE [clicks[i] EXCEPT !.at = "over"]]
      /\ spoiled' = (seen # on \/ \E i \in DOMAIN clicks : clicks[i].at = "sent")
  BY DEF Remount
<1>2. ButtonTypes /\ seen \in BOOLEAN /\ spoiled' \in BOOLEAN
  BY <1>1 DEF ButtonInv, ButtonTypes
<1>3. DOMAIN clicks = 1..Len(clicks) /\ Len(clicks) \in Nat
      /\ \A i \in DOMAIN clicks : clicks[i] \in Click
  BY <1>2, AheadFits
<1>4. \A i \in 1..Len(clicks) : (IF clicks[i].at = "sent" THEN clicks[i]
                                 ELSE [clicks[i] EXCEPT !.at = "over"]) \in Click
  BY <1>3 DEF Click
<1>5. clicks' \in Seq(Click)
  BY <1>1, <1>3, <1>4, IsASeq
<1>6. ButtonTypes'
  BY <1>1, <1>2, <1>5 DEF ButtonTypes
<1>7. ASSUME ~spoiled'
      PROVE  /\ EvenIff(Ahead, lit = on)'
             /\ clicks' # <<>> => clicks'[Len(clicks')].at = "over"
  <2>1. lit' = on' /\ \A i \in DOMAIN clicks : clicks[i].at # "sent"
    BY <1>1, <1>7
  <2>2. DOMAIN clicks' = DOMAIN clicks /\ \A i \in DOMAIN clicks' : clicks'[i].at = "over"
    BY <1>1, <1>3, <2>1 DEF Click
  <2>3. Ahead' = {}
    BY <2>2 DEF Ahead
  <2>4. Cardinality(Ahead') = 2 * 0
    BY <2>3, FS_EmptySet
  <2>5. clicks' # <<>> => Len(clicks') \in DOMAIN clicks'
    <3>1. DOMAIN clicks' = 1..Len(clicks') /\ Len(clicks') \in Nat
      BY <1>5, LenProperties
    <3>2. clicks' # <<>> => Len(clicks') # 0
      BY <1>5, EmptySeq
    <3> QED
      BY <3>1, <3>2
  <2> QED
    BY <2>1, <2>2, <2>4, <2>5 DEF EvenIff
<1> QED
  BY <1>6, <1>7 DEF ButtonInv

\* Every step of the button keeps its invariant.
LEMMA ButtonStep == ButtonInv /\ (ButtonNext \/ UNCHANGED buttonVars) => ButtonInv'
<1> SUFFICES ASSUME ButtonInv, ButtonNext \/ UNCHANGED buttonVars PROVE ButtonInv'
  OBVIOUS
<1>1. CASE UNCHANGED buttonVars
  BY <1>1 DEF buttonVars, ButtonInv, ButtonTypes, Ahead, EvenIff
<1>2. CASE Like \/ Bookmark \/ Follow \/ LikeOfComment
  BY <1>2, ToggleSafe DEF Like, Bookmark, Follow, LikeOfComment, Buttons
<1>3. CASE Reread
  <2>1. UNCHANGED <<kind, on, lit, clicks, spoiled>> /\ seen' = on
    BY <1>3 DEF Reread
  <2>2. ButtonTypes'
    BY <2>1 DEF ButtonInv, ButtonTypes
  <2> QED
    BY <2>1, <2>2 DEF ButtonInv, Ahead, EvenIff
<1> QED
  BY <1>1, <1>2, <1>3, ServeSafe, LostClickSafe, ClickAnsweredSafe, RemountSafe DEF ButtonNext

\* With no request under way nothing is ahead.
LEMMA ButtonIsTrue == ButtonInv => ButtonTrue
<1> SUFFICES ASSUME ButtonInv, Open = {}, ~spoiled PROVE lit = on
  BY DEF ButtonTrue
<1>1. Ahead = {}
  BY DEF Ahead, Open
<1>2. PICK k \in Nat : Cardinality(Ahead) = IF lit = on THEN 2 * k ELSE 2 * k + 1
  BY DEF ButtonInv, EvenIff
<1>3. Cardinality(Ahead) = 0
  BY <1>1, FS_EmptySet
<1> SUFFICES ASSUME lit # on PROVE FALSE
  OBVIOUS
<1>4. 2 * k + 1 = 0
  BY <1>2, <1>3
<1> QED
  BY <1>4

-----------------------------------------------------------------------------
(* Comments.                                                                *)

CommentTypes ==
    /\ comments \in [CommentIds -> CommentRecords] /\ total \in Int /\ replies \in [CommentIds -> Int]
    /\ ops \subseteq Ops /\ deletes \in 0..MaxDeletes /\ draft \in [Boxes -> {0} \cup Texts]
    /\ twice \in BOOLEAN

\* A request is known by its comment, if it creates it, or by its number.
Known(o, p) ==
    /\ o.kind = "create" /\ p.kind = "create" /\ o.c = p.c => o = p
    /\ o.kind = "delete" /\ p.kind = "delete" /\ o.n = p.n => o = p

\* A comment is there once its request is past the store, and before anyone deletes it.
InTime(o) ==
    /\ o.kind = "create" /\ o.at = "sent" => comments[o.c].at = "none"
    /\ o.kind = "delete" => comments[o.c].at # "none" /\ o.n <= deletes

\* No comment is deleted twice.
DeletedOnce ==
    /\ \A o \in ops : o.kind = "delete" /\ o.at = "sent" => comments[o.c].at = "live"
    /\ \A o, p \in ops : o.kind = "delete" /\ p.kind = "delete" /\ o.c = p.c => o = p

CommentInv ==
    /\ CommentTypes /\ IsFiniteSet(ops)
    /\ \A o, p \in ops : Known(o, p)
    /\ \A o \in ops : InTime(o)
    /\ ~twice => DeletedOnce /\ CountsAddUp

\* What the numbers of CountsAddUp count.
Waiting(p, k) == {o \in ops : o.at = "stored" /\ o.kind = k /\ On(o.c, p)}
LivingOn(p) == {c \in CommentIds : comments[c].at = "live" /\ On(c, p)}

\* Nobody has commented yet.
LEMMA CommentsStart == ReadingInit => CommentInv
<1> SUFFICES ASSUME ReadingInit PROVE CommentInv
  OBVIOUS
<1>1. /\ comments = [c \in CommentIds |-> NoComment] /\ total = 0
      /\ replies = [c \in CommentIds |-> 0] /\ ops = {} /\ deletes = 0 /\ twice = FALSE
      /\ draft = [b \in Boxes |-> 0]
  BY DEF ReadingInit
<1>2. NoComment \in CommentRecords /\ NoComment.at = "none"
  BY DEF NoComment, CommentRecords, Boxes
<1>3. 0 \in 0..MaxDeletes
  BY ReadingBounds
<1>7. comments \in [CommentIds -> CommentRecords] /\ replies \in [CommentIds -> Int]
  BY <1>1, <1>2
<1>8. ops \subseteq Ops /\ draft \in [Boxes -> {0} \cup Texts] /\ twice \in BOOLEAN
  BY <1>1
<1>4. CommentTypes
  BY <1>1, <1>3, <1>7, <1>8 DEF CommentTypes
<1>5. ASSUME NEW p \in {0} \cup CommentIds
      PROVE  Counter(p) + Coming(p, "create") - Coming(p, "delete") = Live(p)
  <2>1. Counter(p) = 0
    BY <1>1 DEF Counter
  <2>2. Waiting(p, "create") = {} /\ Waiting(p, "delete") = {} /\ LivingOn(p) = {}
    BY <1>1, <1>2 DEF Waiting, LivingOn
  <2>3. Coming(p, "create") = 0 /\ Coming(p, "delete") = 0 /\ Live(p) = 0
    BY <2>2, FS_EmptySet DEF Coming, Live, Waiting, LivingOn
  <2> QED
    BY <2>1, <2>3
<1>6. IsFiniteSet(ops) /\ DeletedOnce /\ \A o, p \in ops : Known(o, p)
  BY <1>1, FS_EmptySet DEF DeletedOnce
<1> QED
  BY <1>1, <1>4, <1>5, <1>6 DEF CommentInv, CountsAddUp

\* The counters are integers, and what they count can be counted.
LEMMA NumbersFit ==
    ASSUME CommentTypes, IsFiniteSet(ops), NEW p \in {0} \cup CommentIds
    PROVE  /\ Counter(p) \in Int
           /\ \A k : IsFiniteSet(Waiting(p, k)) /\ Coming(p, k) = Cardinality(Waiting(p, k))
                     /\ Coming(p, k) \in Nat
           /\ IsFiniteSet(LivingOn(p)) /\ Live(p) = Cardinality(LivingOn(p)) /\ Live(p) \in Nat
<1>1. Counter(p) \in Int
  BY DEF Counter, CommentTypes
<1>2. ASSUME NEW k
      PROVE  /\ IsFiniteSet(Waiting(p, k)) /\ Coming(p, k) = Cardinality(Waiting(p, k))
             /\ Coming(p, k) \in Nat
  <2>1. Waiting(p, k) \subseteq ops
    BY DEF Waiting
  <2>2. IsFiniteSet(Waiting(p, k))
    BY <2>1, FS_Subset
  <2>3. Coming(p, k) = Cardinality(Waiting(p, k))
    BY DEF Coming, Waiting
  <2> QED
    BY <2>2, <2>3, FS_CardinalityType
<1>3. IsFiniteSet(LivingOn(p)) /\ Live(p) = Cardinality(LivingOn(p)) /\ Live(p) \in Nat
  <2>1. LivingOn(p) \subseteq 1..MaxComments
    BY DEF LivingOn, CommentIds
  <2>2. IsFiniteSet(1..MaxComments)
    BY ReadingBounds, FS_Interval
  <2>3. IsFiniteSet(LivingOn(p))
    BY <2>1, <2>2, FS_Subset
  <2>4. Live(p) = Cardinality(LivingOn(p))
    BY DEF Live, LivingOn
  <2> QED
    BY <2>3, <2>4, FS_CardinalityType
<1> QED
  BY <1>1, <1>2, <1>3

\* A request goes to its next stage, and no other one is it.
LEMMA MovedFits ==
    ASSUME CommentInv, NEW o \in ops, NEW stage \in {"sent", "stored", "counted", "failed"},
           NEW q, q = [o EXCEPT !.at = stage], Move(o, stage)
    PROVE  /\ q \in Ops /\ q.kind = o.kind /\ q.c = o.c /\ q.n = o.n /\ q.box = o.box
           /\ q.text = o.text /\ q.at = stage
           /\ ops' = (ops \ {o}) \cup {q} /\ ops' \subseteq Ops /\ IsFiniteSet(ops')
           /\ q \notin ops \ {o}
           /\ \A a, b \in ops' : Known(a, b)
<1>1. o \in Ops /\ ops \subseteq Ops /\ IsFiniteSet(ops) /\ \A a, b \in ops : Known(a, b)
  BY DEF CommentInv, CommentTypes
<1>2. /\ q \in Ops /\ q.kind = o.kind /\ q.c = o.c /\ q.n = o.n /\ q.box = o.box
      /\ q.text = o.text /\ q.at = stage
  BY <1>1 DEF Ops
<1>3. ops' = (ops \ {o}) \cup {q}
  BY DEF Move
<1>4. IsFiniteSet(ops')
  BY <1>1, <1>3, FS_RemoveElement, FS_AddElement
<1>5. o.kind \in {"create", "delete"}
  BY <1>1 DEF Ops
<1>6. q \notin ops \ {o}
  BY <1>1, <1>2, <1>5 DEF Known
<1>7. Known(q, q) /\ \A a \in ops \ {o} : Known(a, q) /\ Known(q, a)
  BY <1>1, <1>2, <1>5 DEF Known
<1>8. \A a, b \in ops' : Known(a, b)
  BY <1>1, <1>3, <1>7
<1> QED
  BY <1>1, <1>2, <1>3, <1>4, <1>6, <1>8

\* A step that neither stores nor counts keeps the counters right.
LEMMA CountsStay ==
    ASSUME CommentInv, ~twice, UNCHANGED <<comments, total, replies>>,
           \A x : (x \in ops' /\ x.at = "stored") <=> (x \in ops /\ x.at = "stored")
    PROVE  CountsAddUp'
<1>1. \A p, k : Waiting(p, k)' = Waiting(p, k)
  BY DEF Waiting, On
<1>2. \A p : LivingOn(p)' = LivingOn(p) /\ Counter(p)' = Counter(p)
  BY DEF LivingOn, On, Counter
<1>5. \A p, k : /\ Coming(p, k) = Cardinality(Waiting(p, k))
                /\ Coming(p, k)' = Cardinality(Waiting(p, k)')
  BY DEF Coming, Waiting
<1>6. \A p : Live(p) = Cardinality(LivingOn(p)) /\ Live(p)' = Cardinality(LivingOn(p)')
  BY DEF Live, LivingOn
<1>3. \A p, k : Coming(p, k)' = Coming(p, k) /\ Live(p)' = Live(p)
  BY <1>1, <1>2, <1>5, <1>6
<1>4. CountsAddUp
  BY DEF CommentInv
<1> QED
  BY <1>2, <1>3, <1>4 DEF CountsAddUp

\* A comment is stored: it is live, and its increment is on the way.
LEMMA StoredCounts ==
    ASSUME CommentInv, ~twice, NEW o \in ops, StoreComment(o), NEW p \in {0} \cup CommentIds
    PROVE  /\ Counter(p)' = Counter(p) /\ Waiting(p, "delete")' = Waiting(p, "delete")
           /\ p = o.box => /\ LivingOn(p)' = LivingOn(p) \cup {o.c} /\ o.c \notin LivingOn(p)
                           /\ \E q : /\ Waiting(p, "create")' = Waiting(p, "create") \cup {q}
                                     /\ q \notin Waiting(p, "create")
           /\ p # o.box => /\ LivingOn(p)' = LivingOn(p)
                           /\ Waiting(p, "create")' = Waiting(p, "create")
<1> DEFINE q == [o EXCEPT !.at = "stored"]
           r == [at |-> "live", parent |-> o.box, text |-> o.text]
<1>1. /\ o.kind = "create" /\ o.at = "sent" /\ UNCHANGED <<total, replies>>
      /\ comments' = [comments EXCEPT ![o.c] = r] /\ Move(o, "stored")
  BY DEF StoreComment
<1>2. /\ q \in Ops /\ q.kind = o.kind /\ q.c = o.c /\ q.at = "stored"
      /\ ops' = (ops \ {o}) \cup {q} /\ q \notin ops \ {o}
  BY <1>1, MovedFits
<1>3. r.at = "live" /\ r.parent = o.box
  OBVIOUS
<1> HIDE DEF q, r
<1>4. /\ o.c \in CommentIds /\ DOMAIN comments = CommentIds /\ comments[o.c].at = "none"
      /\ \A x \in ops : InTime(x) /\ Known(x, o) /\ x.kind \in {"create", "delete"}
  BY <1>1 DEF CommentInv, CommentTypes, Ops, InTime
<1>5. comments'[o.c] = r /\ \A c \in CommentIds : c # o.c => comments'[c] = comments[c]
  BY <1>1, <1>4
<1>6. \A x \in ops : x # o /\ x.at = "stored" => x.c # o.c
  BY <1>1, <1>4 DEF InTime, Known
<1>7. \A x \in ops : x # o /\ x.at = "stored" => x.c \in CommentIds /\ comments'[x.c] = comments[x.c]
  BY <1>5, <1>6 DEF CommentInv, CommentTypes, Ops
<1>8. Waiting(p, "delete")' = Waiting(p, "delete")
  BY <1>1, <1>2, <1>7 DEF Waiting, On
<1>9. o \notin Waiting(p, "create") /\ q \notin Waiting(p, "create") /\ q # o
  BY <1>1, <1>2 DEF Waiting
<1>10. CASE p = o.box
  <2>1. Waiting(p, "create")' = Waiting(p, "create") \cup {q}
    BY <1>1, <1>2, <1>3, <1>5, <1>7, <1>10 DEF Waiting, On
  <2>2. LivingOn(p)' = LivingOn(p) \cup {o.c} /\ o.c \notin LivingOn(p)
    BY <1>3, <1>4, <1>5, <1>10 DEF LivingOn, On
  <2> QED
    BY <1>1, <1>8, <1>9, <1>10, <2>1, <2>2 DEF Counter
<1>11. CASE p # o.box
  <2>1. Waiting(p, "create")' = Waiting(p, "create")
    BY <1>1, <1>2, <1>3, <1>5, <1>7, <1>11 DEF Waiting, On
  <2>2. LivingOn(p)' = LivingOn(p)
    BY <1>3, <1>4, <1>5, <1>11 DEF LivingOn, On
  <2> QED
    BY <1>1, <1>8, <1>11, <2>1, <2>2 DEF Counter
<1> QED
  BY <1>10, <1>11

\* A comment is deleted: it was live, and its decrement is on the way.
LEMMA DeletedCounts ==
    ASSUME CommentInv, ~twice, NEW o \in ops, SoftDelete(o), NEW p \in {0} \cup CommentIds
    PROVE  /\ Counter(p)' = Counter(p) /\ Waiting(p, "create")' = Waiting(p, "create")
           /\ On(o.c, p) => /\ LivingOn(p)' = LivingOn(p) \ {o.c} /\ o.c \in LivingOn(p)
                            /\ \E q : /\ Waiting(p, "delete")' = Waiting(p, "delete") \cup {q}
                                      /\ q \notin Waiting(p, "delete")
           /\ ~On(o.c, p) => /\ LivingOn(p)' = LivingOn(p)
                             /\ Waiting(p, "delete")' = Waiting(p, "delete")
<1> DEFINE q == [o EXCEPT !.at = "stored"]
<1>1. /\ o.kind = "delete" /\ o.at = "sent" /\ UNCHANGED <<total, replies>>
      /\ comments' = [comments EXCEPT ![o.c].at = "deleted"] /\ Move(o, "stored")
  BY DEF SoftDelete
<1>2. /\ q \in Ops /\ q.kind = o.kind /\ q.c = o.c /\ q.at = "stored"
      /\ ops' = (ops \ {o}) \cup {q} /\ q \notin ops \ {o}
  BY <1>1, MovedFits
<1> HIDE DEF q
<1>3. /\ o.c \in CommentIds /\ DOMAIN comments = CommentIds
      /\ comments[o.c] \in CommentRecords
      /\ \A x \in ops : x.c \in CommentIds
      /\ comments[o.c].at = "live"
  BY <1>1 DEF CommentInv, CommentTypes, Ops, DeletedOnce
<1>4. /\ comments'[o.c].at = "deleted" /\ comments'[o.c].parent = comments[o.c].parent
      /\ \A c \in CommentIds : c # o.c => comments'[c] = comments[c]
  BY <1>1, <1>3 DEF CommentRecords
<1>5. \A c \in CommentIds : On(c, p)' <=> On(c, p)
  BY <1>4 DEF On
<1>6. Waiting(p, "create")' = Waiting(p, "create")
  BY <1>1, <1>2, <1>3, <1>5 DEF Waiting
<1>7. q \notin Waiting(p, "delete") /\ o \notin Waiting(p, "delete")
  BY <1>1, <1>2 DEF Waiting
<1>8. CASE On(o.c, p)
  <2>1. Waiting(p, "delete")' = Waiting(p, "delete") \cup {q}
    BY <1>1, <1>2, <1>3, <1>5, <1>8 DEF Waiting
  <2>2. LivingOn(p)' = LivingOn(p) \ {o.c} /\ o.c \in LivingOn(p)
    <3>1. o.c \in LivingOn(p)
      BY <1>3, <1>8 DEF LivingOn
    <3>2. \A c \in CommentIds : c \in LivingOn(p)' <=> c \in LivingOn(p) /\ c # o.c
      BY <1>4, <1>5 DEF LivingOn
    <3>3. LivingOn(p) \subseteq CommentIds /\ LivingOn(p)' \subseteq CommentIds
      BY DEF LivingOn
    <3> QED
      BY <3>1, <3>2, <3>3
  <2> QED
    BY <1>1, <1>6, <1>7, <1>8, <2>1, <2>2 DEF Counter
<1>9. CASE ~On(o.c, p)
  <2>1. Waiting(p, "delete")' = Waiting(p, "delete")
    BY <1>1, <1>2, <1>3, <1>5, <1>9 DEF Waiting
  <2>2. LivingOn(p)' = LivingOn(p)
    <3>1. \A c \in CommentIds : c \in LivingOn(p)' <=> c \in LivingOn(p)
      BY <1>4, <1>5, <1>9 DEF LivingOn
    <3>2. LivingOn(p) \subseteq CommentIds /\ LivingOn(p)' \subseteq CommentIds
      BY DEF LivingOn
    <3> QED
      BY <3>1, <3>2
  <2> QED
    BY <1>1, <1>6, <1>9, <2>1, <2>2 DEF Counter
<1> QED
  BY <1>8, <1>9

\* A change is counted where its comment is, and is not on the way any more.
LEMMA CountedCounts ==
    ASSUME CommentInv, NEW o \in ops, Count(o), NEW p \in {0} \cup CommentIds
    PROVE  /\ LivingOn(p)' = LivingOn(p)
           /\ \A k : k # o.kind => Waiting(p, k)' = Waiting(p, k)
           /\ On(o.c, p) => /\ Counter(p)' = Counter(p) + Delta(o)
                            /\ Waiting(p, o.kind)' = Waiting(p, o.kind) \ {o}
                            /\ o \in Waiting(p, o.kind)
           /\ ~On(o.c, p) => /\ Counter(p)' = Counter(p)
                             /\ Waiting(p, o.kind)' = Waiting(p, o.kind)
<1> DEFINE q == [o EXCEPT !.at = "counted"]
<1>1. o.at = "stored" /\ UNCHANGED comments /\ Move(o, "counted")
  BY DEF Count
<1>2. /\ q \in Ops /\ q.kind = o.kind /\ q.at = "counted"
      /\ ops' = (ops \ {o}) \cup {q}
  BY <1>1, MovedFits
<1> HIDE DEF q
<1>3. \A c : On(c, p)' <=> On(c, p)
  BY <1>1 DEF On
<1>4. LivingOn(p)' = LivingOn(p)
  BY <1>1, <1>3 DEF LivingOn
<1>5. \A k : Waiting(p, k)' = Waiting(p, k) \ {o}
  BY <1>1, <1>2, <1>3 DEF Waiting
<1>6. \A k : o \in Waiting(p, k) <=> k = o.kind /\ On(o.c, p)
  BY <1>1 DEF Waiting
<1>7. /\ On(o.c, p) => Counter(p)' = Counter(p) + Delta(o)
      /\ ~On(o.c, p) => Counter(p)' = Counter(p)
  <2>1. On(o.c, p) <=> CountOn(o) = p
    BY DEF On, CountOn
  <2>2. CASE CountOn(o) = 0
    BY <2>1, <2>2 DEF Count, Counter
  <2>3. CASE CountOn(o) # 0
    <3>1. UNCHANGED total /\ replies' = [replies EXCEPT ![CountOn(o)] = @ + Delta(o)]
      BY <2>3 DEF Count
    <3>2. DOMAIN replies = CommentIds
      BY DEF CommentInv, CommentTypes
    <3>3. \A c \in CommentIds : replies'[c] = IF c = CountOn(o) THEN replies[c] + Delta(o)
                                              ELSE replies[c]
      BY <3>1, <3>2
    <3> QED
      BY <2>1, <2>3, <3>1, <3>3 DEF Counter
  <2> QED
    BY <2>2, <2>3
<1> QED
  BY <1>4, <1>5, <1>6, <1>7

\* The steps of the server that move a counter or what it counts keep them equal.
LEMMA CountsKept ==
    ASSUME CommentInv, ~twice, NEW o \in ops, StoreComment(o) \/ SoftDelete(o) \/ Count(o),
           CommentTypes', IsFiniteSet(ops')
    PROVE  CountsAddUp'
<1> SUFFICES ASSUME NEW p \in {0} \cup CommentIds
             PROVE  Counter(p)' + Coming(p, "create")' - Coming(p, "delete")' = Live(p)'
  BY DEF CountsAddUp
<1> DEFINE n == Counter(p)
           c == Coming(p, "create")
           d == Coming(p, "delete")
           l == Live(p)
<1>1. /\ n \in Int /\ c \in Nat /\ d \in Nat /\ l \in Nat /\ n + c - d = l
      /\ c = Cardinality(Waiting(p, "create")) /\ IsFiniteSet(Waiting(p, "create"))
      /\ d = Cardinality(Waiting(p, "delete")) /\ IsFiniteSet(Waiting(p, "delete"))
      /\ l = Cardinality(LivingOn(p)) /\ IsFiniteSet(LivingOn(p))
  BY NumbersFit DEF CommentInv, CountsAddUp
<1>2. /\ c' = Cardinality(Waiting(p, "create")') /\ d' = Cardinality(Waiting(p, "delete")')
      /\ l' = Cardinality(LivingOn(p)')
  BY DEF Coming, Live, Waiting, LivingOn
<1> HIDE DEF n, c, d, l
<1>3. CASE StoreComment(o)
  <2>1. CASE p = o.box
    <3>1. PICK q : Waiting(p, "create")' = Waiting(p, "create") \cup {q} /\ q \notin Waiting(p, "create")
      BY <1>3, <2>1, StoredCounts
    <3>2. /\ LivingOn(p)' = LivingOn(p) \cup {o.c} /\ o.c \notin LivingOn(p)
          /\ n' = n /\ Waiting(p, "delete")' = Waiting(p, "delete")
      BY <1>3, <2>1, StoredCounts DEF n
    <3>3. c' = c + 1
      BY <1>1, <1>2, <3>1, FS_AddElement
    <3>4. l' = l + 1 /\ d' = d
      <4>1. Cardinality(LivingOn(p) \cup {o.c}) = Cardinality(LivingOn(p)) + 1
        BY <1>1, <3>2, FS_AddElement
      <4> QED
        BY <1>1, <1>2, <3>2, <4>1
    <3>5. n' + c' - d' = l'
      BY <1>1, <3>2, <3>3, <3>4
    <3> QED
      BY <3>5 DEF n, c, d, l
  <2>2. CASE p # o.box
    <3>1. n' = n /\ c' = c /\ d' = d /\ l' = l
      BY <1>1, <1>2, <1>3, <2>2, StoredCounts DEF n
    <3>2. n' + c' - d' = l'
      BY <1>1, <3>1
    <3> QED
      BY <3>2 DEF n, c, d, l
  <2> QED
    BY <2>1, <2>2
<1>4. CASE SoftDelete(o)
  <2>1. CASE On(o.c, p)
    <3>1. PICK q : Waiting(p, "delete")' = Waiting(p, "delete") \cup {q} /\ q \notin Waiting(p, "delete")
      BY <1>4, <2>1, DeletedCounts
    <3>2. /\ LivingOn(p)' = LivingOn(p) \ {o.c} /\ o.c \in LivingOn(p)
          /\ n' = n /\ Waiting(p, "create")' = Waiting(p, "create")
      BY <1>4, <2>1, DeletedCounts DEF n
    <3>3. d' = d + 1
      BY <1>1, <1>2, <3>1, FS_AddElement
    <3>4. l' = l - 1 /\ c' = c
      <4>1. Cardinality(LivingOn(p) \ {o.c}) = Cardinality(LivingOn(p)) - 1
        BY <1>1, <3>2, FS_RemoveElement
      <4> QED
        BY <1>1, <1>2, <3>2, <4>1
    <3>5. n' + c' - d' = l'
      BY <1>1, <3>2, <3>3, <3>4
    <3> QED
      BY <3>5 DEF n, c, d, l
  <2>2. CASE ~On(o.c, p)
    <3>1. n' = n /\ c' = c /\ d' = d /\ l' = l
      BY <1>1, <1>2, <1>4, <2>2, DeletedCounts DEF n
    <3>2. n' + c' - d' = l'
      BY <1>1, <3>1
    <3> QED
      BY <3>2 DEF n, c, d, l
  <2> QED
    BY <2>1, <2>2
<1>5. CASE Count(o)
  <2>1. l' = l
    BY <1>1, <1>2, <1>5, CountedCounts
  <2>2. o.kind \in {"create", "delete"}
    BY DEF CommentInv, CommentTypes, Ops
  <2>3. CASE On(o.c, p) /\ o.kind = "create"
    <3>1. /\ n' = n + 1 /\ Waiting(p, "delete")' = Waiting(p, "delete")
          /\ Waiting(p, "create")' = Waiting(p, "create") \ {o} /\ o \in Waiting(p, "create")
      BY <1>5, <2>3, CountedCounts DEF n, Delta
    <3>2. c' = c - 1 /\ d' = d
      BY <1>1, <1>2, <3>1, FS_RemoveElement
    <3>3. n' + c' - d' = l'
      BY <1>1, <2>1, <3>1, <3>2
    <3> QED
      BY <3>3 DEF n, c, d, l
  <2>4. CASE On(o.c, p) /\ o.kind = "delete"
    <3>1. /\ n' = n + (-1) /\ Waiting(p, "create")' = Waiting(p, "create")
          /\ Waiting(p, "delete")' = Waiting(p, "delete") \ {o} /\ o \in Waiting(p, "delete")
      BY <1>5, <2>4, CountedCounts DEF n, Delta
    <3>2. d' = d - 1 /\ c' = c
      BY <1>1, <1>2, <3>1, FS_RemoveElement
    <3>3. n' + c' - d' = l'
      BY <1>1, <2>1, <3>1, <3>2
    <3> QED
      BY <3>3 DEF n, c, d, l
  <2>5. CASE ~On(o.c, p)
    <3>1. n' = n /\ \A k : Waiting(p, k)' = Waiting(p, k)
      BY <1>5, <2>2, <2>5, CountedCounts DEF n
    <3>2. c' = c /\ d' = d
      BY <1>1, <1>2, <3>1
    <3>3. n' + c' - d' = l'
      BY <1>1, <2>1, <3>1, <3>2
    <3> QED
      BY <3>3 DEF n, c, d, l
  <2> QED
    BY <2>2, <2>3, <2>4, <2>5
<1> QED
  BY <1>3, <1>4, <1>5

\* A request that went to its next stage is still the only deletion of its comment.
LEMMA StillOnce ==
    ASSUME CommentInv, ~twice, NEW o \in ops, NEW q, q.kind = o.kind, q.c = o.c,
           ops' = (ops \ {o}) \cup {q}
    PROVE  \A a, b \in ops' : a.kind = "delete" /\ b.kind = "delete" /\ a.c = b.c => a = b
<1>1. \A a, b \in ops : a.kind = "delete" /\ b.kind = "delete" /\ a.c = b.c => a = b
  BY DEF CommentInv, DeletedOnce
<1>2. \A a \in ops \ {o} : ~(a.kind = "delete" /\ q.kind = "delete" /\ a.c = q.c)
  BY <1>1
<1> QED
  BY <1>1, <1>2

\* The server stores a comment.
LEMMA StoreSafe ==
    ASSUME CommentInv, NEW o \in ops, StoreComment(o)
    PROVE  CommentInv'
<1> DEFINE q == [o EXCEPT !.at = "stored"]
           r == [at |-> "live", parent |-> o.box, text |-> o.text]
<1>1. /\ o.kind = "create" /\ o.at = "sent" /\ UNCHANGED <<deletes, total, replies, draft, twice>>
      /\ comments' = [comments EXCEPT ![o.c] = r] /\ Move(o, "stored")
  BY DEF StoreComment
<1>2. /\ q \in Ops /\ q.kind = o.kind /\ q.c = o.c /\ q.n = o.n /\ q.at = "stored"
      /\ ops' = (ops \ {o}) \cup {q} /\ ops' \subseteq Ops /\ IsFiniteSet(ops')
      /\ \A a, b \in ops' : Known(a, b)
  BY <1>1, MovedFits
<1>3. r \in CommentRecords /\ r.at = "live"
  BY DEF CommentInv, CommentTypes, Ops, CommentRecords
<1> HIDE DEF q, r
<1>4. /\ o.c \in CommentIds /\ comments \in [CommentIds -> CommentRecords]
      /\ comments[o.c].at = "none"
      /\ \A x \in ops : InTime(x) /\ Known(x, o) /\ x.c \in CommentIds
  BY <1>1 DEF CommentInv, CommentTypes, Ops, InTime
<1>5. comments'[o.c] = r /\ \A c \in CommentIds : c # o.c => comments'[c] = comments[c]
  BY <1>1, <1>4
<1>6. CommentTypes'
  BY <1>1, <1>2, <1>3, <1>4 DEF CommentInv, CommentTypes
<1>7. \A x \in ops \ {o} : x.kind = "delete" \/ (x.kind = "create" /\ x.at = "sent")
        => x.c # o.c
  BY <1>1, <1>4 DEF InTime, Known
<1>8. \A x \in ops' : InTime(x)'
  BY <1>1, <1>2, <1>4, <1>5, <1>7 DEF InTime
<1>9. ASSUME ~twice' PROVE DeletedOnce' /\ CountsAddUp'
  <2>1. CountsAddUp'
    BY <1>1, <1>2, <1>6, <1>9, CountsKept
  <2>2. \A a, b \in ops' : a.kind = "delete" /\ b.kind = "delete" /\ a.c = b.c => a = b
    BY <1>1, <1>2, <1>9, StillOnce
  <2>3. \A x \in ops' : x.kind = "delete" /\ x.at = "sent" => comments'[x.c].at = "live"
    BY <1>1, <1>2, <1>4, <1>5, <1>7, <1>9 DEF CommentInv, DeletedOnce
  <2> QED
    BY <2>1, <2>2, <2>3 DEF DeletedOnce
<1> QED
  BY <1>2, <1>6, <1>8, <1>9 DEF CommentInv

\* The server deletes a comment.
LEMMA SoftDeleteSafe ==
    ASSUME CommentInv, NEW o \in ops, SoftDelete(o)
    PROVE  CommentInv'
<1> DEFINE q == [o EXCEPT !.at = "stored"]
<1>1. /\ o.kind = "delete" /\ o.at = "sent" /\ UNCHANGED <<deletes, total, replies, draft, twice>>
      /\ comments' = [comments EXCEPT ![o.c].at = "deleted"] /\ Move(o, "stored")
  BY DEF SoftDelete
<1>2. /\ q \in Ops /\ q.kind = o.kind /\ q.c = o.c /\ q.n = o.n /\ q.at = "stored"
      /\ ops' = (ops \ {o}) \cup {q} /\ ops' \subseteq Ops /\ IsFiniteSet(ops')
      /\ \A a, b \in ops' : Known(a, b)
  BY <1>1, MovedFits
<1> HIDE DEF q
<1>3. /\ o.c \in CommentIds /\ comments \in [CommentIds -> CommentRecords]
      /\ comments[o.c].at # "none" /\ o.n <= deletes
      /\ \A x \in ops : InTime(x) /\ x.c \in CommentIds
  BY <1>1 DEF CommentInv, CommentTypes, Ops, InTime
<1>4. /\ comments'[o.c].at = "deleted" /\ comments' \in [CommentIds -> CommentRecords]
      /\ \A c \in CommentIds : c # o.c => comments'[c] = comments[c]
  BY <1>1, <1>3 DEF CommentRecords
<1>5. CommentTypes'
  BY <1>1, <1>2, <1>4 DEF CommentInv, CommentTypes
<1>6. \A x \in ops' : InTime(x)'
  BY <1>1, <1>2, <1>3, <1>4 DEF InTime
<1>7. ASSUME ~twice' PROVE DeletedOnce' /\ CountsAddUp'
  <2>1. CountsAddUp'
    BY <1>1, <1>2, <1>5, <1>7, CountsKept
  <2>2. \A a, b \in ops' : a.kind = "delete" /\ b.kind = "delete" /\ a.c = b.c => a = b
    BY <1>1, <1>2, <1>7, StillOnce
  <2>3. \A x \in ops' : x.kind = "delete" /\ x.at = "sent" => comments'[x.c].at = "live"
    <3>1. \A x \in ops \ {o} : x.kind = "delete" => x.c # o.c
      BY <1>1, <1>7 DEF CommentInv, DeletedOnce
    <3> QED
      BY <1>1, <1>2, <1>3, <1>4, <1>7, <3>1 DEF CommentInv, DeletedOnce
  <2> QED
    BY <2>1, <2>2, <2>3 DEF DeletedOnce
<1> QED
  BY <1>2, <1>5, <1>6, <1>7 DEF CommentInv

\* The server counts, or the request is lost.
LEMMA CountSafe ==
    ASSUME CommentInv, NEW o \in ops, Count(o) \/ LoseComment(o)
    PROVE  CommentInv'
<1>1. PICK stage \in {"counted", "failed"} : Move(o, stage)
  BY DEF Count, LoseComment
<1> DEFINE q == [o EXCEPT !.at = stage]
<1>2. /\ q \in Ops /\ q.kind = o.kind /\ q.c = o.c /\ q.n = o.n /\ q.at = stage
      /\ ops' = (ops \ {o}) \cup {q} /\ ops' \subseteq Ops /\ IsFiniteSet(ops')
      /\ \A a, b \in ops' : Known(a, b)
  BY <1>1, MovedFits
<1> HIDE DEF q
<1>3. UNCHANGED <<comments, deletes, draft>>
  BY DEF Count, LoseComment, serverSide
<1>4. total' \in Int /\ replies' \in [CommentIds -> Int] /\ twice' \in BOOLEAN
  <2>1. total \in Int /\ replies \in [CommentIds -> Int] /\ twice \in BOOLEAN
    BY DEF CommentInv, CommentTypes
  <2>2. CASE Count(o)
    <3>1. Delta(o) \in Int
      BY DEF Delta
    <3>2. CountOn(o) = 0 => total' = total + Delta(o) /\ UNCHANGED replies
      BY <2>2 DEF Count
    <3>3. CountOn(o) # 0 => /\ replies' = [replies EXCEPT ![CountOn(o)] = @ + Delta(o)]
                            /\ UNCHANGED total
      BY <2>2 DEF Count
    <3>4. UNCHANGED twice
      BY <2>2 DEF Count
    <3> QED
      BY <2>1, <3>1, <3>2, <3>3, <3>4
  <2>3. CASE LoseComment(o)
    BY <2>1, <2>3 DEF LoseComment, serverSide
  <2> QED
    BY <2>2, <2>3
<1>5. CommentTypes'
  BY <1>2, <1>3, <1>4 DEF CommentInv, CommentTypes
<1>6. \A x \in ops' : InTime(x)'
  BY <1>1, <1>2, <1>3 DEF CommentInv, InTime
<1>7. ASSUME ~twice' PROVE DeletedOnce' /\ CountsAddUp'
  <2>1. ~twice
    BY <1>7 DEF Count, LoseComment, CommentInv, CommentTypes
  <2>2. \A a, b \in ops' : a.kind = "delete" /\ b.kind = "delete" /\ a.c = b.c => a = b
    BY <1>2, <2>1, StillOnce
  <2>3. \A x \in ops' : x.kind = "delete" /\ x.at = "sent" => comments'[x.c].at = "live"
    BY <1>1, <1>2, <1>3, <2>1 DEF CommentInv, DeletedOnce
  <2>4. CASE Count(o)
    BY <1>2, <1>5, <2>1, <2>2, <2>3, <2>4, CountsKept DEF DeletedOnce
  <2>5. CASE LoseComment(o)
    <3>1. o.at # "stored" /\ UNCHANGED <<comments, total, replies>> /\ q.at # "stored"
      <4>1. UNCHANGED <<comments, total, replies>> /\ twice' = (twice \/ o.at = "stored")
            /\ ops' = (ops \ {o}) \cup {[o EXCEPT !.at = "failed"]}
        BY <2>5 DEF LoseComment, serverSide, Move
      <4>2. o.at # "stored"
        BY <1>7, <4>1
      <4>3. q.at # "stored"
        BY <1>1, <1>2
      <4> QED
        BY <4>1, <4>2, <4>3
    <3>2. \A x : (x \in ops' /\ x.at = "stored") <=> (x \in ops /\ x.at = "stored")
      BY <1>2, <3>1
    <3> QED
      BY <2>1, <2>2, <2>3, <3>1, <3>2, CountsStay DEF DeletedOnce
  <2> QED
    BY <2>4, <2>5
<1> QED
  BY <1>2, <1>5, <1>6, <1>7 DEF CommentInv

\* What is written, and the answers.
LEMMA WriteSafe ==
    ASSUME CommentInv,
           \/ \E b \in Boxes : \E t \in Texts : Write(b, t)
           \/ \E o \in ops : CommentAnswered(o)
    PROVE  CommentInv'
<1>1. /\ UNCHANGED <<comments, total, replies, deletes, twice>> /\ ops' \subseteq ops
      /\ \A x \in ops : x.at = "stored" => x \in ops'
  BY DEF Write, CommentAnswered, serverSide
<1>2. draft' \in [Boxes -> {0} \cup Texts]
  <2>1. draft \in [Boxes -> {0} \cup Texts] /\ ops \subseteq Ops
    BY DEF CommentInv, CommentTypes
  <2>2. ASSUME NEW b \in Boxes, NEW t \in Texts, Write(b, t) PROVE draft' \in [Boxes -> {0} \cup Texts]
    BY <2>1, <2>2 DEF Write
  <2>3. ASSUME NEW o \in ops, CommentAnswered(o) PROVE draft' \in [Boxes -> {0} \cup Texts]
    BY <2>1, <2>3 DEF CommentAnswered, Empties, Ops
  <2> QED
    BY <2>2, <2>3
<1>3. CommentTypes' /\ IsFiniteSet(ops')
  BY <1>1, <1>2, FS_Subset DEF CommentInv, CommentTypes
<1>4. \A x \in ops' : InTime(x)'
  BY <1>1 DEF CommentInv, InTime
<1>5. ~twice' => DeletedOnce'
  BY <1>1 DEF CommentInv, DeletedOnce
<1>6. ~twice' => CountsAddUp'
  BY <1>1, CountsStay
<1> QED
  BY <1>1, <1>3, <1>4, <1>5, <1>6 DEF CommentInv

\* A new request does not move the counters.
LEMMA SentSafe ==
    ASSUME CommentInv, NEW o \in Ops, Sent(o), o.at = "sent",
           UNCHANGED <<comments, total, replies, draft>>,
           deletes' \in deletes..MaxDeletes, twice' \in BOOLEAN, twice => twice',
           InTime(o)', \A x \in ops : Known(x, o) /\ Known(o, x),
           ~twice' /\ o.kind = "delete" =>
             /\ comments[o.c].at = "live"
             /\ \A x \in ops : ~(x.kind = "delete" /\ x.c = o.c)
    PROVE  CommentInv'
<1>1. ops' = ops \cup {o} /\ IsFiniteSet(ops) /\ ops \subseteq Ops
  BY DEF Sent, CommentInv, CommentTypes
<1>2. IsFiniteSet(ops')
  BY <1>1, FS_AddElement
<1>3. deletes \in Nat /\ deletes' \in 0..MaxDeletes /\ deletes <= deletes' /\ deletes' \in Nat
  <2>1. deletes \in 0..MaxDeletes /\ MaxDeletes \in Nat
    BY ReadingBounds DEF CommentInv, CommentTypes
  <2> QED
    BY <2>1
<1>4. CommentTypes'
  BY <1>1, <1>3 DEF CommentInv, CommentTypes
<1>5. \A a, b \in ops' : Known(a, b)
  BY <1>1 DEF CommentInv, Known
<1>6. \A x \in ops : x.n \in Nat
  BY <1>1 DEF Ops
<1>7. \A x \in ops' : InTime(x)'
  BY <1>1, <1>3, <1>6 DEF CommentInv, InTime
<1>8. ASSUME ~twice' PROVE DeletedOnce' /\ CountsAddUp'
  <2>1. ~twice /\ DeletedOnce
    BY <1>8 DEF CommentInv
  <2>2. DeletedOnce'
    BY <1>1, <1>8, <2>1 DEF DeletedOnce
  <2>3. \A x : (x \in ops' /\ x.at = "stored") <=> (x \in ops /\ x.at = "stored")
    BY <1>1
  <2> QED
    BY <2>1, <2>2, <2>3, CountsStay
<1> QED
  BY <1>2, <1>4, <1>5, <1>7, <1>8 DEF CommentInv

\* A comment is sent, or its deletion.
LEMMA AsksSafe ==
    ASSUME CommentInv, NEW c \in CommentIds, Send(c) \/ Reply(c) \/ DeleteComment(c)
    PROVE  CommentInv'
<1>1. /\ deletes \in 0..MaxDeletes /\ MaxDeletes \in Nat /\ twice \in BOOLEAN
      /\ draft \in [Boxes -> {0} \cup Texts] /\ comments[c] \in CommentRecords
      /\ ops \subseteq Ops
  BY ReadingBounds DEF CommentInv, CommentTypes
<1>2. ASSUME NEW b \in Boxes, Submit(b, c) PROVE CommentInv'
  <2>5. PICK o : o = [n |-> 0, kind |-> "create", c |-> c, box |-> b, text |-> draft[b],
                      at |-> "sent"]
    OBVIOUS
  <2>1. o \in Ops /\ o.kind = "create" /\ o.c = c /\ o.at = "sent"
    BY <1>1, <2>5 DEF Ops
  <2>2. /\ Sent(o) /\ comments[c].at = "none" /\ \A x \in ops : x.c # c
        /\ UNCHANGED <<deletes, comments, total, replies, draft, twice>>
    BY <1>2, <2>5 DEF Submit, Fresh, serverSide
  <2>3. deletes' \in deletes..MaxDeletes
    BY <1>1, <2>2
  <2>4. InTime(o)' /\ \A x \in ops : Known(x, o) /\ Known(o, x)
    BY <2>1, <2>2 DEF InTime, Known
  <2> QED
    BY <1>1, <2>1, <2>2, <2>3, <2>4, SentSafe
<1>3. CASE DeleteComment(c)
  <2>10. PICK o : o = [n |-> deletes', kind |-> "delete", c |-> c, box |-> 0, text |-> 0,
                       at |-> "sent"]
    OBVIOUS
  <2>1. deletes' = deletes + 1 /\ deletes < MaxDeletes
    BY <1>3 DEF DeleteComment
  <2>2. deletes' \in deletes..MaxDeletes /\ deletes' \in Nat /\ deletes \in Nat
    BY <1>1, <2>1
  <2>3. o \in Ops /\ o.kind = "delete" /\ o.c = c /\ o.at = "sent" /\ o.n = deletes'
    BY <2>2, <2>10 DEF Ops, Boxes
  <2>4. /\ Sent(o) /\ comments[c].at # "none"
        /\ UNCHANGED <<comments, total, replies, draft>>
        /\ twice' = (twice \/ comments[c].at = "deleted"
                           \/ \E x \in ops : x.kind = "delete" /\ x.c = c)
    BY <1>3, <2>10 DEF DeleteComment, serverSide
  <2>5. InTime(o)'
    BY <2>2, <2>3, <2>4 DEF InTime
  <2>6. \A x \in ops : x.kind = "delete" => x.n # o.n
    <3>1. \A x \in ops : x.kind = "delete" => x.n <= deletes /\ x.n \in Nat
      BY <1>1 DEF CommentInv, InTime, Ops
    <3> QED
      BY <2>1, <2>2, <2>3, <3>1
  <2>7. \A x \in ops : Known(x, o) /\ Known(o, x)
    BY <2>3, <2>6 DEF Known
  <2>8. ~twice' => comments[c].at = "live" /\ \A x \in ops : ~(x.kind = "delete" /\ x.c = c)
    BY <1>1, <2>4 DEF CommentRecords
  <2>9. twice' \in BOOLEAN /\ (twice => twice')
    BY <1>1, <2>4
  <2> QED
    BY <2>2, <2>3, <2>4, <2>5, <2>7, <2>8, <2>9, SentSafe
<1> QED
  BY <1>2, <1>3 DEF Send, Reply, Boxes

\* Every step of the comments keeps their invariant.
LEMMA CommentStep == CommentInv /\ (CommentNext \/ UNCHANGED commentVars) => CommentInv'
<1> SUFFICES ASSUME CommentInv, CommentNext \/ UNCHANGED commentVars PROVE CommentInv'
  OBVIOUS
<1>1. CASE UNCHANGED commentVars
  <2>1. UNCHANGED <<comments, total, replies, ops, deletes, draft, twice>>
    BY <1>1 DEF commentVars
  <2>2. ~twice' => CountsAddUp'
    BY <2>1, CountsStay
  <2>3. CommentTypes' /\ (\A o \in ops' : InTime(o)') /\ (~twice' => DeletedOnce')
    BY <2>1 DEF CommentInv, CommentTypes, InTime, DeletedOnce
  <2> QED
    BY <2>1, <2>2, <2>3 DEF CommentInv
<1> QED
  BY <1>1, StoreSafe, SoftDeleteSafe, CountSafe, WriteSafe, AsksSafe DEF CommentNext

\* The counters add up as long as they can.
LEMMA CountersAddUp == CommentInv => CountsAddUp
BY DEF CommentInv, CountsAddUp

-----------------------------------------------------------------------------
(* The session in the browser.                                              *)

StoreTypes == [user : BOOLEAN, loading : BOOLEAN, banned : BOOLEAN, token : Tokens]
RequestTypes == [at : Stages, with : Tokens, again : BOOLEAN]
AskTypes == [at : {"quiet", "refresh", "me"}, fine : BOOLEAN]
Steps == {"credentials", "confirmPassword", "email", "asked", "done"}
Crops == {"closed", "loading", "ready"}

SessionTypes == store \in StoreTypes /\ session \in BOOLEAN
NetTypes ==
    /\ req \in [Forms -> RequestTypes] /\ asks \in [Askers -> AskTypes]
    /\ signing \in BOOLEAN /\ leaving \in BOOLEAN
ViewTypes == page \in Views /\ step \in Steps /\ crop \in Crops /\ cropping \in BOOLEAN
SpentTypes == sends \in 0..MaxSends /\ expiries \in 0..MaxExpiries /\ faults \in 0..MaxFaults

\* The parts of AccountTypeOK, before and after a step.
LEMMA AccountParts ==
    /\ AccountTypeOK <=> SessionTypes /\ NetTypes /\ ViewTypes /\ SpentTypes
    /\ AccountTypeOK' <=> SessionTypes' /\ NetTypes' /\ ViewTypes' /\ SpentTypes'
BY DEF AccountTypeOK, SessionTypes, NetTypes, ViewTypes, SpentTypes, StoreTypes, RequestTypes,
   AskTypes, Steps, Crops

\* What the definitions of the model stand for.
LEMMA AccountConstants ==
    /\ NoRequest \in RequestTypes /\ NoAsk \in AskTypes /\ Refreshing \in AskTypes
    /\ NewStore \in StoreTypes /\ SignedIn \in StoreTypes
    /\ NewRequests \in [Forms -> RequestTypes] /\ Mounted \in [Askers -> AskTypes]
<1>1. NoRequest \in RequestTypes /\ NoAsk \in AskTypes /\ Refreshing \in AskTypes
  BY DEF NoRequest, RequestTypes, NoAsk, AskTypes, Refreshing, Stages, Tokens
<1>2. NewStore \in StoreTypes /\ SignedIn \in StoreTypes
  BY DEF NewStore, SignedIn, StoreTypes, Tokens
<1> QED
  BY <1>1, <1>2 DEF NewRequests, Mounted

\* Any page can be the first.
LEMMA AccountStarts == AccountInit => AccountTypeOK
<1> SUFFICES ASSUME AccountInit PROVE AccountTypeOK
  OBVIOUS
<1>1. SpentTypes
  BY AccountBounds DEF AccountInit, SpentTypes
<1>2. SessionTypes /\ NetTypes /\ ViewTypes
  BY AccountConstants DEF AccountInit, SessionTypes, NetTypes, ViewTypes, Steps, Crops
<1> QED
  BY <1>1, <1>2, AccountParts

\* A request is sent within the bound, with the token of the store.
LEMMA DispatchFits ==
    ASSUME AccountTypeOK, NEW f \in Forms, Dispatch(f)
    PROVE  /\ NetTypes' /\ SpentTypes' /\ UNCHANGED <<session, asks, signing, leaving>>
<1>1. SessionTypes /\ NetTypes /\ SpentTypes
  BY AccountParts
<1>2. sends' \in 0..MaxSends
  BY <1>1, AccountBounds DEF Dispatch, SpentTypes
<1>3. [at |-> "sent", with |-> store.token, again |-> FALSE] \in RequestTypes
  BY <1>1 DEF SessionTypes, StoreTypes, RequestTypes, Stages
<1>4. req' \in [Forms -> RequestTypes]
  BY <1>1, <1>3 DEF Dispatch, NetTypes
<1> QED
  BY <1>1, <1>2, <1>4 DEF Dispatch, NetTypes, SpentTypes

\* A request that is over is none.
LEMMA OverFits ==
    ASSUME AccountTypeOK, NEW f \in Forms, Over(f)
    PROVE  req' \in [Forms -> RequestTypes]
BY AccountConstants, AccountParts DEF Over, NetTypes

\* A page that is shown is one of the pages.
LEMMA ShowsFits ==
    ASSUME ViewTypes, NEW v \in Views, Shows(v)
    PROVE  page' \in Views /\ step' \in Steps /\ crop' \in Crops
BY DEF ViewTypes, Shows, Steps, Crops

\* A fault is one of those the bound allows.
LEMMA FaultFits ==
    ASSUME SpentTypes, Fault \/ NoFault
    PROVE  faults' \in 0..MaxFaults
<1>1. faults \in 0..MaxFaults /\ MaxFaults \in Nat
  BY AccountBounds DEF SpentTypes
<1> QED
  BY <1>1 DEF Fault, NoFault

\* The forms send requests of their own.
LEMMA SendingFits == AccountTypeOK /\ Sending => AccountTypeOK'
<1> SUFFICES ASSUME AccountTypeOK, Sending PROVE AccountTypeOK'
  OBVIOUS
<1>1. SessionTypes /\ NetTypes /\ ViewTypes /\ SpentTypes
  BY AccountParts
<1>2. ASSUME NEW f \in Forms, Dispatch(f), UNCHANGED store, ViewTypes' PROVE AccountTypeOK'
  BY <1>1, <1>2, DispatchFits, AccountParts DEF SessionTypes
<1>3. ASSUME NEW f \in Forms, Post(f) PROVE AccountTypeOK'
  BY <1>1, <1>2, <1>3 DEF Post, view_vars, ViewTypes
<1>4. /\ Profile \subseteq Forms /\ Mailed \subseteq Forms
      /\ {"login", "register", "forgot", "email", "resend", "password", "picture", "badge",
          "profile", "preferences", "switches", "reset", "verify"} \subseteq Forms
  BY DEF Forms, Profile, Mailed
<1>5. CASE SaveProfile \/ SavePreferences \/ FlipSwitch \/ UpdateEmail \/ ResendVerification
           \/ ChangePassword \/ PickBadge
  BY <1>3, <1>4, <1>5 DEF SaveProfile, SavePreferences, FlipSwitch, UpdateEmail,
     ResendVerification, ChangePassword, PickBadge
<1>6. CASE SubmitLogin \/ SubmitRegister \/ RequestReset \/ SubmitReset
  <2>1. UNCHANGED <<store, view_vars>> /\ \E f \in Forms : Dispatch(f)
    BY <1>4, <1>6 DEF SubmitLogin, SubmitRegister, RequestReset, SubmitReset
  <2>2. ViewTypes'
    BY <1>1, <2>1 DEF view_vars, ViewTypes
  <2> QED
    BY <1>2, <2>1, <2>2
<1>7. CASE NextStep \/ (\E c \in Crops : SetCrop(c)) \/ UsePhoto \/ CropFails
  <2>1. UNCHANGED <<session_vars, net_vars, page, sends, expiries, faults>>
    BY <1>7 DEF NextStep, SetCrop, UsePhoto, CropFails
  <2>2. step' \in Steps /\ crop' \in Crops /\ cropping' \in BOOLEAN
    BY <1>1, <1>7 DEF NextStep, SetCrop, UsePhoto, CropFails, ViewTypes, Steps
  <2> QED
    BY <1>1, <2>1, <2>2, AccountParts DEF session_vars, net_vars, SessionTypes, NetTypes,
       ViewTypes, SpentTypes
<1>8. CASE ChooseFile \/ ImageLoads \/ CancelCrop
  BY <1>7, <1>8 DEF ChooseFile, ImageLoads, CancelCrop, Crops
<1>9. CASE VerifyEmail
  <2>1. ViewTypes' /\ UNCHANGED store /\ Dispatch("verify")
    BY <1>1, <1>9 DEF VerifyEmail, ViewTypes, Steps
  <2> QED
    BY <1>2, <1>4, <2>1
<1>10. CASE UploadPicture
  <2>1. ViewTypes' /\ UNCHANGED store /\ Dispatch("picture")
    BY <1>1, <1>10 DEF UploadPicture, ViewTypes
  <2> QED
    BY <1>2, <1>4, <2>1
<1> QED
  BY <1>5, <1>6, <1>7, <1>8, <1>9, <1>10 DEF Sending

\* Answers of the server, and refused tokens.
LEMMA AnswersFit ==
    ASSUME AccountTypeOK, NEW f \in Forms, Answered(f)
    PROVE  AccountTypeOK'
<1>1. SessionTypes /\ NetTypes /\ ViewTypes /\ SpentTypes
  BY AccountParts
<1>2. store \in StoreTypes /\ asks \in [Askers -> AskTypes]
  BY <1>1 DEF SessionTypes, NetTypes
<1>3. CASE LoginSucceeds
  <2>1. req' \in [Forms -> RequestTypes]
    BY <1>3, OverFits DEF LoginSucceeds, Forms
  <2>2. store' \in StoreTypes /\ session' \in BOOLEAN /\ asks' \in [Askers -> AskTypes]
    BY <1>2, <1>3, AccountConstants DEF LoginSucceeds
  <2>3. page' \in Views /\ step' \in Steps /\ crop' \in Crops
    <3>1. PICK v \in Views : Shows(v)
      BY <1>3 DEF LoginSucceeds, Views
    <3> QED
      BY <1>1, <3>1, ShowsFits
  <2>4. UNCHANGED <<signing, leaving, cropping, sends, expiries, faults>>
    BY <1>3 DEF LoginSucceeds
  <2> QED
    BY <1>1, <2>1, <2>2, <2>3, <2>4, AccountParts DEF SessionTypes, NetTypes, ViewTypes, SpentTypes
<1>4. CASE RegisterSucceeds
  <2>1. req' \in [Forms -> RequestTypes]
    BY <1>4, OverFits DEF RegisterSucceeds, Forms
  <2>2. store' \in StoreTypes /\ session' \in BOOLEAN
    BY <1>2, <1>4, AccountConstants DEF RegisterSucceeds, StoreTypes
  <2>3. page' \in Views /\ step' \in Steps /\ crop' \in Crops
    BY <1>1, <1>4, ShowsFits DEF RegisterSucceeds, Views
  <2>4. UNCHANGED <<asks, signing, leaving, cropping, sends, expiries, faults>>
    BY <1>4 DEF RegisterSucceeds
  <2> QED
    BY <1>1, <2>1, <2>2, <2>3, <2>4, AccountParts DEF SessionTypes, NetTypes, ViewTypes, SpentTypes
<1>5. ASSUME Over(f), store' \in StoreTypes, session' \in BOOLEAN, step' \in Steps, crop' \in Crops,
             faults' \in 0..MaxFaults,
             UNCHANGED <<asks, signing, leaving, page, cropping, sends, expiries>>
      PROVE  AccountTypeOK'
  <2>1. req' \in [Forms -> RequestTypes]
    BY <1>5, OverFits
  <2> QED
    BY <1>1, <1>5, <2>1, AccountParts DEF SessionTypes, NetTypes, ViewTypes, SpentTypes
<1>6. CASE f = "login" /\ LoginBanned
  <2>1. store' \in StoreTypes
    BY <1>2, <1>6 DEF LoginBanned, StoreTypes
  <2> QED
    BY <1>1, <1>5, <1>6, <2>1 DEF LoginBanned, view_vars, SessionTypes, ViewTypes, SpentTypes
<1>7. CASE ProfileSaved(f) \/ (f = "picture" /\ PictureSaved)
  <2>1. store' \in StoreTypes
    BY <1>2, <1>7 DEF ProfileSaved, PictureSaved, WithUser, StoreTypes
  <2> QED
    BY <1>1, <1>5, <1>7, <2>1 DEF ProfileSaved, PictureSaved, view_vars, SessionTypes, ViewTypes,
       SpentTypes, Crops
<1>8. CASE LinkUsed(f)
  <2>1. step' \in Steps /\ session' \in BOOLEAN
    BY <1>1, <1>8 DEF LinkUsed, ViewTypes, SessionTypes, Steps
  <2> QED
    BY <1>1, <1>5, <1>8, <2>1 DEF LinkUsed, SessionTypes, ViewTypes, SpentTypes
<1>9. CASE Saved(f)
  BY <1>1, <1>5, <1>9 DEF Saved, session_vars, view_vars, SessionTypes, ViewTypes, SpentTypes
<1>10. CASE RequestFails(f)
  <2>1. faults' \in 0..MaxFaults
    BY <1>1, <1>10, FaultFits DEF RequestFails
  <2> QED
    BY <1>1, <1>5, <1>10, <2>1 DEF RequestFails, session_vars, view_vars, SessionTypes, ViewTypes
<1>11. CASE Unauthorized(f)
  <2>1. req \in [Forms -> RequestTypes]
    BY <1>1 DEF NetTypes
  <2> DEFINE r1 == [req[f] EXCEPT !.at = "queued"]
             r2 == [req[f] EXCEPT !.at = "refreshing", !.again = TRUE]
  <2>2. req[f] \in RequestTypes
    BY <2>1
  <2>4. r1 \in RequestTypes /\ r2 \in RequestTypes
    BY <2>2 DEF RequestTypes, Stages
  <2>5. \/ req' = [req EXCEPT ![f] = r1] /\ UNCHANGED asks
        \/ req' = [req EXCEPT ![f] = r2] /\ asks' = [asks EXCEPT !["client"] = Refreshing]
    BY <1>11 DEF Unauthorized
  <2> HIDE DEF r1, r2
  <2>3. req' \in [Forms -> RequestTypes] /\ asks' \in [Askers -> AskTypes]
    BY <1>2, <2>1, <2>4, <2>5, AccountConstants
  <2> QED
    BY <1>1, <1>11, <2>3, AccountParts DEF Unauthorized, session_vars, view_vars, SessionTypes,
       NetTypes, ViewTypes, SpentTypes
<1> QED
  BY <1>3, <1>4, <1>6, <1>7, <1>8, <1>9, <1>10, <1>11 DEF Answered

\* The client's refresh, and the reload that follows a refused one.
LEMMA ClientFits == AccountTypeOK /\ (ClientAnswered \/ Reload) => AccountTypeOK'
<1> SUFFICES ASSUME AccountTypeOK, ClientAnswered \/ Reload PROVE AccountTypeOK'
  OBVIOUS
<1>1. SessionTypes /\ NetTypes /\ ViewTypes /\ SpentTypes
  BY AccountParts
<1>2. /\ store \in StoreTypes /\ asks \in [Askers -> AskTypes] /\ req \in [Forms -> RequestTypes]
      /\ session \in BOOLEAN
  BY <1>1 DEF SessionTypes, NetTypes
<1>3. CASE ClientRefreshed
  <2>1. store' \in StoreTypes
    BY <1>2, <1>3 DEF ClientRefreshed, StoreTypes, Tokens
  <2>2. \A r \in RequestTypes : Repeated(Released(r)) \in RequestTypes
    <3>1. \A r \in RequestTypes : Released(r) \in RequestTypes
      BY DEF Released, RequestTypes, Stages, Tokens
    <3>2. \A r \in RequestTypes : Repeated(r) \in RequestTypes
      BY DEF Repeated, RequestTypes, Stages, Tokens
    <3> QED
      BY <3>1, <3>2
  <2>3. req' \in [Forms -> RequestTypes]
    BY <1>2, <1>3, <2>2 DEF ClientRefreshed
  <2>4. asks' \in [Askers -> AskTypes]
    <3>1. \A b \in Askers : [asks[b] EXCEPT !.fine = @ /\ asks[b].at # "refresh"] \in AskTypes
      BY <1>2 DEF AskTypes
    <3> QED
      BY <1>3, <3>1, AccountConstants DEF ClientRefreshed, Rotated
  <2> QED
    BY <1>1, <1>3, <2>1, <2>3, <2>4, AccountParts DEF ClientRefreshed, view_vars, SessionTypes,
       NetTypes, ViewTypes, SpentTypes
<1>4. CASE ClientRefreshFails
  <2>1. faults' \in 0..MaxFaults /\ session' \in BOOLEAN
    BY <1>1, <1>2, <1>4, FaultFits DEF ClientRefreshFails, RefreshRefused
  <2>2. req' \in [Forms -> RequestTypes] /\ asks' \in [Askers -> AskTypes]
    BY <1>2, <1>4, AccountConstants DEF ClientRefreshFails
  <2> QED
    BY <1>1, <1>4, <2>1, <2>2, AccountParts DEF ClientRefreshFails, view_vars, SessionTypes,
       NetTypes, ViewTypes, SpentTypes
<1>5. CASE Reload
  <2>1. /\ store' \in StoreTypes /\ req' \in [Forms -> RequestTypes]
        /\ asks' \in [Askers -> AskTypes]
    BY <1>5, AccountConstants DEF Reload
  <2>2. page' \in Views /\ step' \in Steps /\ crop' \in Crops /\ session' \in BOOLEAN
    BY <1>2, <1>5 DEF Reload, Views, Steps, Crops
  <2> QED
    BY <1>1, <1>5, <2>1, <2>2, AccountParts DEF Reload, SessionTypes, NetTypes, ViewTypes, SpentTypes
<1> QED
  BY <1>3, <1>4, <1>5 DEF ClientAnswered

\* The store's own requests, signing out, and what expires.
LEMMA StoreFits ==
    ASSUME AccountTypeOK,
           \/ \E a \in Askers : StoreRefreshed(a) \/ MeArrives(a) \/ RefreshAuthFails(a)
           \/ LogOut \/ LoggedOut \/ Expire
    PROVE  AccountTypeOK'
<1>1. SessionTypes /\ NetTypes /\ ViewTypes /\ SpentTypes
  BY AccountParts
<1>2. /\ store \in StoreTypes /\ asks \in [Askers -> AskTypes] /\ req \in [Forms -> RequestTypes]
      /\ session \in BOOLEAN
  BY <1>1 DEF SessionTypes, NetTypes
<1>3. SignedOutStore \in StoreTypes /\ WithUser \in StoreTypes
  BY <1>2 DEF SignedOutStore, WithUser, StoreTypes, Tokens
<1>4. ASSUME NEW a \in Askers, StoreRefreshed(a) PROVE AccountTypeOK'
  <2>1. store' \in StoreTypes
    BY <1>2, <1>4 DEF StoreRefreshed, StoreTypes, Tokens
  <2>2. asks' \in [Askers -> AskTypes]
    <3>1. \A b \in Askers : [asks[b] EXCEPT !.fine = @ /\ asks[b].at # "refresh"] \in AskTypes
      BY <1>2 DEF AskTypes
    <3>2. [at |-> "me", fine |-> TRUE] \in AskTypes
      BY DEF AskTypes
    <3> QED
      BY <1>4, <3>1, <3>2 DEF StoreRefreshed, Rotated
  <2> QED
    BY <1>1, <1>4, <2>1, <2>2, AccountParts DEF StoreRefreshed, view_vars, SessionTypes, NetTypes,
       ViewTypes, SpentTypes
<1>5. ASSUME NEW a \in Askers, MeArrives(a) PROVE AccountTypeOK'
  <2>1. store' \in StoreTypes /\ asks' \in [Askers -> AskTypes]
    BY <1>2, <1>3, <1>5, AccountConstants DEF MeArrives
  <2> QED
    BY <1>1, <1>5, <2>1, AccountParts DEF MeArrives, view_vars, SessionTypes, NetTypes, ViewTypes,
       SpentTypes
<1>6. ASSUME NEW a \in Askers, RefreshAuthFails(a) PROVE AccountTypeOK'
  <2>1. store' \in StoreTypes /\ asks' \in [Askers -> AskTypes]
    BY <1>2, <1>3, <1>6, AccountConstants DEF RefreshAuthFails
  <2>2. faults' \in 0..MaxFaults /\ session' \in BOOLEAN
    BY <1>1, <1>2, <1>6, FaultFits DEF RefreshAuthFails, RefreshRefused
  <2> QED
    BY <1>1, <1>6, <2>1, <2>2, AccountParts DEF RefreshAuthFails, view_vars, SessionTypes, NetTypes,
       ViewTypes, SpentTypes
<1>7. CASE LogOut
  BY <1>1, <1>7, AccountParts DEF LogOut, session_vars, view_vars, SessionTypes, NetTypes,
     ViewTypes, SpentTypes
<1>8. CASE LoggedOut
  <2>1. page' \in Views /\ step' \in Steps /\ crop' \in Crops
    <3>1. CASE leaving
      BY <1>1, <1>8, <3>1 DEF LoggedOut, ViewTypes
    <3>2. CASE ~leaving
      BY <1>1, <1>8, <3>2, ShowsFits DEF LoggedOut, Views
    <3> QED
      BY <3>1, <3>2
  <2>2. store' \in StoreTypes /\ session' \in BOOLEAN
    BY <1>2, <1>3, <1>8 DEF LoggedOut
  <2> QED
    BY <1>1, <1>8, <2>1, <2>2, AccountParts DEF LoggedOut, SessionTypes, NetTypes, ViewTypes,
       SpentTypes
<1>9. CASE Expire
  <2>1. expiries' \in 0..MaxExpiries
    BY <1>1, <1>9, AccountBounds DEF Expire, SpentTypes
  <2>2. store' \in StoreTypes /\ session' \in BOOLEAN
    BY <1>2, <1>9 DEF Expire, StoreTypes, Tokens
  <2>3. req' \in [Forms -> RequestTypes]
    <3>1. \A f \in Forms : [req[f] EXCEPT !.with = IF @ = "good" THEN "old" ELSE @] \in RequestTypes
      BY <1>2 DEF RequestTypes, Tokens
    <3> QED
      BY <1>9, <3>1 DEF Expire
  <2>4. asks' \in [Askers -> AskTypes]
    <3>1. \A a \in Askers : [asks[a] EXCEPT !.fine = @ /\ asks[a].at # "me"] \in AskTypes
      BY <1>2 DEF AskTypes
    <3> QED
      BY <1>9, <3>1 DEF Expire
  <2> QED
    BY <1>1, <1>9, <2>1, <2>2, <2>3, <2>4, AccountParts DEF Expire, view_vars, SessionTypes, NetTypes,
       ViewTypes, SpentTypes
<1> QED
  BY <1>4, <1>5, <1>6, <1>7, <1>8, <1>9

\* Every step of the session keeps to the types.
LEMMA AccountStep == AccountTypeOK /\ (AccountNext \/ UNCHANGED AccountVars) => AccountTypeOK'
<1> SUFFICES ASSUME AccountTypeOK, AccountNext \/ UNCHANGED AccountVars PROVE AccountTypeOK'
  OBVIOUS
<1>1. SessionTypes /\ NetTypes /\ ViewTypes /\ SpentTypes
  BY AccountParts
<1>2. CASE UNCHANGED AccountVars
  BY <1>1, <1>2, AccountParts DEF AccountVars, session_vars, net_vars, view_vars, SessionTypes,
     NetTypes, ViewTypes, SpentTypes
<1>3. ASSUME NEW v \in Views, GoTo(v) PROVE AccountTypeOK'
  <2>1. page' \in Views /\ step' \in Steps /\ crop' \in Crops
    BY <1>1, <1>3, ShowsFits DEF GoTo
  <2> QED
    BY <1>1, <1>3, <2>1, AccountParts DEF GoTo, session_vars, net_vars, SessionTypes, NetTypes,
       ViewTypes, SpentTypes
<1>4. CASE Protect \/ LeaveForm \/ \E v \in Views : Follows(v)
  <2>1. "login" \in Views /\ "home" \in Views
    BY DEF Views
  <2> QED
    BY <1>3, <1>4, <2>1 DEF Protect, LeaveForm, Follows
<1> QED
  BY <1>2, <1>4, SendingFits, AnswersFit, ClientFits, StoreFits DEF AccountNext


\* Who waits in the client waits for its refresh (isRefreshing, failedQueue): there is one
\* while anyone does, started by just one request, which will not start another.
QueueServed ==
    /\ asks["client"].at \in {"quiet", "refresh"}
    /\ \A f \in Forms : req[f].at \in {"queued", "refreshing"} => asks["client"].at = "refresh"
    /\ asks["client"].at = "refresh" => \E f \in Forms : req[f].at = "refreshing"
    /\ \A f, g \in Forms : req[f].at = "refreshing" /\ req[g].at = "refreshing" => f = g
    /\ \A f \in Forms : req[f].at = "refreshing" => req[f].again

\* Nobody waits on a page that is just loaded.
LEMMA QueueStarts == AccountInit => QueueServed
<1> SUFFICES ASSUME AccountInit PROVE QueueServed
  OBVIOUS
<1>1. asks["client"].at = "quiet"
  BY DEF AccountInit, Mounted, NoAsk, Askers
<1>2. ASSUME NEW f \in Forms PROVE req[f].at = "quiet"
  BY DEF AccountInit, NewRequests, NoRequest
<1> QED
  BY <1>1, <1>2 DEF QueueServed

\* Nobody starts or stops waiting, and the client's refresh goes on.
WaitersKept ==
    /\ asks'["client"].at = asks["client"].at
    /\ \A f \in Forms : \/ req'[f].at = req[f].at /\ req'[f].again = req[f].again
                        \/ req[f].at \in {"quiet", "sent"} /\ req'[f].at \in {"quiet", "sent"}

\* What does not touch the queue leaves it served.
LEMMA KeptIsServed == QueueServed /\ WaitersKept => QueueServed'
<1> SUFFICES ASSUME QueueServed, WaitersKept PROVE QueueServed'
  OBVIOUS
<1>1. ASSUME NEW f \in Forms
      PROVE  /\ req'[f].at \in {"queued", "refreshing"} <=> req[f].at \in {"queued", "refreshing"}
             /\ req'[f].at = "refreshing" <=> req[f].at = "refreshing"
             /\ req'[f].at = "refreshing" /\ req[f].again => req'[f].again
  BY DEF WaitersKept
<1>2. asks'["client"].at = asks["client"].at
  BY DEF WaitersKept
<1> QED
  BY <1>1, <1>2 DEF QueueServed

\* A request that is sent, or answered, was not waiting.
LEMMA SentOrAnswered ==
    ASSUME AccountTypeOK, NEW f \in Forms, Dispatch(f) \/ (Over(f) /\ asks'["client"] = asks["client"])
    PROVE  WaitersKept
<1>1. req \in [Forms -> RequestTypes]
  BY AccountParts DEF NetTypes
<1>2. asks'["client"] = asks["client"]
  BY DEF Dispatch
<1>3. ASSUME NEW g \in Forms, g # f PROVE req'[g] = req[g]
  BY <1>1, <1>3 DEF Dispatch, Over
<1>4. req[f].at \in {"quiet", "sent"} /\ req'[f].at \in {"quiet", "sent"}
  <2>1. CASE Dispatch(f)
    <3>1. req' = [req EXCEPT ![f] = [at |-> "sent", with |-> store.token, again |-> FALSE]]
      BY <2>1 DEF Dispatch
    <3> QED
      BY <1>1, <2>1, <3>1 DEF Dispatch
  <2>2. CASE Over(f)
    BY <1>1, <2>2 DEF Over, NoRequest
  <2> QED
    BY <2>1, <2>2
<1> QED
  BY <1>2, <1>3, <1>4 DEF WaitersKept

\* Forms send, and are answered.
LEMMA FormsServed ==
    ASSUME AccountTypeOK, QueueServed, Sending \/ \E f \in Forms : Answered(f)
    PROVE  QueueServed'
<1>1. req \in [Forms -> RequestTypes] /\ asks \in [Askers -> AskTypes]
  BY AccountParts DEF NetTypes
<1>2. UNCHANGED <<req, asks>> => QueueServed'
  BY KeptIsServed DEF WaitersKept
<1>3. CASE Sending
  <2>1. (\E f \in Forms : Dispatch(f)) \/ UNCHANGED <<req, asks>>
    BY <1>3 DEF Sending, SubmitLogin, NextStep, SubmitRegister, RequestReset, SubmitReset,
       VerifyEmail, SaveProfile, SavePreferences, FlipSwitch, UpdateEmail, ResendVerification,
       ChangePassword, PickBadge, Post, ChooseFile, ImageLoads, CancelCrop, SetCrop, UsePhoto,
       UploadPicture, CropFails, net_vars, Forms, Profile, Mailed
  <2> QED
    BY <1>2, <2>1, SentOrAnswered, KeptIsServed
<1>4. ASSUME NEW f \in Forms, Answered(f), ~Unauthorized(f) PROVE QueueServed'
  <2>1. Over(f) /\ asks'["client"] = asks["client"]
    BY <1>1, <1>4 DEF Answered, LoginSucceeds, LoginBanned, RegisterSucceeds, PictureSaved,
       ProfileSaved, LinkUsed, Saved, RequestFails, Askers
  <2> QED
    BY <2>1, SentOrAnswered, KeptIsServed
<1>5. ASSUME NEW f \in Forms, Unauthorized(f) PROVE QueueServed'
  <2>1. req[f].at = "sent" /\ \A g \in Forms : g # f => req'[g] = req[g]
    BY <1>1, <1>5 DEF Unauthorized
  <2>2. CASE asks["client"].at = "refresh"
    <3>1. UNCHANGED asks /\ req'[f].at = "queued"
      BY <1>1, <1>5, <2>2 DEF Unauthorized, RequestTypes
    <3> QED
      BY <2>1, <2>2, <3>1 DEF QueueServed
  <2>3. CASE asks["client"].at # "refresh"
    <3>1. /\ asks'["client"].at = "refresh"
          /\ req'[f].at = "refreshing" /\ req'[f].again
      BY <1>1, <1>5, <2>3 DEF Unauthorized, RequestTypes, Refreshing, Askers
    <3>2. \A g \in Forms : g # f => req'[g].at \notin {"queued", "refreshing"}
      BY <2>1, <2>3 DEF QueueServed
    <3> QED
      BY <3>1, <3>2 DEF QueueServed
  <2> QED
    BY <2>2, <2>3
<1> QED
  BY <1>3, <1>4, <1>5

\* The refresh ends, and with it all waiting.
LEMMA RefreshServes ==
    ASSUME AccountTypeOK, QueueServed, ClientAnswered \/ Reload
    PROVE  QueueServed'
<1>1. req \in [Forms -> RequestTypes] /\ asks \in [Askers -> AskTypes]
  BY AccountParts DEF NetTypes
<1>2. asks'["client"].at = "quiet"
  BY <1>1 DEF ClientAnswered, ClientRefreshed, ClientRefreshFails, Reload, Rotated, Mounted, NoAsk,
     Askers
<1>3. NoRequest.at = "quiet"
  BY DEF NoRequest
<1>4. ASSUME NEW f \in Forms PROVE req'[f].at \notin {"queued", "refreshing"}
  <2>1. CASE ClientRefreshed
    <3>1. \A r \in RequestTypes : Repeated(Released(r)).at \notin {"queued", "refreshing"}
      BY DEF Repeated, Released, RequestTypes
    <3>2. req'[f] = Repeated(Released(req[f]))
      BY <2>1 DEF ClientRefreshed
    <3> QED
      BY <1>1, <3>1, <3>2
  <2>2. CASE ClientRefreshFails
    <3>1. req'[f] = IF req[f].at \in {"refreshing", "queued"} THEN NoRequest ELSE req[f]
      BY <2>2 DEF ClientRefreshFails
    <3> QED
      BY <1>3, <3>1
  <2>3. CASE Reload
    <3>1. req'[f] = NoRequest
      BY <2>3 DEF Reload, NewRequests
    <3> QED
      BY <1>3, <3>1
  <2> QED
    BY <2>1, <2>2, <2>3 DEF ClientAnswered
<1> QED
  BY <1>2, <1>4 DEF QueueServed

\* Every step of the session leaves the queue served.
LEMMA QueueStep ==
    AccountTypeOK /\ QueueServed /\ (AccountNext \/ UNCHANGED AccountVars) => QueueServed'
<1> SUFFICES ASSUME AccountTypeOK, QueueServed, AccountNext \/ UNCHANGED AccountVars
             PROVE  QueueServed'
  OBVIOUS
<1>1. req \in [Forms -> RequestTypes] /\ asks \in [Askers -> AskTypes]
  BY AccountParts DEF NetTypes
<1>2. UNCHANGED <<req, asks>> => QueueServed'
  BY KeptIsServed DEF WaitersKept
<1>3. ASSUME UNCHANGED req, asks'["client"].at = asks["client"].at PROVE QueueServed'
  BY <1>3, KeptIsServed DEF WaitersKept
<1>4. ASSUME NEW a \in Askers, StoreRefreshed(a) \/ MeArrives(a) \/ RefreshAuthFails(a)
      PROVE  QueueServed'
  <2>1. a # "client"
    BY <1>4 DEF StoreRefreshed, MeArrives, RefreshAuthFails, QueueServed
  <2>2. UNCHANGED req /\ asks'["client"].at = asks["client"].at
    BY <1>1, <1>4, <2>1 DEF StoreRefreshed, MeArrives, RefreshAuthFails, Rotated, AskTypes, Askers
  <2> QED
    BY <1>3, <2>2
<1>5. CASE Expire
  <2>1. asks'["client"].at = asks["client"].at
    BY <1>1, <1>5 DEF Expire, AskTypes, Askers
  <2>2. \A f \in Forms : req'[f].at = req[f].at /\ req'[f].again = req[f].again
    BY <1>1, <1>5 DEF Expire, RequestTypes
  <2> QED
    BY <2>1, <2>2, KeptIsServed DEF WaitersKept
<1>6. CASE \/ LogOut \/ LoggedOut \/ Protect \/ LeaveForm \/ (\E v \in Views : Follows(v))
           \/ UNCHANGED AccountVars
  BY <1>2, <1>6 DEF LogOut, LoggedOut, Protect, LeaveForm, Follows, GoTo, net_vars, AccountVars
<1> QED
  BY <1>4, <1>5, <1>6, FormsServed, RefreshServes DEF AccountNext

-----------------------------------------------------------------------------
(* All parts.                                                               *)

\* The counters of failures and losses, which several parts use.
Bounded == failures \in 0..MaxFailures /\ losses \in 0..MaxLosses

ReadingInv ==
    /\ ListInv /\ ExploreInv /\ NoteTypes
    /\ PageInv /\ ButtonInv /\ CommentInv
    /\ AccountTypeOK /\ QueueServed /\ Bounded

\* A failure, and a loss, is one of those the bound allows.
LEMMA LossesFit ==
    ASSUME Bounded
    PROVE  /\ Fail \/ UNCHANGED failures => failures' \in 0..MaxFailures
           /\ Lose \/ UNCHANGED losses => losses' \in 0..MaxLosses
<1>1. failures \in 0..MaxFailures /\ MaxFailures \in Nat
  BY BrowsingBounds DEF Bounded
<1>2. losses \in 0..MaxLosses /\ MaxLosses \in Nat
  BY ReadingBounds DEF Bounded
<1> QED
  BY <1>1, <1>2 DEF Fail, Lose

\* The parts of Browsing share nothing but the number of failures.
LEMMA BrowsingApart ==
    /\ ListNext => UNCHANGED <<exploreVars, noteVars>> /\ (Fail \/ UNCHANGED failures)
    /\ ExploreNext => UNCHANGED <<listVars, noteVars>> /\ UNCHANGED failures
    /\ NoteNext => UNCHANGED <<listVars, exploreVars>> /\ (Fail \/ UNCHANGED failures)
<1>1. ListNext => UNCHANGED <<exploreVars, noteVars>> /\ (Fail \/ UNCHANGED failures)
  BY DEF ListNext, AddItem, RemoveItem, Refetch, LoadMore, ReadPage, PagesArrive, PagesFail, Others
<1>2. ExploreNext => UNCHANGED <<listVars, noteVars>> /\ UNCHANGED failures
  BY DEF ExploreNext, ToggleTag, PickDate, ClearAll, FireSearch, PressEnter, ClearSearch, Leave,
     TypeSearch, Arrive, Visit, Back, Change, NotExplore
<1>3. NoteNext => UNCHANGED <<listVars, exploreVars>> /\ (Fail \/ UNCHANGED failures)
  BY DEF NoteNext, Notify, MarkRead, StoreMark, Marked, PollCount, PollList, ReadCount,
     CountArrives, ReadList, ListArrives, PollFails, MarkAll, HideTab, NotNotes
<1> QED
  BY <1>1, <1>2, <1>3

\* The parts of Reading share nothing but the number of losses.
LEMMA ReadingApart ==
    /\ PageNext => UNCHANGED <<buttonVars, commentVars>> /\ (Lose \/ UNCHANGED losses)
    /\ ButtonNext => UNCHANGED <<pageVars, commentVars>> /\ (Lose \/ UNCHANGED losses)
    /\ CommentNext => UNCHANGED <<pageVars, buttonVars>> /\ (Lose \/ UNCHANGED losses)
<1>1. PageNext => UNCHANGED <<buttonVars, commentVars>> /\ (Lose \/ UNCHANGED losses)
  BY DEF PageNext, DiaryLoads, DiaryFails, AskDiary, EditElsewhere, TryPassword, KeyLoads,
     KeyFromCache, KeyHeld, KeyRefused, Decrypted, Reopen, NotPage
<1>2. ButtonNext => UNCHANGED <<pageVars, commentVars>> /\ (Lose \/ UNCHANGED losses)
  BY DEF ButtonNext, Like, Bookmark, Follow, LikeOfComment, Toggle, Reread, Remount, Serve,
     LoseClick, ClickAnswered, NotButton
<1>3. CommentNext => UNCHANGED <<pageVars, buttonVars>> /\ (Lose \/ UNCHANGED losses)
  BY DEF CommentNext, Write, Send, Reply, Submit, DeleteComment, StoreComment, SoftDelete, Count,
     LoseComment, CommentAnswered, NotComments
<1> QED
  BY <1>1, <1>2, <1>3

\* Every step of a part keeps the invariants of all parts.
LEMMA ReadingStep ==
    ReadingInv /\ [Next]_<<part, BrowsingVars, ReadingVars, AccountVars>> => ReadingInv'
<1> SUFFICES ASSUME ReadingInv, [Next]_<<part, BrowsingVars, ReadingVars, AccountVars>>
             PROVE  ReadingInv'
  OBVIOUS
<1> DEFINE BrowsingStep == /\ ListNext \/ UNCHANGED listVars
                           /\ ExploreNext \/ UNCHANGED exploreVars
                           /\ NoteNext \/ UNCHANGED noteVars
                           /\ Fail \/ UNCHANGED failures
           PagesStep == /\ PageNext \/ UNCHANGED pageVars
                        /\ ButtonNext \/ UNCHANGED buttonVars
                        /\ CommentNext \/ UNCHANGED commentVars
                        /\ Lose \/ UNCHANGED losses
<1>1. UNCHANGED BrowsingVars => BrowsingStep
  BY DEF BrowsingVars
<1>2. UNCHANGED ReadingVars => PagesStep
  BY DEF ReadingVars
<1>3. ListNext \/ ExploreNext \/ NoteNext => BrowsingStep
  BY BrowsingApart
<1>4. PageNext \/ ButtonNext \/ CommentNext => PagesStep
  BY ReadingApart
<1>5. BrowsingStep /\ PagesStep /\ (AccountNext \/ UNCHANGED AccountVars)
  <2>1. CASE UNCHANGED <<part, BrowsingVars, ReadingVars, AccountVars>>
    BY <1>1, <1>2, <2>1
  <2>2. CASE Next
    BY <1>1, <1>2, <1>3, <1>4, <2>2 DEF Next, FormsNext
  <2> QED
    BY <2>1, <2>2
<1>6. ListInv' /\ ExploreInv' /\ NoteTypes'
  BY <1>5, ListStep, ExploreStep, NotesStep DEF ReadingInv
<1>7. PageInv' /\ ButtonInv' /\ CommentInv'
  BY <1>5, PageStep, ButtonStep, CommentStep DEF ReadingInv
<1>8. AccountTypeOK' /\ QueueServed'
  BY <1>5, AccountStep, QueueStep DEF ReadingInv
<1>9. Bounded'
  BY <1>5, LossesFit DEF ReadingInv, Bounded
<1> QED
  BY <1>6, <1>7, <1>8, <1>9 DEF ReadingInv

\* The pages keep the invariants of their parts, whatever the users, the server, the
\* timers and the network do.
THEOREM ReadingInvariant == Spec => []ReadingInv
<1>1. Init => ReadingInv
  <2> SUFFICES ASSUME Init PROVE ReadingInv
    OBVIOUS
  <2>1. BrowsingInit /\ ReadingInit /\ AccountInit
    BY DEF Init
  <2>2. Bounded
    <3>1. failures = 0 /\ losses = 0
      BY <2>1 DEF BrowsingInit, ReadingInit
    <3> QED
      BY <3>1, BrowsingBounds, ReadingBounds DEF Bounded
  <2> QED
    BY <2>1, <2>2, ListStarts, ExploreStarts, NotesStart, PageStarts, ButtonStarts, CommentsStart,
       AccountStarts, QueueStarts DEF ReadingInv
<1> QED
  BY <1>1, ReadingStep, PTL DEF Spec

\* Lists, filters, notifications, the page of a diary, its buttons and comments, and the
\* session keep to their types.
THEOREM ReadingTypes == Spec => []TypeOK
<1>1. ReadingInv => BrowsingTypeOK
  BY DEF ReadingInv, ListInv, ListTypes, ExploreInv, ExploreTypes, NoteTypes, Bounded,
     BrowsingTypeOK
<1>2. ReadingInv => ReadingTypeOK
  BY DEF ReadingInv, PageInv, PageTypes, ButtonInv, ButtonTypes, CommentInv, CommentTypes, Bounded,
     ReadingTypeOK
<1>3. ReadingInv => TypeOK
  BY <1>1, <1>2 DEF ReadingInv, TypeOK
<1> QED
  BY <1>3, ReadingInvariant, PTL

\* Whoever waits in the client's queue is waited for (lib/api/client.ts): a refresh is under
\* way, and one request, which will not be renewed again, answers for it.
THEOREM NobodyWaitsInVain == Spec => []QueueServed
<1>1. ReadingInv => QueueServed
  BY DEF ReadingInv
<1> QED
  BY <1>1, ReadingInvariant, PTL

\* Lists that are read page by page have no holes (hooks/use-social.ts, use-diaries.ts), of
\* whatever length the pages are and however many items are added between two reads.
THEOREM ListsHaveNoHoles == Spec => []NoHoles
<1>1. ReadingInv => NoHoles
  BY ListHasNoHoles DEF ReadingInv
<1> QED
  BY <1>1, ReadingInvariant, PTL

\* The store, the address and the box of the explore page agree when nothing is pending
\* (components/explore), however many navigations overlapped.
THEOREM FiltersAndAddressAgree == Spec => []FiltersAgree
<1>1. ReadingInv => FiltersAgree
  BY SettledAgree DEF ReadingInv
<1> QED
  BY <1>1, ReadingInvariant, PTL

\* The owner of a private diary always has a way to its text (diary/[id]/page.tsx).
THEOREM TextHasAWay == Spec => []WayForward
<1>1. ReadingInv => WayForward
  BY WayIsForward DEF ReadingInv
<1> QED
  BY <1>1, ReadingInvariant, PTL

\* An optimistic button that can be trusted shows what the server has (hooks/use-social.ts),
\* after any number of clicks, failures and visits.
THEOREM ButtonsAreTrue == Spec => []ButtonTrue
<1>1. ReadingInv => ButtonTrue
  BY ButtonIsTrue DEF ReadingInv
<1> QED
  BY <1>1, ReadingInvariant, PTL

\* The counters of comments and replies are right, with what is on the way
\* (services/comment_service.py), for any number of comments and requests.
THEOREM CommentCountsAddUp == Spec => []CountsAddUp
<1>1. ReadingInv => CountsAddUp
  BY CountersAddUp DEF ReadingInv
<1> QED
  BY <1>1, ReadingInvariant, PTL


=============================================================================
