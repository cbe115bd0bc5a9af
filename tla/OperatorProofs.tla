--------------------------- MODULE OperatorProofs ----------------------------
(***************************************************************************)
(* What operators work with, for every value of the constants: the queue   *)
(* of dead letters with its report, and the command line with its three    *)
(* subcommands.                                                            *)
(*                                                                         *)
(* A row of the queue has a place, which grows as newer letters arrive,    *)
(* and a reader misses nothing below its offset.  Each subcommand has an   *)
(* invariant that says what its property leaves out: that                  *)
(* consecutive_errors is the run of errors at the end of recent; that the  *)
(* stellar.toml that was read names every SEP supported throughout; that   *)
(* nothing is left of a playground call once it is over.                   *)
(***************************************************************************)
EXTENDS DeadLetterQueue, AnchorKitCli, FiniteSetTheorems, TLAPS

-----------------------------------------------------------------------------
(* The dead-letter queue.  The place of a row is the number of rows ahead of *)
(* it; the places of n rows are 0 to n - 1, each taken once, so a page that  *)
(* is not full is the last one.                                              *)

\* No two letters in the table have the same id, its primary key.
UniqueIds ==
  \A i, j \in DOMAIN dead_letters : dead_letters[i].id = dead_letters[j].id => i = j

\* Times can be compared, and a table has finitely many rows.
LEMMA TableRows ==
  ASSUME dead_letters \in Seq(Letter)
  PROVE  /\ \A i \in DOMAIN dead_letters : dead_letters[i].dead_lettered_at \in Nat
         /\ DOMAIN dead_letters = 1..count /\ count \in Nat
         /\ IsFiniteSet(DOMAIN dead_letters) /\ Cardinality(DOMAIN dead_letters) = count
<1>1. DOMAIN dead_letters = 1..count /\ count \in Nat
  BY DEF count
<1>2. \A i \in DOMAIN dead_letters : dead_letters[i].dead_lettered_at \in Nat
  <2> SUFFICES ASSUME NEW i \in DOMAIN dead_letters PROVE dead_letters[i].dead_lettered_at \in Nat
    BY Zenon
  <2>1. dead_letters[i] \in Letter
    OBVIOUS
  <2>2. QED
    BY <2>1, QueueAssumption, ZenonT(30) DEF Letter
<1>3. IsFiniteSet(1..count) /\ Cardinality(1..count) = count
  BY <1>1, FS_Interval
<1>4. QED
  BY <1>1, <1>2, <1>3, Zenon

\* A row that comes before another has a lower place.
LEMMA Places ==
  ASSUME dead_letters \in Seq(Letter)
  PROVE  /\ \A i \in DOMAIN dead_letters :
              IsFiniteSet(ahead(i)) /\ place(i) \in Nat /\ place(i) < count
         /\ \A i, j \in DOMAIN dead_letters :
              /\ comesBefore(i, j) => place(i) < place(j)
              /\ i # j => comesBefore(i, j) \/ comesBefore(j, i)
<1>1. ASSUME NEW i \in DOMAIN dead_letters
      PROVE  IsFiniteSet(ahead(i)) /\ place(i) \in Nat /\ place(i) < count
  <2>1. ahead(i) \in SUBSET (DOMAIN dead_letters) /\ i \notin ahead(i)
    BY TableRows DEF ahead, comesBefore
  <2>2. /\ IsFiniteSet(ahead(i)) /\ Cardinality(ahead(i)) <= count
        /\ count = Cardinality(ahead(i)) => DOMAIN dead_letters = ahead(i)
    BY <2>1, TableRows, FS_Subset, Zenon
  <2>3. Cardinality(ahead(i)) \in Nat
    BY <2>2, FS_CardinalityType, Zenon
  <2>4. QED
    BY <1>1, <2>1, <2>2, <2>3, TableRows DEF place
<1>2. ASSUME NEW i \in DOMAIN dead_letters, NEW j \in DOMAIN dead_letters, comesBefore(i, j)
      PROVE  place(i) < place(j)
  <2>1. ahead(i) \in SUBSET ahead(j)
    <3> SUFFICES ASSUME NEW k \in DOMAIN dead_letters, comesBefore(k, i) PROVE comesBefore(k, j)
      BY Zenon DEF ahead
    <3>1. QED
      BY <1>2, TableRows DEF comesBefore
  <2>2. i \in ahead(j) /\ i \notin ahead(i)
    BY <1>2, TableRows DEF ahead, comesBefore
  <2>3. /\ Cardinality(ahead(i)) <= Cardinality(ahead(j))
        /\ Cardinality(ahead(j)) = Cardinality(ahead(i)) => ahead(j) = ahead(i)
    BY <1>1, <2>1, FS_Subset, Zenon
  <2>4. QED
    BY <1>1, <2>2, <2>3 DEF place
<1>3. \A i, j \in DOMAIN dead_letters : i # j => comesBefore(i, j) \/ comesBefore(j, i)
  BY TableRows DEF comesBefore
<1>4. QED
  BY <1>1, <1>2, <1>3, Zenon

\* Every place below the number of rows is taken.
LEMMA PlacesTaken ==
  ASSUME dead_letters \in Seq(Letter), NEW k \in Nat, k < count
  PROVE  \E i \in DOMAIN dead_letters : place(i) = k
<1> DEFINE D == DOMAIN dead_letters
           f == [i \in D |-> place(i)]
           T == 0..(count - 1)
<1>1. f \in [D -> T]
  BY Places, TableRows
<1>2. ASSUME NEW i \in D, NEW j \in D, f[i] = f[j]
      PROVE  i = j
  <2>1. place(i) = place(j) /\ place(i) \in Nat /\ place(j) \in Nat
    BY <1>2, Places, Zenon
  <2>2. QED
    BY <2>1, Places
<1>3. f \in Injection(D, T)
  BY <1>1, <1>2, Zenon DEF Injection, IsInjective
<1>4. IsFiniteSet(T) /\ Cardinality(T) = count
  <2>1. count \in Nat /\ count > 0
    BY TableRows
  <2>2. IsFiniteSet(0..(count - 1)) /\ Cardinality(0..(count - 1)) = IF 0 > count - 1 THEN 0 ELSE (count - 1) - 0 + 1
    BY <2>1, FS_Interval
  <2>3. QED
    BY <2>1, <2>2
<1>5. Cardinality(D) = Cardinality(T)
  BY <1>4, TableRows, Zenon
<1> HIDE DEF f
<1>6. f \in Surjection(D, T)
  BY <1>3, <1>4, <1>5, FS_Injection, Zenon
<1>7. k \in T
  BY TableRows
<1>8. PICK i \in D : f[i] = k
  BY <1>6, <1>7, Zenon DEF Surjection
<1>9. QED
  BY <1>8, Zenon DEF f

\* A page has as many rows as its limit allows and the table has from its offset.
LEMMA PageFilled ==
  ASSUME dead_letters \in Seq(Letter), UniqueIds, NEW limit \in Nat, NEW offset \in Nat,
         NEW n \in Nat, n <= limit, offset + n <= count
  PROVE  IsFiniteSet(list(limit, offset)) /\ Cardinality(list(limit, offset)) \in Nat
         /\ n <= Cardinality(list(limit, offset))
<1> DEFINE S == {j \in DOMAIN dead_letters : offset <= place(j) /\ place(j) < offset + limit}
           T == list(limit, offset)
           h == [i \in S |-> dead_letters[i]]
           K == offset..(offset + n - 1)
           row(k) == CHOOSE i \in DOMAIN dead_letters : place(i) = k
           g == [k \in K |-> dead_letters[row(k)]]
<1>1. IsFiniteSet(S)
  <2>1. S \in SUBSET (DOMAIN dead_letters)
    BY Zenon
  <2>2. QED
    BY <2>1, TableRows, FS_Subset, Zenon
<1>2. T = {dead_letters[i] : i \in S}
  BY Zenon DEF list
<1>3. h \in Surjection(S, T)
  BY <1>2, Zenon DEF Surjection
<1>4. IsFiniteSet(T) /\ Cardinality(T) \in Nat
  BY <1>1, <1>3, FS_Surjection, FS_CardinalityType, Zenon
<1>5. ASSUME NEW k \in K
      PROVE  row(k) \in S /\ place(row(k)) = k
  <2>1. k \in Nat /\ k < count /\ offset <= k /\ k < offset + limit
    BY TableRows
  <2>2. \E i \in DOMAIN dead_letters : place(i) = k
    BY <2>1, PlacesTaken, Zenon
  <2>3. row(k) \in DOMAIN dead_letters /\ place(row(k)) = k
    BY <2>2, Zenon
  <2> HIDE DEF row
  <2>4. QED
    BY <2>1, <2>3, Zenon
<1> HIDE DEF row, S, T
<1>6. g \in [K -> T]
  BY <1>2, <1>5, Zenon
<1>7. ASSUME NEW k \in K, NEW m \in K, g[k] = g[m]
      PROVE  k = m
  <2>1. dead_letters[row(k)] = dead_letters[row(m)]
    BY <1>7, Zenon
  <2>2. row(k) \in DOMAIN dead_letters /\ row(m) \in DOMAIN dead_letters
    BY <1>5, Zenon DEF S
  <2>3. row(k) = row(m)
    BY <2>1, <2>2, Zenon DEF UniqueIds
  <2>4. QED
    BY <1>5, <2>3, Zenon
<1>8. g \in Injection(K, T)
  BY <1>6, <1>7, Zenon DEF Injection, IsInjective
<1> HIDE DEF g
<1>9. Cardinality(K) <= Cardinality(T)
  BY <1>4, <1>8, FS_Injection, Zenon
<1>10. Cardinality(K) = n
  <2>1. Cardinality(K) = IF offset > offset + n - 1 THEN 0 ELSE (offset + n - 1) - offset + 1
    BY FS_Interval
  <2>2. QED
    BY <2>1
<1>11. QED
  BY <1>4, <1>9, <1>10, Zenon DEF T

\* Letters have ids of their own.
TableInv == dead_letters \in Seq(Letter) /\ UniqueIds

\* What a report counted is still there.
ReportInv ==
  /\ report \in [at : {"idle", "counted", "done"}, total : Nat, recent : SUBSET Letter]
  /\ report.at # "idle" => report.total <= count
  /\ ReportAgreesWithItself

\* The letters known to a reader that stand below its offset have been found: a
\* store moves rows to higher places only.
WalkInv ==
  /\ walk \in [at : {"idle", "walking", "done"}, offset : Nat, found : SUBSET LetterId]
  /\ walk.at = "walking" =>
       /\ known \subseteq ids(Rows)
       /\ \A i \in DOMAIN dead_letters :
            dead_letters[i].id \in known /\ place(i) < walk.offset => dead_letters[i].id \in walk.found
  /\ WalkMissesNothing

\* The three together.
QueueInv == TableInv /\ ReportInv /\ WalkInv

\* What none of a step's assignments touch.
LEMMA QueueUntouched ==
  ASSUME QueueInv, dead_letters' = dead_letters
  PROVE  /\ TableInv'
         /\ report' = report => ReportInv'
         /\ walk' = walk /\ known' = known => WalkInv'
<1>1. TableInv'
  BY Zenon DEF QueueInv, TableInv, UniqueIds
<1>2. ASSUME report' = report PROVE ReportInv'
  BY <1>2, Zenon DEF QueueInv, ReportInv, ReportAgreesWithItself, ids, count
<1>3. ASSUME walk' = walk, known' = known PROVE WalkInv'
  <2>1. ids(Rows)' = ids(Rows)
    BY Zenon DEF ids, Rows
  <2>2. \A i : place(i)' = place(i)
    BY Zenon DEF place, ahead, comesBefore
  <2>3. QED
    BY <1>3, <2>1, <2>2, Zenon DEF QueueInv, WalkInv, WalkMissesNothing
<1>4. QED
  BY <1>1, <1>2, <1>3, Zenon

\* Another letter in the table.
LEMMA StoreKeeps ==
  ASSUME QueueInv, NEW l \in Letter, store(l)
  PROVE  QueueInv'
<1> DEFINE D == DOMAIN dead_letters
           k == Len(dead_letters) + 1
<1>1. /\ dead_letters' = Append(dead_letters, l) /\ l.id \notin ids(Rows)
      /\ report' = report /\ walk' = walk /\ known' = known
  BY Zenon DEF store
<1>2. /\ dead_letters \in Seq(Letter) /\ UniqueIds
  BY Zenon DEF QueueInv, TableInv
<1>3. /\ dead_letters' \in Seq(Letter) /\ dead_letters'[k] = l
      /\ DOMAIN dead_letters' = D \cup {k} /\ k \notin D /\ count' = count + 1
      /\ DOMAIN dead_letters' = 1..k /\ k \in Nat
      /\ \A i \in D : dead_letters'[i] = dead_letters[i]
  BY <1>1, <1>2 DEF count
<1>4. \A i \in D : dead_letters[i].id # l.id
  BY <1>1, Zenon DEF ids, Rows
<1>5. UniqueIds'
  BY <1>2, <1>3, <1>4, Zenon DEF UniqueIds
<1>6. (report.at # "idle" => report.total <= count)'
  BY <1>1, <1>3, TableRows, <1>2 DEF QueueInv, ReportInv
<1>7. ReportAgreesWithItself'
  <2> SUFFICES ASSUME report.at = "done"
               PROVE  ReportAgreesWithItself'
    BY <1>1, ZenonT(30) DEF ReportAgreesWithItself
  <2>1. report.total \in Nat /\ report.total <= count
    BY Zenon DEF QueueInv, ReportInv
  <2>2. \A i \in 1..report.total : i \in D /\ dead_letters'[i] = dead_letters[i]
    BY <2>1, <1>2, <1>3, TableRows
  <2>3. QED
    BY <1>1, <2>2, Zenon DEF ReportAgreesWithItself, QueueInv, ReportInv, ids
<1>8. ASSUME walk'.at = "walking"
      PROVE  /\ known' \subseteq ids(Rows)'
             /\ \A i \in DOMAIN dead_letters' :
                  (dead_letters[i].id \in known /\ place(i) < walk.offset => dead_letters[i].id \in walk.found)'
  <2>1. /\ known \subseteq ids(Rows)
        /\ \A i \in D : dead_letters[i].id \in known /\ place(i) < walk.offset => dead_letters[i].id \in walk.found
        /\ walk.offset \in Nat
    BY <1>1, <1>8, Zenon DEF QueueInv, WalkInv
  <2>2. ids(Rows) \subseteq ids(Rows)'
    BY <1>3, Zenon DEF ids, Rows
  <2>3. ASSUME NEW i \in DOMAIN dead_letters', dead_letters'[i].id \in known', (place(i) < walk.offset)'
        PROVE  dead_letters'[i].id \in walk'.found
    <3>1. i \in D
      BY <2>1, <2>3, <1>1, <1>3, Zenon
    <3>2. ahead(i) \in SUBSET (ahead(i)')
      <4> SUFFICES ASSUME NEW j \in D, comesBefore(j, i) PROVE comesBefore(j, i)' /\ j \in DOMAIN dead_letters'
        BY Zenon DEF ahead
      <4>1. QED
        BY <3>1, <1>3, Zenon DEF comesBefore
    <3>3. IsFiniteSet(ahead(i)')
      <4>1. ahead(i)' \in SUBSET (1..k)
        BY <1>3, Zenon DEF ahead
      <4>2. IsFiniteSet(1..k)
        BY <1>3, FS_Interval
      <4>3. QED
        BY <4>1, <4>2, FS_Subset, Zenon
    <3>4. Cardinality(ahead(i)) <= Cardinality(ahead(i)') /\ Cardinality(ahead(i)') \in Nat
      BY <3>2, <3>3, FS_Subset, FS_CardinalityType, Zenon
    <3>5. place(i) < walk.offset
      <4>1. place(i) \in Nat
        BY <3>1, <1>2, Places, Zenon
      <4>2. place(i) <= place(i)' /\ place(i)' \in Nat
        BY <3>4, Zenon DEF place
      <4>3. QED
        BY <4>1, <4>2, <2>1, <2>3, <1>1
    <3>6. QED
      BY <3>1, <3>5, <2>1, <2>3, <1>1, <1>3, Zenon
  <2>4. QED
    BY <1>1, <2>1, <2>2, <2>3, Zenon
<1>9. WalkMissesNothing'
  BY <1>1, Zenon DEF QueueInv, WalkInv, WalkMissesNothing
<1>10. QED
  <2>1. TableInv'
    BY <1>3, <1>5, Zenon DEF TableInv
  <2>2. ReportInv'
    BY <1>1, <1>6, <1>7, Zenon DEF QueueInv, ReportInv
  <2>3. WalkInv'
    BY <1>1, <1>8, <1>9, Zenon DEF QueueInv, WalkInv
  <2>4. QED
    BY <2>1, <2>2, <2>3, Zenon DEF QueueInv

\* The second query of a report.
LEMMA ReportKeeps ==
  ASSUME QueueInv, reportLists
  PROVE  QueueInv'
<1> DEFINE page == list(ReportLimit, 0)
<1>1. /\ report.at = "counted" /\ report' = [report EXCEPT !.at = "done", !.recent = page]
      /\ dead_letters' = dead_letters /\ walk' = walk /\ known' = known
  BY Zenon DEF reportLists
<1>2. /\ dead_letters \in Seq(Letter) /\ UniqueIds /\ report.total \in Nat /\ report.total <= count
  BY <1>1, Zenon DEF QueueInv, TableInv, ReportInv
<1>3. page \in SUBSET Letter
  BY <1>2 DEF list
<1> HIDE DEF page
<1>4. report' = [at |-> "done", total |-> report.total, recent |-> page]
  BY <1>1, Zenon DEF QueueInv, ReportInv
<1>5. Cardinality(page) >= IF report.total < ReportLimit THEN report.total ELSE ReportLimit
  <2> DEFINE n == IF report.total < ReportLimit THEN report.total ELSE ReportLimit
  <2>1. n \in Nat /\ n <= ReportLimit /\ 0 + n <= count /\ ReportLimit \in Nat /\ 0 \in Nat
    BY <1>2, QueueAssumption, TableRows
  <2> HIDE DEF n
  <2>2. n <= Cardinality(page) /\ Cardinality(page) \in Nat
    BY <1>2, <2>1, PageFilled, Zenon DEF page
  <2>3. QED
    BY <2>1, <2>2, Zenon DEF n
<1>6. ASSUME NEW i \in 1..report.total, NEW l \in page, dead_letters[i].id \notin ids(page)
      PROVE  dead_letters[i].dead_lettered_at <= l.dead_lettered_at
  <2>1. PICK j \in DOMAIN dead_letters : l = dead_letters[j] /\ 0 <= place(j) /\ place(j) < 0 + ReportLimit
    BY Zenon DEF page, list
  <2>2. i \in DOMAIN dead_letters
    BY <1>2, TableRows
  <2>3. ~(0 <= place(i) /\ place(i) < 0 + ReportLimit)
    BY <1>6, <2>2, Zenon DEF page, list, ids
  <2>4. place(i) \in Nat /\ place(j) \in Nat
    BY <1>2, <2>1, <2>2, Places, Zenon
  <2>5. place(j) < place(i)
    BY <2>1, <2>3, <2>4, QueueAssumption
  <2>6. comesBefore(j, i)
    BY <1>2, <2>1, <2>2, <2>4, <2>5, Places
  <2>7. QED
    BY <1>2, <2>1, <2>2, <2>6, TableRows DEF comesBefore
<1>7. ReportAgreesWithItself'
  BY <1>1, <1>4, <1>5, <1>6, Zenon DEF ReportAgreesWithItself, ids
<1>8. QED
  <2>1. report' \in [at : {"idle", "counted", "done"}, total : Nat, recent : SUBSET Letter]
    BY <1>2, <1>3, <1>4, Zenon
  <2>2. report'.total = report.total /\ count' = count
    BY <1>1, <1>4, Zenon DEF count
  <2>3. ReportInv'
    BY <1>2, <1>7, <2>1, <2>2, Zenon DEF ReportInv
  <2>4. QED
    BY <1>1, <2>3, QueueUntouched, Zenon DEF QueueInv

\* A page of a walk: the last one, when it is not full.
LEMMA PageKeeps ==
  ASSUME QueueInv, list_dead_letters
  PROVE  QueueInv'
<1>1. PICK page : page = list(PageLimit, walk.offset)
  BY Zenon
<1>2. /\ walk.at = "walking"
      /\ walk' = [at |-> IF Cardinality(page) < PageLimit THEN "done" ELSE "walking",
                  offset |-> walk.offset + PageLimit, found |-> walk.found \cup ids(page)]
      /\ dead_letters' = dead_letters /\ report' = report /\ known' = known
  BY <1>1, Zenon DEF list_dead_letters
<1>3. /\ dead_letters \in Seq(Letter) /\ UniqueIds /\ walk.offset \in Nat /\ walk.found \subseteq LetterId
      /\ known \subseteq ids(Rows) /\ PageLimit \in Nat
      /\ \A i \in DOMAIN dead_letters :
           dead_letters[i].id \in known /\ place(i) < walk.offset => dead_letters[i].id \in walk.found
  BY <1>2, QueueAssumption, Zenon DEF QueueInv, TableInv, WalkInv
<1>4. \A i \in DOMAIN dead_letters : place(i) \in Nat /\ place(i) < count /\ count \in Nat
  BY <1>3, Places, TableRows, Zenon
<1>5. ASSUME NEW i \in DOMAIN dead_letters, dead_letters[i].id \in known, place(i) < walk.offset + PageLimit
      PROVE  dead_letters[i].id \in walk.found \cup ids(page)
  <2>1. CASE place(i) < walk.offset
    BY <1>3, <1>5, <2>1, Zenon
  <2>2. CASE walk.offset <= place(i)
    <3>1. dead_letters[i] \in page
      BY <1>1, <1>5, <2>2, Zenon DEF list
    <3>2. QED
      BY <3>1, Zenon DEF ids
  <2>3. QED
    BY <1>3, <1>4, <2>1, <2>2
<1>6. ids(page) \subseteq LetterId
  <2>1. page \subseteq Letter
    BY <1>1, <1>3 DEF list
  <2>2. QED
    BY <2>1, Zenon DEF ids, Letter
<1>7. walk' \in [at : {"idle", "walking", "done"}, offset : Nat, found : SUBSET LetterId]
  BY <1>2, <1>3, <1>6
<1>8. walk'.offset = walk.offset + PageLimit /\ walk'.found = walk.found \cup ids(page)
  BY <1>2, Zenon
<1>9. ASSUME walk'.at = "done"
      PROVE  known \subseteq walk'.found
  <2>1. Cardinality(page) < PageLimit
    BY <1>2, <1>9, Zenon
  <2>2. ~(walk.offset + PageLimit <= count)
    <3> SUFFICES ASSUME walk.offset + PageLimit <= count PROVE FALSE
      BY Zenon
    <3>1. PageLimit <= Cardinality(page) /\ Cardinality(page) \in Nat
      <4>1. PageLimit <= PageLimit
        BY <1>3
      <4>2. /\ PageLimit <= Cardinality(list(PageLimit, walk.offset))
            /\ Cardinality(list(PageLimit, walk.offset)) \in Nat
        BY <4>1, <1>3, PageFilled, Zenon
      <4>3. QED
        BY <4>2, <1>1, Zenon
    <3>2. QED
      BY <2>1, <3>1, <1>3
  <2>3. ASSUME NEW x \in known
        PROVE  x \in walk'.found
    <3>1. PICK i \in DOMAIN dead_letters : x = dead_letters[i].id
      BY <1>3, Zenon DEF ids, Rows
    <3>2. place(i) < walk.offset + PageLimit
      BY <1>3, <1>4, <2>2
    <3>3. QED
      BY <3>1, <3>2, <1>5, <1>8, Zenon
  <2>4. QED
    BY <2>3, Zenon
<1>10. ids(Rows)' = ids(Rows) /\ \A i : place(i)' = place(i)
  BY <1>2, Zenon DEF ids, Rows, place, ahead, comesBefore
<1>11. WalkInv'
  BY <1>2, <1>3, <1>5, <1>7, <1>8, <1>9, <1>10, Zenon DEF WalkInv, WalkMissesNothing
<1>12. QED
  BY <1>2, <1>11, QueueUntouched, Zenon DEF QueueInv

\* The invariant of the queue, step by step.
LEMMA QueueInvKept ==
  ASSUME QueueInv, [QueueNext]_queueVars
  PROVE  QueueInv'
<1>1. CASE \E l \in Letter : store(l)
  BY <1>1, StoreKeeps, Zenon
<1>2. CASE reportCounts
  <2>1. /\ report' = [at |-> "counted", total |-> count, recent |-> {}]
        /\ dead_letters' = dead_letters /\ walk' = walk /\ known' = known
    BY <1>2, Zenon DEF reportCounts
  <2>2. ReportInv'
    <3>1. count \in Nat /\ count' = count
      BY <2>1, TableRows, Zenon DEF QueueInv, TableInv, count
    <3>2. report' \in [at : {"idle", "counted", "done"}, total : Nat, recent : SUBSET Letter]
      BY <2>1, <3>1, Zenon
    <3>3. report'.at = "counted" /\ report'.total = count
      BY <2>1, Zenon
    <3>4. count <= count
      BY <3>1
    <3>5. QED
      BY <3>1, <3>2, <3>3, <3>4, Zenon DEF ReportInv, ReportAgreesWithItself
  <2>3. QED
    BY <2>1, <2>2, QueueUntouched, Zenon DEF QueueInv
<1>3. CASE reportLists
  BY <1>3, ReportKeeps, Zenon
<1>4. CASE walkBegins
  <2>1. /\ walk' = [at |-> "walking", offset |-> 0, found |-> {}] /\ known' = ids(Rows)
        /\ dead_letters' = dead_letters /\ report' = report
    BY <1>4, Zenon DEF walkBegins
  <2>2. \A i \in DOMAIN dead_letters : place(i) \in Nat /\ place(i)' = place(i)
    BY <2>1, Places, Zenon DEF QueueInv, TableInv, place, ahead, comesBefore
  <2>3. ids(Rows)' = ids(Rows)
    BY <2>1, Zenon DEF ids, Rows
  <2>4. WalkInv'
    <3>1. /\ walk' \in [at : {"idle", "walking", "done"}, offset : Nat, found : SUBSET LetterId]
          /\ walk'.at = "walking" /\ walk'.offset = 0
      BY <2>1, Zenon
    <3>2. known' \subseteq ids(Rows)'
      BY <2>1, <2>3, Zenon
    <3>3. \A i \in DOMAIN dead_letters' : ~(place(i)' < walk'.offset)
      BY <2>1, <2>2, <3>1
    <3>4. WalkMissesNothing'
      BY <3>1, Zenon DEF WalkMissesNothing
    <3>5. QED
      BY <3>1, <3>2, <3>3, <3>4, Zenon DEF WalkInv
  <2>5. QED
    BY <2>1, <2>4, QueueUntouched, Zenon DEF QueueInv
<1>5. CASE list_dead_letters
  BY <1>5, PageKeeps, Zenon
<1>6. CASE queryFails
  <2>1. dead_letters' = dead_letters /\ known' = known
    BY <1>6, Zenon DEF queryFails
  <2>2. CASE report' = NoReport /\ walk' = walk
    <3>1. ReportInv'
      BY <2>2, Zenon DEF ReportInv, ReportAgreesWithItself, NoReport
    <3>2. QED
      BY <2>1, <2>2, <3>1, QueueUntouched, Zenon DEF QueueInv
  <2>3. CASE walk' = NoWalk /\ report' = report
    <3>1. WalkInv'
      BY <2>3, Zenon DEF WalkInv, WalkMissesNothing, NoWalk
    <3>2. QED
      BY <2>1, <2>3, <3>1, QueueUntouched, Zenon DEF QueueInv
  <2>4. QED
    BY <1>6, <2>2, <2>3, Zenon DEF queryFails
<1>7. CASE UNCHANGED queueVars
  BY <1>7, QueueUntouched, Zenon DEF queueVars, QueueInv
<1>8. QED
  BY <1>1, <1>2, <1>3, <1>4, <1>5, <1>6, <1>7, Zenon DEF QueueNext

\* The invariant of the queue holds in every reachable state.
THEOREM QueueInvCorrect == QueueSpec => []QueueInv
<1>1. QueueInit => QueueInv
  <2> SUFFICES ASSUME QueueInit PROVE QueueInv
    BY Zenon
  <2>1. TableInv
    BY DEF QueueInit, TableInv, UniqueIds
  <2>2. ReportInv
    BY Zenon DEF QueueInit, ReportInv, ReportAgreesWithItself, NoReport
  <2>3. WalkInv
    BY Zenon DEF QueueInit, WalkInv, WalkMissesNothing, NoWalk
  <2>4. QED
    BY <2>1, <2>2, <2>3, Zenon DEF QueueInv
<1>2. QueueInv /\ [QueueNext]_queueVars => QueueInv'
  BY QueueInvKept, Zenon
<1>3. QED
  BY <1>1, <1>2, PTL DEF QueueSpec

\* A report agrees with itself and a reader who pages through the queue misses no
\* letter, for any number of letters, times and limits and however many are
\* stored between two queries (dead_letter.rs:99-118, monitor.rs:38-46).
THEOREM ReadersCorrect == QueueSpec => []ReadersMissNothing
<1>1. QueueInv => ReadersMissNothing
  BY Zenon DEF QueueInv, ReportInv, WalkInv, ReadersMissNothing
<1>2. QED
  BY <1>1, QueueInvCorrect, PTL

\* A page that starts within the table has no more rows than the table from there.
LEMMA PageWithin ==
  ASSUME dead_letters \in Seq(Letter), NEW limit \in Nat, NEW offset \in Nat, offset <= count
  PROVE  Cardinality(list(limit, offset)) \in Nat /\ Cardinality(list(limit, offset)) <= count - offset
<1> DEFINE S == {j \in DOMAIN dead_letters : offset <= place(j) /\ place(j) < offset + limit}
           T == list(limit, offset)
           K == offset..(count - 1)
           h == [i \in S |-> dead_letters[i]]
           p == [i \in S |-> place(i)]
<1>1. count \in Nat
  BY TableRows, Zenon
<1>2. T = {dead_letters[i] : i \in S}
  BY Zenon DEF list
<1>3. h \in Surjection(S, T)
  BY <1>2, Zenon DEF Surjection
<1>4. \A i \in DOMAIN dead_letters : place(i) \in Nat /\ place(i) < count
  BY Places, Zenon
<1>5. p \in [S -> K]
  BY <1>1, <1>4
<1>6. ASSUME NEW i \in S, NEW j \in S, p[i] = p[j]
      PROVE  i = j
  <2>1. place(i) = place(j) /\ place(i) \in Nat /\ place(j) \in Nat
    BY <1>4, <1>6, Zenon
  <2>2. QED
    BY <2>1, Places
<1>7. p \in Injection(S, K)
  BY <1>5, <1>6, Zenon DEF Injection, IsInjective
<1>8. IsFiniteSet(K) /\ Cardinality(K) = count - offset
  <2>1. IsFiniteSet(K) /\ Cardinality(K) = IF offset > count - 1 THEN 0 ELSE (count - 1) - offset + 1
    BY <1>1, FS_Interval
  <2>2. QED
    BY <1>1, <2>1
<1> HIDE DEF S, T, K, h, p
<1>9. IsFiniteSet(S) /\ Cardinality(S) <= Cardinality(K)
  BY <1>7, <1>8, FS_Injection, Zenon
<1>10. IsFiniteSet(T) /\ Cardinality(T) <= Cardinality(S)
  BY <1>3, <1>9, FS_Surjection, Zenon
<1>11. Cardinality(S) \in Nat /\ Cardinality(T) \in Nat
  BY <1>9, <1>10, FS_CardinalityType, Zenon
<1>12. QED
  BY <1>1, <1>8, <1>9, <1>10, <1>11 DEF T

\* A table whose letters have ids of their own has no more rows than there are ids.
LEMMA RowsBounded ==
  ASSUME dead_letters \in Seq(Letter), UniqueIds
  PROVE  count \in Nat /\ Cardinality(LetterId) \in Nat /\ count <= Cardinality(LetterId)
<1> DEFINE D == DOMAIN dead_letters
           f == [i \in D |-> dead_letters[i].id]
<1>1. f \in [D -> LetterId]
  <2>1. \A i \in D : dead_letters[i] \in Letter
    OBVIOUS
  <2>2. QED
    BY <2>1, Zenon DEF Letter
<1>2. f \in Injection(D, LetterId)
  BY <1>1, Zenon DEF Injection, IsInjective, UniqueIds
<1> HIDE DEF f
<1>3. Cardinality(D) <= Cardinality(LetterId)
  BY <1>2, QueueAssumption, FS_Injection, Zenon
<1>4. QED
  BY <1>3, TableRows, QueueAssumption, FS_CardinalityType, Zenon

\* A reader asks for the next page only while its offset lies within the table.
OffsetInv ==
  /\ known \subseteq LetterId
  /\ walk.at = "walking" => walk.offset <= count
  /\ walk.offset <= Cardinality(LetterId) + PageLimit

\* The offset stays within bounds: a page that is full ends within the table.
LEMMA OffsetKept ==
  ASSUME QueueInv, OffsetInv, [QueueNext]_queueVars
  PROVE  OffsetInv'
<1>0. /\ count \in Nat /\ Cardinality(LetterId) \in Nat /\ count <= Cardinality(LetterId)
      /\ PageLimit \in Nat /\ dead_letters \in Seq(Letter)
      /\ walk \in [at : {"idle", "walking", "done"}, offset : Nat, found : SUBSET LetterId]
  BY RowsBounded, QueueAssumption, Zenon DEF QueueInv, TableInv, WalkInv
<1>1. CASE \E l \in Letter : store(l)
  <2>1. count' = count + 1 /\ walk' = walk /\ known' = known
    BY <1>0, <1>1 DEF store, count
  <2>2. QED
    BY <1>0, <2>1 DEF OffsetInv
<1>2. CASE walkBegins
  <2>1. ids(Rows) \subseteq LetterId
    <3>1. Rows \subseteq Letter
      BY <1>0 DEF Rows
    <3>2. QED
      BY <3>1, Zenon DEF ids, Letter
  <2>2. QED
    BY <1>0, <1>2, <2>1 DEF walkBegins, OffsetInv, count
<1>3. CASE list_dead_letters
  <2>1. PICK page : page = list(PageLimit, walk.offset)
    BY Zenon
  <2>2. /\ walk.at = "walking" /\ walk.offset \in Nat /\ walk.offset <= count
        /\ walk'.at = IF Cardinality(page) < PageLimit THEN "done" ELSE "walking"
        /\ walk'.offset = walk.offset + PageLimit
        /\ dead_letters' = dead_letters /\ known' = known
    BY <1>0, <1>3, <2>1, Zenon DEF list_dead_letters, OffsetInv
  <2>3. Cardinality(page) \in Nat /\ Cardinality(page) <= count - walk.offset
    <3>1. PICK o \in Nat : o = walk.offset
      BY <2>2, Zenon
    <3>2. QED
      BY <1>0, <2>1, <2>2, <3>1, PageWithin, Zenon
  <2>4. count' = count
    BY <2>2, Zenon DEF count
  <2>5. QED
    BY <1>0, <2>2, <2>3, <2>4 DEF OffsetInv
<1>4. CASE reportCounts \/ reportLists \/ queryFails \/ UNCHANGED queueVars
  <2>1. dead_letters' = dead_letters /\ known' = known /\ (walk' = walk \/ walk' = NoWalk)
    BY <1>4, Zenon DEF reportCounts, reportLists, queryFails, queueVars
  <2>2. QED
    BY <1>0, <2>1 DEF OffsetInv, NoWalk, count
<1>5. QED
  BY <1>1, <1>2, <1>3, <1>4, Zenon DEF QueueNext

\* The queue's variables stay within their types; in particular a reader stops
\* paging at the end of the table, however many letters are stored while it reads
\* (dead_letter.rs:99-118).
THEOREM QueueTypeCorrect == QueueSpec => []QueueTypeOK
<1>1. QueueInit => OffsetInv
  BY QueueAssumption, FS_CardinalityType DEF QueueInit, OffsetInv, NoWalk
<1>2. OffsetInv /\ QueueInv /\ [QueueNext]_queueVars => OffsetInv'
  BY OffsetKept, Zenon
<1>3. QueueInv /\ OffsetInv => QueueTypeOK
  BY QueueAssumption, FS_CardinalityType DEF QueueInv, TableInv, ReportInv, WalkInv, OffsetInv, QueueTypeOK
<1>4. QED
  BY <1>1, <1>2, <1>3, QueueInvCorrect, PTL DEF QueueSpec

-----------------------------------------------------------------------------
(* watch.                                                                  *)

\* The type invariants bound sequences by sets of functions.
LEMMA BoundedSequence ==
  ASSUME NEW S, NEW s \in Seq(S), NEW N \in Nat, Len(s) <= N
  PROVE  \E n \in 0..N : s \in [1..n -> S]
<1>1. Len(s) \in 0..N /\ s \in [1..Len(s) -> S]
  OBVIOUS
<1>2. QED
  BY <1>1, Zenon

\* consecutive_errors is the length of the run of errors at the end of recent.
ErrorsAtTheEnd ==
  /\ consecutive_errors <= Len(recent)
  /\ \A i \in 1..Len(recent) : i > Len(recent) - consecutive_errors => recent[i] = "error"
  /\ consecutive_errors < Len(recent) => recent[Len(recent) - consecutive_errors] # "error"

\* The command has given up when consecutive_errors has reached the limit.
GaveUpAtLimit ==
  /\ at = "gave_up" => consecutive_errors = MAX_RECONNECT_ATTEMPTS
  /\ consecutive_errors = MAX_RECONNECT_ATTEMPTS => at = "gave_up"

\* The types of the watch command's variables.
WatchTypes ==
  /\ transport \in {"LongPoll", "Polling"}
  /\ consecutive_errors \in Nat /\ consecutive_errors <= MAX_RECONNECT_ATTEMPTS
  /\ at \in {"start", "no_client", "request", "backoff", "sleep", "ok", "gave_up"}
  /\ anchorStatus \in 0..FinalWatched
  /\ printed \in -1..FinalWatched
  /\ recent \in Seq(Outcomes) /\ Len(recent) <= MAX_RECONNECT_ATTEMPTS

\* Without a client nothing was asked.
NotAsked == at \in {"start", "no_client"} => recent = << >>

\* The invariant of the watch command.
WatchInv == WatchTypes /\ ErrorsAtTheEnd /\ GaveUpAtLimit /\ OkMeansFinal /\ NotAsked

\* Remember keeps the last outcomes: the new one is the last, and the others keep
\* their distance from the end.
LEMMA RememberSpec ==
  ASSUME NEW outcome \in Outcomes, recent \in Seq(Outcomes),
         Len(recent) <= MAX_RECONNECT_ATTEMPTS, Remember(outcome)
  PROVE  /\ recent' \in Seq(Outcomes)
         /\ Len(recent') <= MAX_RECONNECT_ATTEMPTS
         /\ Len(recent') \in {Len(recent), Len(recent) + 1}
         /\ Len(recent) < MAX_RECONNECT_ATTEMPTS => Len(recent') = Len(recent) + 1
         /\ Len(recent') >= 1
         /\ recent'[Len(recent')] = outcome
         /\ \A i \in 1..(Len(recent') - 1) :
               recent'[i] = recent[i + Len(recent) + 1 - Len(recent')]
  <1> DEFINE all == Append(recent, outcome)
  <1>0. MAX_RECONNECT_ATTEMPTS \in Nat /\ MAX_RECONNECT_ATTEMPTS >= 1
    BY WatchAssumption
  <1>1. /\ all \in Seq(Outcomes) /\ Len(all) = Len(recent) + 1 /\ Len(recent) \in Nat
        /\ all[Len(all)] = outcome
        /\ \A i \in 1..Len(recent) : all[i] = recent[i]
    OBVIOUS
  <1>2. recent' = IF Len(all) > MAX_RECONNECT_ATTEMPTS THEN Tail(all) ELSE all
    BY Zenon DEF Remember
  <1> HIDE DEF all
  <1>3. CASE Len(all) > MAX_RECONNECT_ATTEMPTS
    <2>1. recent' = Tail(all) /\ all # << >>
      BY <1>0, <1>1, <1>2, <1>3
    <2>2. /\ Len(recent') = Len(recent) /\ recent' \in Seq(Outcomes)
          /\ \A i \in 1..Len(recent) : recent'[i] = all[i + 1]
      BY <1>1, <2>1
    <2>3. /\ Len(recent') \in Nat /\ Len(recent') >= 1 /\ Len(recent') + 1 = Len(all)
          /\ Len(recent') <= MAX_RECONNECT_ATTEMPTS /\ Len(recent) >= MAX_RECONNECT_ATTEMPTS
      BY <1>0, <1>1, <1>3, <2>2
    <2>4. recent'[Len(recent')] = outcome
      BY <1>1, <2>2, <2>3
    <2>5. ASSUME NEW i \in 1..(Len(recent') - 1)
          PROVE  recent'[i] = recent[i + Len(recent) + 1 - Len(recent')]
      <3>1. /\ i + Len(recent) + 1 - Len(recent') = i + 1
            /\ i \in 1..Len(recent) /\ i + 1 \in 1..Len(recent)
        BY <1>1, <2>2, <2>3
      <3>2. QED
        BY <1>1, <2>2, <3>1, Zenon
    <2>6. ~(Len(recent) < MAX_RECONNECT_ATTEMPTS)
      BY <1>0, <1>1, <2>3
    <2> QED
      BY <2>2, <2>3, <2>4, <2>5, <2>6, Zenon
  <1>4. CASE Len(all) <= MAX_RECONNECT_ATTEMPTS
    <2>1. recent' = all
      BY <1>0, <1>1, <1>2, <1>4
    <2> QED
      BY <1>0, <1>1, <1>4, <2>1
  <1> QED
    BY <1>0, <1>1, <1>3, <1>4

\* A failed request makes the run of errors longer by one.
LEMMA RequestFailedKeeps ==
  ASSUME WatchInv, at = "request", requestFailed
  PROVE  WatchInv'
  <1>0. /\ MAX_RECONNECT_ATTEMPTS \in Nat /\ MAX_RECONNECT_ATTEMPTS >= 1
        /\ consecutive_errors \in Nat /\ consecutive_errors < MAX_RECONNECT_ATTEMPTS
        /\ Len(recent) \in Nat /\ recent \in Seq(Outcomes)
        /\ Len(recent) <= MAX_RECONNECT_ATTEMPTS
        /\ consecutive_errors' = consecutive_errors + 1
    BY WatchAssumption DEF WatchInv, WatchTypes, GaveUpAtLimit, requestFailed
  <1>1. /\ recent' \in Seq(Outcomes) /\ Len(recent') \in Nat
        /\ Len(recent') <= MAX_RECONNECT_ATTEMPTS
        /\ Len(recent') \in {Len(recent), Len(recent) + 1}
        /\ Len(recent) < MAX_RECONNECT_ATTEMPTS => Len(recent') = Len(recent) + 1
        /\ Len(recent') >= 1
        /\ recent'[Len(recent')] = "error"
        /\ \A i \in 1..(Len(recent') - 1) :
               recent'[i] = recent[i + Len(recent) + 1 - Len(recent')]
    <2>1. "error" \in Outcomes /\ Remember("error")
      BY Zenon DEF requestFailed, Outcomes
    <2> QED
      BY <1>0, <2>1, RememberSpec
  <1>2. ErrorsAtTheEnd'
    <2>0. ErrorsAtTheEnd
      BY Zenon DEF WatchInv
    <2>1. consecutive_errors' <= Len(recent')
      BY <1>0, <1>1, <2>0 DEF ErrorsAtTheEnd
    <2>2. ASSUME NEW i \in 1..Len(recent'), i > Len(recent') - consecutive_errors'
          PROVE  recent'[i] = "error"
      <3>1. CASE i = Len(recent')
        BY <1>1, <3>1, Zenon
      <3>2. CASE i < Len(recent')
        <4> DEFINE j == i + Len(recent) + 1 - Len(recent')
        <4>1. j \in 1..Len(recent) /\ j > Len(recent) - consecutive_errors
          BY <1>0, <1>1, <2>2, <3>2
        <4>2. recent'[i] = recent[j]
          BY <1>0, <1>1, <3>2
        <4> QED
          BY <2>0, <4>1, <4>2, Zenon DEF ErrorsAtTheEnd
      <3> QED
        BY <1>1, <3>1, <3>2
    <2>3. ASSUME consecutive_errors' < Len(recent')
          PROVE  recent'[Len(recent') - consecutive_errors'] # "error"
      <3>1. /\ Len(recent') - consecutive_errors' \in 1..(Len(recent') - 1)
            /\ consecutive_errors < Len(recent)
        BY <1>0, <1>1, <2>3
      <3>2. recent'[Len(recent') - consecutive_errors'] = recent[Len(recent) - consecutive_errors]
        <4>1. Len(recent') - consecutive_errors' + Len(recent) + 1 - Len(recent')
                = Len(recent) - consecutive_errors
          BY <1>0, <1>1
        <4> QED
          BY <1>1, <3>1, <4>1, Zenon
      <3> QED
        BY <2>0, <3>1, <3>2, Zenon DEF ErrorsAtTheEnd
    <2> QED
      BY <2>1, <2>2, <2>3, Zenon DEF ErrorsAtTheEnd
  <1>3. at' \in {"backoff", "gave_up"} /\ GaveUpAtLimit' /\ OkMeansFinal'
    BY <1>0 DEF requestFailed, GaveUpAtLimit, OkMeansFinal
  <1>3a. NotAsked'
    BY <1>3, Zenon DEF NotAsked
  <1>4. WatchTypes'
    BY <1>0, <1>1, <1>3 DEF WatchInv, WatchTypes, requestFailed
  <1> QED
    BY <1>2, <1>3, <1>3a, <1>4, Zenon DEF WatchInv

\* Any other answer ends the run.
LEMMA OtherAnswerKeeps ==
  ASSUME WatchInv, at = "request", unsupported \/ nothingNew \/ updateReceived
  PROVE  WatchInv'
  <1>0. /\ MAX_RECONNECT_ATTEMPTS \in Nat /\ MAX_RECONNECT_ATTEMPTS >= 1
        /\ Len(recent) \in Nat /\ recent \in Seq(Outcomes)
        /\ Len(recent) <= MAX_RECONNECT_ATTEMPTS
        /\ consecutive_errors' = 0
    BY WatchAssumption DEF WatchInv, WatchTypes, unsupported, nothingNew, updateReceived
  <1>1. /\ recent' \in Seq(Outcomes) /\ Len(recent') \in Nat
        /\ Len(recent') <= MAX_RECONNECT_ATTEMPTS
        /\ Len(recent') >= 1
        /\ recent'[Len(recent')] # "error"
    BY <1>0, RememberSpec DEF unsupported, nothingNew, updateReceived, Outcomes
  <1>2. ErrorsAtTheEnd'
    BY <1>0, <1>1 DEF ErrorsAtTheEnd
  <1>3. /\ at' \in {"request", "sleep", "ok"}
        /\ transport' \in {"LongPoll", "Polling"}
        /\ anchorStatus' \in 0..FinalWatched
        /\ printed' \in -1..FinalWatched
        /\ OkMeansFinal'
    BY WatchAssumption DEF WatchInv, WatchTypes, unsupported, nothingNew, updateReceived,
       OkMeansFinal, is_terminal
  <1>4. WatchTypes' /\ GaveUpAtLimit'
    BY <1>0, <1>1, <1>3 DEF WatchTypes, GaveUpAtLimit
  <1>5. NotAsked'
    BY <1>3, Zenon DEF NotAsked
  <1> QED
    BY <1>2, <1>3, <1>4, <1>5, Zenon DEF WatchInv

\* Every step of the watch command keeps its invariant.
LEMMA WatchInvKept ==
  ASSUME WatchInv, [WatchNext]_watchVars
  PROVE  WatchInv'
  <1>1. CASE long_poll_once \/ poll_once \/ Answered
    BY <1>1, RequestFailedKeeps, OtherAnswerKeeps, Zenon DEF long_poll_once, poll_once, Answered
  <1>2. CASE buildClient \/ sleepEnds
    BY <1>2, Zenon DEF buildClient, sleepEnds, WatchInv, WatchTypes, ErrorsAtTheEnd,
     GaveUpAtLimit, OkMeansFinal, NotAsked
  <1>3. CASE AnchorProgress
    BY <1>3, WatchAssumption DEF AnchorProgress, WatchInv, WatchTypes, ErrorsAtTheEnd,
     GaveUpAtLimit, OkMeansFinal, NotAsked
  <1>4. CASE UNCHANGED watchVars
    BY <1>4, Zenon DEF watchVars, WatchInv, WatchTypes, ErrorsAtTheEnd,
     GaveUpAtLimit, OkMeansFinal, NotAsked
  <1> QED
    BY <1>1, <1>2, <1>3, <1>4, Zenon DEF WatchNext

\* The invariant holds when the command starts.
LEMMA WatchInvInit == WatchInit => WatchInv
  BY WatchAssumption DEF WatchInit, WatchInv, WatchTypes, ErrorsAtTheEnd,
     GaveUpAtLimit, OkMeansFinal, NotAsked

\* For every limit: the command gives up exactly after that many failures in a row,
\* and reports success for the final status only (WatchOutcome).
LEMMA WatchInvOutcome ==
  ASSUME WatchInv
  PROVE  WatchOutcome
  <1> SUFFICES GivesUpAfterErrorsInARow
    BY Zenon DEF WatchInv, WatchOutcome
  <1>0. /\ MAX_RECONNECT_ATTEMPTS \in Nat /\ MAX_RECONNECT_ATTEMPTS >= 1
        /\ consecutive_errors \in Nat /\ consecutive_errors <= MAX_RECONNECT_ATTEMPTS
        /\ Len(recent) \in Nat /\ DOMAIN recent = 1..Len(recent)
        /\ Len(recent) <= MAX_RECONNECT_ATTEMPTS
        /\ ErrorsAtTheEnd /\ GaveUpAtLimit
    BY WatchAssumption DEF WatchInv, WatchTypes
  <1>1. CASE consecutive_errors = MAX_RECONNECT_ATTEMPTS
    <2>0. at = "gave_up"
      BY <1>0, <1>1, Zenon DEF GaveUpAtLimit
    <2>1. Len(recent) = MAX_RECONNECT_ATTEMPTS
      <3>1. consecutive_errors <= Len(recent)
        BY <1>0, Zenon DEF ErrorsAtTheEnd
      <3>2. /\ Len(recent) \in Nat /\ MAX_RECONNECT_ATTEMPTS \in Nat
            /\ Len(recent) <= MAX_RECONNECT_ATTEMPTS
        BY <1>0, Zenon
      <3> QED
        BY <1>1, <3>1, <3>2
    <2>2. \A i \in DOMAIN recent : recent[i] = "error"
      BY <1>0, <1>1 DEF ErrorsAtTheEnd
    <2> QED
      BY <2>0, <2>1, <2>2, Zenon DEF GivesUpAfterErrorsInARow
  <1>2. CASE consecutive_errors < MAX_RECONNECT_ATTEMPTS
    <2>1. ASSUME Len(recent) = MAX_RECONNECT_ATTEMPTS
          PROVE  \E i \in DOMAIN recent : recent[i] # "error"
      BY <1>0, <1>2, <2>1 DEF ErrorsAtTheEnd
    <2>2. at # "gave_up"
      BY <1>0, <1>2 DEF GaveUpAtLimit
    <2> QED
      BY <2>1, <2>2, Zenon DEF GivesUpAfterErrorsInARow
  <1> QED
    BY <1>0, <1>1, <1>2

\* run never goes back to long-poll (TransportOnlyFallsBack).
THEOREM TransportCorrect == WatchSpec => TransportOnlyFallsBack
  <1>1. [WatchNext]_watchVars
          => [transport = "Polling" => transport' = "Polling"]_watchVars
    BY Zenon DEF WatchNext, watchVars, buildClient, long_poll_once, poll_once, Answered, sleepEnds,
       AnchorProgress, unsupported, requestFailed, nothingNew, updateReceived
  <1> QED
    BY <1>1, PTL DEF WatchSpec, TransportOnlyFallsBack

-----------------------------------------------------------------------------
(* discover.                                                               *)

\* What detect reads for the two transfer servers, and where /info comes from.
LEMMA Sources ==
  ASSUME NEW t
  PROVE  /\ InfoSource(t) \in TransferSep \cup {"None"}
         /\ InfoSource(t) \in TransferSep => Fields(InfoSource(t)) \subseteq t
         /\ \A sep \in TransferSep :
              Fields(sep) \subseteq t =>
                \/ sep = InfoSource(t)
                \/ sep = "SEP-6" /\ Fields("SEP-24") \subseteq t
  BY Zenon DEF InfoSource, TransferSep

\* An /info counts at least one asset exactly when some operation is enabled, and
\* never more assets than there are.
LEMMA AssetCount ==
  ASSUME NEW info \in InfoResponse
  PROVE  /\ enabled_asset_count(info) \in 0..Cardinality(Asset)
         /\ enabled_asset_count(info) > 0 <=>
              \E x \in Asset : x \in info.deposit \/ x \in info.withdraw
<1> DEFINE enabled == info.deposit \cup info.withdraw
<1>1. enabled \subseteq Asset
  BY Zenon DEF InfoResponse
<1>2. IsFiniteSet(enabled) /\ Cardinality(enabled) <= Cardinality(Asset)
      /\ Cardinality(enabled) \in Nat /\ Cardinality(Asset) \in Nat
  BY <1>1, DiscoveryAssumption, FS_Subset, FS_CardinalityType, Zenon
<1>3. Cardinality(enabled) = 0 <=> enabled = {}
  BY <1>2, FS_EmptySet, Zenon
<1>4. enabled = {} <=> ~ \E x \in Asset : x \in info.deposit \/ x \in info.withdraw
  BY <1>1, Zenon
<1>5. QED
  BY <1>2, <1>3, <1>4 DEF enabled_asset_count

\* The anchor's stellar.toml as it was read still tells what has been supported
\* since, and all of it when the anchor was not reconfigured.
DiscoveryInv ==
  /\ offered \in AnchorConfig
  /\ reconfigured \in Nat
  /\ discovery \in {"start", "toml", "info", "printed", "failed"}
  /\ discovery \in {"start", "toml", "info"} => throughout \subseteq Supported(offered)
  /\ discovery = "info" =>
       /\ InfoSource(toml) \in TransferSep
       /\ \A sep \in throughout : Fields(sep) \subseteq toml
       /\ reconfigured = 0 => toml = offered.toml
  /\ discovery = "printed" => "SEP-1" \in discoveryReport.supported
  /\ ReportSound

\* A report made from the fields t and the /info of its source.
LEMMA DetectSound ==
  ASSUME DiscoveryInv, NEW t, NEW info \in InfoResponse, NEW source,
         source = InfoSource(t),
         source \in TransferSep => info = offered.info[source],
         throughout \subseteq Supported(offered),
         \A sep \in throughout : Fields(sep) \subseteq t,
         reconfigured = 0 => t = offered.toml,
         discovery' = "printed", discoveryReport' = print_report(detect(t, info, source)),
         UNCHANGED <<offered, throughout, reconfigured>>
  PROVE  ReportSound' /\ "SEP-1" \in discoveryReport'.supported
<1> DEFINE supported == {sep \in Sep : /\ Fields(sep) \subseteq t
                                       /\ sep = source => enabled_asset_count(info) > 0}
<1>1. /\ discoveryReport'.supported = supported
      /\ DOMAIN discoveryReport'.assets = {source} \cap supported
      /\ \A sep \in {source} \cap supported :
           discoveryReport'.assets[sep] = enabled_asset_count(info)
  BY Zenon DEF detect, print_report
<1>2. source \in TransferSep \cup {"None"}
  BY Sources, Zenon
<1>3. "SEP-1" \in supported
  BY <1>2, Zenon DEF Sep, Fields, TransferSep
<1>4. ASSUME NEW sep \in throughout
      PROVE  sep \in supported
  <2>1. sep \in Sep /\ Supports(offered, sep) /\ Fields(sep) \subseteq t
    BY Zenon DEF Supported
  <2>2. ASSUME sep = source
        PROVE  enabled_asset_count(info) > 0
    <3>1. sep \in TransferSep
      BY <1>2, <2>1, <2>2, Zenon DEF Sep, TransferSep
    <3>2. QED
      BY <2>1, <2>2, <3>1, AssetCount, Zenon DEF Supports
  <2>3. QED
    BY <2>1, <2>2, Zenon
<1>5. ASSUME reconfigured = 0, NEW sep \in supported
      PROVE  \/ Supports(offered, sep)
             \/ sep = "SEP-6" /\ Fields("SEP-24") \subseteq offered.toml
  <2>1. Fields(sep) \subseteq offered.toml
    BY <1>5, Zenon
  <2>2. CASE sep \notin TransferSep
    BY <2>1, <2>2, Zenon DEF Supports
  <2>3. CASE sep \in TransferSep /\ sep = source
    <3>1. \E x \in Asset : x \in offered.info[sep].deposit \/ x \in offered.info[sep].withdraw
      BY <1>5, <2>3, AssetCount, Zenon
    <3>2. QED
      BY <2>1, <3>1, Zenon DEF Supports
  <2>4. CASE sep \in TransferSep /\ sep # source
    BY <1>5, <2>1, <2>4, Sources, Zenon
  <2>5. QED
    BY <2>2, <2>3, <2>4, Zenon
<1>6. {source} \cap supported \subseteq TransferSep \cap supported
  BY <1>2, Zenon DEF Sep
<1>7. "SEP-6" \in {source} \cap supported => "SEP-24" \notin supported
  <2>1. "SEP-24" \in supported => Fields("SEP-24") \subseteq t
    BY Zenon
  <2>2. QED
    BY <2>1, Zenon DEF InfoSource
<1>8. ASSUME NEW sep \in {source} \cap supported
      PROVE  enabled_asset_count(info) \in 1..Cardinality(Asset)
  <2>1. enabled_asset_count(info) > 0
    BY <1>8, Zenon
  <2>2. enabled_asset_count(info) \in 0..Cardinality(Asset)
    BY AssetCount, Zenon
  <2>3. Cardinality(Asset) \in Nat
    BY DiscoveryAssumption, FS_CardinalityType, Zenon
  <2>4. PICK n, size : n = enabled_asset_count(info) /\ size = Cardinality(Asset)
    BY Zenon
  <2>5. n > 0 /\ n \in 0..size /\ size \in Nat
    BY <2>1, <2>2, <2>3, <2>4, Zenon
  <2>6. n \in 1..size
    BY <2>5
  <2>7. QED
    BY <2>4, <2>6, Zenon
<1> HIDE DEF supported
<1>9. QED
  BY <1>1, <1>3, <1>4, <1>5, <1>6, <1>7, <1>8, Zenon DEF ReportSound

\* Every step of discover keeps the invariant.
LEMMA DiscoveryInvKept ==
  ASSUME DiscoveryInv, [DiscoveryNext]_discoveryVars
  PROVE  DiscoveryInv'
<1>1. CASE Fails \/ discover
  BY <1>1, Zenon DEF Fails, discover, AnchorUnchanged, DiscoveryInv, ReportSound
<1>2. CASE stellar_toml_fetch
  <2>1. throughout \subseteq Supported(offered) /\ discovery = "toml"
    BY <1>2, Zenon DEF DiscoveryInv, stellar_toml_fetch
  <2>2. \A sep \in throughout : Fields(sep) \subseteq offered.toml
    BY <2>1, Zenon DEF Supported, Supports
  <2>3. CASE InfoSource(offered.toml) = "None"
    <3>1. NoInfo \in InfoResponse
      BY Zenon DEF NoInfo, InfoResponse
    <3>2. /\ discovery' = "printed" /\ discoveryReport' = print_report(detect(offered.toml, NoInfo, "None"))
          /\ UNCHANGED <<offered, throughout, reconfigured>>
      BY <1>2, <2>3, Zenon DEF stellar_toml_fetch, AnchorUnchanged
    <3>3. "None" \notin TransferSep
      BY Zenon DEF TransferSep
    <3>4. ReportSound' /\ "SEP-1" \in discoveryReport'.supported
      BY <2>1, <2>2, <2>3, <3>1, <3>2, <3>3, DetectSound, Zenon
    <3>5. QED
      BY <3>2, <3>4, Zenon DEF DiscoveryInv
  <2>4. CASE InfoSource(offered.toml) # "None"
    <3>1. /\ discovery' = "info" /\ toml' = offered.toml /\ discoveryReport' = discoveryReport
          /\ UNCHANGED <<offered, throughout, reconfigured>>
      BY <1>2, <2>4, Zenon DEF stellar_toml_fetch, AnchorUnchanged
    <3>2. InfoSource(toml') \in TransferSep
      BY <2>4, <3>1, Sources, Zenon
    <3>3. ReportSound'
      BY <2>1, <3>1, Zenon DEF DiscoveryInv, ReportSound
    <3>4. QED
      BY <2>1, <2>2, <3>1, <3>2, <3>3, Zenon DEF DiscoveryInv
  <2>5. QED
    BY <2>3, <2>4, Zenon
<1>3. CASE info_fetch
  <2> DEFINE source == InfoSource(toml)
  <2>1. /\ discovery = "info" /\ throughout \subseteq Supported(offered)
        /\ source \in TransferSep
        /\ \A sep \in throughout : Fields(sep) \subseteq toml
        /\ reconfigured = 0 => toml = offered.toml
    BY <1>3, Zenon DEF DiscoveryInv, info_fetch
  <2>2. /\ discovery' = "printed"
        /\ discoveryReport' = print_report(detect(toml, offered.info[source], source))
        /\ UNCHANGED <<offered, throughout, reconfigured, toml>>
    BY <1>3, Zenon DEF info_fetch, AnchorUnchanged
  <2>3. offered.info[source] \in InfoResponse
    BY <2>1, Zenon DEF DiscoveryInv, AnchorConfig
  <2> HIDE DEF source
  <2>4. ReportSound' /\ "SEP-1" \in discoveryReport'.supported
    BY <2>1, <2>2, <2>3, DetectSound, Zenon DEF source
  <2>5. QED
    BY <2>2, <2>4, Zenon DEF DiscoveryInv
<1>4. CASE Reconfigure
  <2>1. /\ discovery \in {"start", "toml", "info"} /\ reconfigured' = reconfigured + 1
        /\ offered' \in AnchorConfig /\ throughout' = throughout \cap Supported(offered')
        /\ UNCHANGED <<discovery, toml, discoveryReport>> /\ reconfigured \in Nat
    BY <1>4, Zenon DEF Reconfigure, DiscoveryInv
  <2>2. reconfigured' # 0 /\ reconfigured' \in Nat
    BY <2>1
  <2>3. ReportSound'
    BY <2>1, Zenon DEF DiscoveryInv, ReportSound
  <2>4. QED
    BY <2>1, <2>2, <2>3, Zenon DEF DiscoveryInv
<1>5. CASE UNCHANGED discoveryVars
  BY <1>5, Zenon DEF discoveryVars, DiscoveryInv, ReportSound
<1>6. QED
  BY <1>1, <1>2, <1>3, <1>4, <1>5, Zenon DEF DiscoveryNext, DiscoveryStep

\* The invariant holds when the command starts.
LEMMA DiscoveryInvInit == DiscoveryInit => DiscoveryInv
<1> SUFFICES ASSUME DiscoveryInit PROVE DiscoveryInv
  BY Zenon
<1>1. /\ discovery = "start" /\ offered \in AnchorConfig /\ throughout = Supported(offered)
      /\ reconfigured \in Nat /\ discoveryReport = NoDiscoveryReport
  BY Zenon DEF DiscoveryInit
<1>2. discovery # "info" /\ discovery # "printed"
  BY <1>1, Zenon
<1>3. QED
  BY <1>1, <1>2, Zenon DEF DiscoveryInv, ReportSound

-----------------------------------------------------------------------------
(* playground.                                                             *)

\* Nothing is left of a call once it is over.
PlaygroundInv ==
  /\ PlaygroundTypeOK
  /\ session # "calling" => simulated = -1
  /\ session \in {"new", "refused"} => lines = 0
  /\ AnswersBelongToLines

\* A line that dispatch takes for a call has the arguments of that call.
LEMMA DispatchedLine ==
  ASSUME NEW line \in Line, dispatch(line) = "call"
  PROVE  LET r == build_envelope(line)
         IN  /\ r # NoEnvelope
             /\ r.function \in DOMAIN Signature
             /\ DOMAIN r.args = DOMAIN Signature[r.function]
             /\ \A i \in DOMAIN r.args : Parses(Signature[r.function][i], r.args[i])
             /\ r.signatures = {}
<1> DEFINE types == Signature[line.command]
<1>1. /\ line.command \in DOMAIN Signature /\ Len(line.rest) = Len(types)
      /\ \A i \in DOMAIN types : Parses(types[i], line.rest[i])
  BY Zenon DEF dispatch
<1>2. line.rest \in Seq(Text)
  <2>1. CASE line = [command |-> "blank", rest |-> << >>]
    BY <2>1
  <2>2. CASE line.rest \in Rest
    BY <2>2, PlaygroundAssumption, Zenon
  <2>3. QED
    BY <2>1, <2>2, Zenon DEF Line
<1>3. line.command \in {"get_attestation", "is_valid", "is_attestor", "get_attestation_count"}
  BY <1>1, Zenon DEF Signature
<1>4. types \in {<<"address", "symbol">>, <<"address">>, << >>}
  BY <1>3 DEF Signature
<1>5. DOMAIN line.rest = DOMAIN types
  <2>1. DOMAIN types = 1..Len(types)
    BY <1>4
  <2>2. QED
    BY <1>1, <1>2, <2>1
<1>6. build_envelope(line) # NoEnvelope
  BY <1>3, Zenon DEF build_envelope, NoEnvelope
<1>7. /\ build_envelope(line).function = line.command
      /\ build_envelope(line).args = line.rest
      /\ build_envelope(line).signatures = {}
  BY Zenon DEF build_envelope
<1>8. QED
  BY <1>1, <1>5, <1>6, <1>7, Zenon

\* Every step of a session keeps the invariant.
LEMMA PlaygroundInvKept ==
  ASSUME PlaygroundInv, [PlaygroundNext]_playgroundVars
  PROVE  PlaygroundInv'
<1> USE DEF PlaygroundInv, PlaygroundTypeOK
<1>1. CASE RpcClientNew
  BY <1>1, Zenon DEF RpcClientNew, AnswersBelongToLines
<1>2. CASE InputEnds
  BY <1>2, Zenon DEF InputEnds, AnswersBelongToLines
<1>3. ASSUME NEW line \in Line, Enter(line)
      PROVE  PlaygroundInv'
  <2>0. /\ session = "prompt" /\ lines' = lines + 1 /\ lines' \in 0..MaxLines
        /\ request = NoEnvelope /\ simulated = -1
        /\ UNCHANGED <<ledger, simulated, shown_value>>
    <3>1. /\ session = "prompt" /\ lines < MaxLines /\ lines' = lines + 1
          /\ UNCHANGED <<ledger, simulated, shown_value>>
      BY <1>3, Zenon DEF Enter
    <3>2. lines' \in 0..MaxLines
      BY <3>1, PlaygroundAssumption
    <3>3. request = NoEnvelope /\ simulated = -1
      BY <3>1, Zenon DEF AnswersBelongToLines
    <3>4. QED
      BY <3>1, <3>2, <3>3, Zenon
  <2>1. CASE line.command \in {"blank", "help", "exit"} /\ line.rest = << >>
    <3>1. session' \in {"prompt", "ended"} /\ shown' \in {shown, "help"}
          /\ UNCHANGED <<request, since>>
      BY <1>3, <2>1, Zenon DEF Enter
    <3>2. QED
      BY <2>0, <3>1, Zenon DEF AnswersBelongToLines
  <2>2. CASE /\ ~(line.command \in {"blank", "help", "exit"} /\ line.rest = << >>)
             /\ dispatch(line) = "call"
    <3>1. /\ session' = "calling" /\ request' = build_envelope(line)
          /\ since' = ledger /\ shown' = shown
      BY <1>3, <2>2, Zenon DEF Enter
    <3>2. since' \in 0..ledger' /\ shown_value' <= since'
      BY <2>0, <3>1
    <3>3. AnswersBelongToLines'
      BY <2>0, <2>2, <3>1, <3>2, DispatchedLine, Zenon DEF AnswersBelongToLines
    <3>4. QED
      BY <2>0, <3>1, <3>2, <3>3, Zenon
  <2>3. CASE /\ ~(line.command \in {"blank", "help", "exit"} /\ line.rest = << >>)
             /\ dispatch(line) # "call"
    <3>1. shown' = dispatch(line) /\ UNCHANGED <<session, request, since>>
      BY <1>3, <2>3, Zenon DEF Enter
    <3>2. shown' \in {"Usage", "InvalidArgument"}
      BY <2>3, <3>1, Zenon DEF dispatch
    <3>3. QED
      BY <2>0, <3>1, <3>2, Zenon DEF AnswersBelongToLines
  <2>4. QED
    BY <2>1, <2>2, <2>3, Zenon
<1>4. CASE Simulate
  BY <1>4 DEF Simulate, AnswersBelongToLines
<1>5. ASSUME NEW reply \in Reply, call(reply)
      PROVE  PlaygroundInv'
  <2>1. /\ session = "calling" /\ session' = "prompt" /\ simulated' = -1
        /\ request' = NoEnvelope /\ UNCHANGED <<lines, ledger, since>>
        /\ shown' = call_result(reply)
        /\ shown_value' = IF call_result(reply) = "Ok" THEN simulated ELSE shown_value
    BY <1>5, Zenon DEF call
  <2>2. call_result(reply) \in {"Rpc", "Simulation", "Xdr", "Ok"}
        /\ (call_result(reply) = "Ok" => reply = "value")
    BY Zenon DEF Reply, call_result
  <2>3. call_result(reply) = "Ok" => simulated \in since..ledger
    BY <1>5, <2>1, <2>2, Zenon DEF call, AnswersBelongToLines
  <2>4. PlaygroundTypeOK'
    BY <2>1, <2>2, <2>3
  <2>5. AnswersBelongToLines'
    BY <2>1, <2>2, <2>3, Zenon DEF AnswersBelongToLines
  <2>6. QED
    BY <2>1, <2>4, <2>5, Zenon
<1>6. CASE LedgerMoves
  <2>1. /\ ledger' = ledger + 1 /\ ledger' \in 0..MaxLedger
        /\ UNCHANGED <<session, lines, request, since, simulated, shown_value, shown>>
    BY <1>6, PlaygroundAssumption DEF LedgerMoves
  <2>2. PlaygroundTypeOK'
    BY <2>1
  <2>3. AnswersBelongToLines'
    <3>1. ledger \in Nat /\ since \in Nat
      BY PlaygroundAssumption
    <3>2. \A v \in since..ledger : v \in since..(ledger + 1)
      BY <3>1
    <3>3. (shown_value <= since)' <=> shown_value <= since
      BY <2>1, Zenon
    <3>4. AnswersBelongToLines
      BY Zenon
    <3>5. QED
      BY <2>1, <3>2, <3>3, <3>4, Zenon DEF AnswersBelongToLines
  <2>4. QED
    BY <2>1, <2>2, <2>3, Zenon
<1>7. CASE UNCHANGED playgroundVars
  BY <1>7, Zenon DEF playgroundVars, AnswersBelongToLines
<1>8. QED
  BY <1>1, <1>2, <1>3, <1>4, <1>5, <1>6, <1>7, Zenon DEF PlaygroundNext, Call

\* The invariant holds when a session starts.
LEMMA PlaygroundInvInit == PlaygroundInit => PlaygroundInv
<1> SUFFICES ASSUME PlaygroundInit PROVE PlaygroundInv
  BY Zenon
<1>1. PlaygroundTypeOK
  BY PlaygroundAssumption DEF PlaygroundInit, PlaygroundTypeOK
<1>2. AnswersBelongToLines
  BY Zenon DEF PlaygroundInit, AnswersBelongToLines
<1>3. QED
  BY <1>1, <1>2, Zenon DEF PlaygroundInit, PlaygroundInv

\* What a session prints never goes back in time, whatever times out.
THEOREM ValuesCorrect == PlaygroundSpec => ValuesInOrder
<1>1. ASSUME PlaygroundInv, [PlaygroundNext]_playgroundVars
      PROVE  [shown_value <= shown_value']_playgroundVars
  <2>1. shown_value \in Int /\ shown_value <= shown_value
    BY <1>1 DEF PlaygroundInv, PlaygroundTypeOK
  <2>2. ASSUME NEW reply \in Reply, call(reply)
        PROVE  shown_value <= shown_value'
    <3>1. call_result(reply) = "Ok" => reply = "value"
      BY Zenon DEF Reply, call_result
    <3>2. call_result(reply) = "Ok" => shown_value <= since /\ simulated \in since..ledger
      BY <1>1, <2>2, <3>1, Zenon DEF call, PlaygroundInv, AnswersBelongToLines
    <3>3. since \in Int /\ ledger \in Int
      BY <1>1, PlaygroundAssumption DEF PlaygroundInv, PlaygroundTypeOK
    <3>4. QED
      BY <2>1, <2>2, <3>2, <3>3 DEF call
  <2>3. CASE UNCHANGED shown_value
    BY <2>1, <2>3, Zenon
  <2>4. QED
    BY <1>1, <2>2, <2>3, Zenon DEF PlaygroundNext, Call, RpcClientNew, InputEnds, Enter,
       Simulate, LedgerMoves, playgroundVars
<1>2. PlaygroundInv /\ [PlaygroundNext]_playgroundVars => PlaygroundInv'
  BY PlaygroundInvKept, Zenon
<1>3. QED
  BY <1>1, <1>2, PlaygroundInvInit, PTL DEF PlaygroundSpec, ValuesInOrder

-----------------------------------------------------------------------------
(* The command line.                                                       *)

\* Only the subcommand that was asked for leaves its initial state.
OneCommand ==
  /\ command # "Watch" => at = "start"
  /\ command # "Discover" => discovery = "start"
  /\ command # "Playground" => session = "new"

CliInv == WatchInv /\ DiscoveryInv /\ PlaygroundInv /\ OneCommand

\* The invariant is inductive, as each subcommand keeps its own.
THEOREM CliInvCorrect == CliSpec => []CliInv
<1>1. CliInit => CliInv
  BY WatchInvInit, DiscoveryInvInit, PlaygroundInvInit, Zenon
     DEF CliInit, CliInv, OneCommand, WatchInit, DiscoveryInit, PlaygroundInit
<1>2. ASSUME CliInv, [CliNext]_cliVars
      PROVE  CliInv'
  <2>1. /\ [WatchNext]_watchVars /\ [DiscoveryNext]_discoveryVars
        /\ [PlaygroundNext]_playgroundVars
    BY <1>2, Zenon DEF CliNext, RunWatch, RunDiscover, RunPlayground, cliVars
  <2>2. WatchInv' /\ DiscoveryInv' /\ PlaygroundInv'
    BY <1>2, <2>1, WatchInvKept, DiscoveryInvKept, PlaygroundInvKept, Zenon DEF CliInv
  <2>3. OneCommand'
    BY <1>2, Zenon DEF CliInv, OneCommand, CliNext, RunWatch, RunDiscover, RunPlayground,
       cliVars, watchVars, discoveryVars, playgroundVars
  <2>4. QED
    BY <2>2, <2>3, Zenon DEF CliInv
<1>3. QED
  BY <1>1, <1>2, PTL DEF CliSpec

\* What the command prints and its exit status tell what happened, for every limit,
\* every set of assets and every input (CliOutcome).
THEOREM CliOutcomeCorrect == CliSpec => []CliOutcome
<1>1. ASSUME CliInv
      PROVE  CliOutcome
  <2>1. WatchOutcome /\ ReportSound /\ AnswersBelongToLines
    BY <1>1, WatchInvOutcome, Zenon DEF CliInv, DiscoveryInv, PlaygroundInv
  <2>2. /\ command = "Watch" /\ exit_status = 0 => at = "ok"
        /\ command = "Watch" /\ exit_status = 1 => at \in {"gave_up", "no_client"}
        /\ command = "Discover" => (exit_status = 0 <=> discovery = "printed")
        /\ command = "Playground" /\ exit_status = 1 => session = "refused"
    BY <1>1 DEF CliInv, OneCommand, exit_status
  <2>3. discovery = "printed" <=> "SEP-1" \in discoveryReport.supported
    <3>1. NoDiscoveryReport.supported = {}
      BY Zenon DEF NoDiscoveryReport
    <3>2. QED
      BY <1>1, <3>1, Zenon DEF CliInv, DiscoveryInv, ReportSound
  <2>3a. command = "Watch" /\ exit_status = 1 => \A i \in DOMAIN recent : recent[i] = "error"
    <3>1. at = "gave_up" => \A i \in DOMAIN recent : recent[i] = "error"
      BY <2>1, Zenon DEF WatchOutcome, GivesUpAfterErrorsInARow
    <3>2. at = "no_client" => \A i \in DOMAIN recent : recent[i] = "error"
      <4>1. at = "no_client" => recent = << >>
        BY <1>1, Zenon DEF CliInv, WatchInv, NotAsked
      <4>2. DOMAIN << >> = {}
        OBVIOUS
      <4>3. QED
        BY <4>1, <4>2, Zenon
    <3>3. QED
      BY <2>2, <3>1, <3>2, Zenon
  <2>4. StatusTellsOutcome
    BY <1>1, <2>1, <2>2, <2>3, <2>3a, Zenon DEF StatusTellsOutcome, WatchOutcome,
       OkMeansFinal, CliInv, PlaygroundInv
  <2>5. QED
    BY <2>1, <2>4, Zenon DEF CliOutcome
<1>2. QED
  BY <1>1, CliInvCorrect, PTL

\* The bounds of discover, which DiscoveryInv does not need.
DiscoveryBounds ==
  /\ toml \in SUBSET TomlField
  /\ discoveryReport.supported \in SUBSET Sep
  /\ throughout \in SUBSET Sep
  /\ reconfigured \in 0..MaxReconfigured

\* Each step of discover keeps them.
LEMMA DiscoveryBoundsKept ==
  ASSUME DiscoveryInv, DiscoveryBounds, [DiscoveryNext]_discoveryVars
  PROVE  DiscoveryBounds'
<1>1. offered.toml \in SUBSET TomlField
  BY Zenon DEF DiscoveryInv, AnchorConfig
<1>2. \A t, info, source :
        print_report(detect(t, info, source)).supported \in SUBSET Sep
  BY DEF print_report, detect
<1>3. CASE DiscoveryStep
  BY <1>1, <1>2, <1>3, Zenon DEF DiscoveryStep, Fails, discover, stellar_toml_fetch, info_fetch,
     AnchorUnchanged, DiscoveryBounds
<1>4. CASE Reconfigure
  BY <1>4, DiscoveryAssumption DEF Reconfigure, DiscoveryBounds
<1>5. CASE UNCHANGED discoveryVars
  BY <1>5, Zenon DEF discoveryVars, DiscoveryBounds
<1>6. QED
  BY <1>3, <1>4, <1>5, Zenon DEF DiscoveryNext

CliBounds == DiscoveryBounds /\ command \in Command

\* The types of the command line: among them, that errors are counted and outcomes
\* kept up to MAX_RECONNECT_ATTEMPTS and no further (watch.rs:126-182), and that a
\* report names SEPs only (seps.rs:60-132).
THEOREM CliTypeCorrect == CliSpec => []CliTypeOK
<1>1. CliInit => CliBounds
  BY DiscoveryAssumption DEF CliInit, DiscoveryInit, CliBounds, DiscoveryBounds, NoDiscoveryReport, Supported
<1>2. CliInv /\ CliBounds /\ [CliNext]_cliVars => CliBounds'
  <2> SUFFICES ASSUME CliInv, CliBounds, [CliNext]_cliVars
               PROVE  CliBounds'
    BY Zenon
  <2>1. [DiscoveryNext]_discoveryVars /\ command' = command
    BY Zenon DEF CliNext, RunWatch, RunDiscover, RunPlayground, cliVars
  <2>2. QED
    BY <2>1, DiscoveryBoundsKept, Zenon DEF CliInv, CliBounds
<1>3. ASSUME CliInv, CliBounds
      PROVE  CliTypeOK
  <2>1. WatchTypeOK
    <3>1. \E n \in 0..MAX_RECONNECT_ATTEMPTS : recent \in [1..n -> Outcomes]
      BY <1>3, BoundedSequence, WatchAssumption, Zenon DEF CliInv, WatchInv, WatchTypes
    <3>2. QED
      BY <1>3, <3>1, WatchAssumption DEF CliInv, WatchInv, WatchTypes, WatchTypeOK
  <2>2. DiscoveryTypeOK
    BY <1>3, Zenon DEF CliInv, DiscoveryInv, CliBounds, DiscoveryBounds, DiscoveryTypeOK
  <2>3. QED
    BY <1>3, <2>1, <2>2, Zenon DEF CliInv, CliBounds, PlaygroundInv, CliTypeOK
<1>4. QED
  BY <1>1, <1>2, <1>3, CliInvCorrect, PTL DEF CliSpec

=============================================================================
