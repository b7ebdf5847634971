--------------------------- MODULE LSMTreeProofs ----------------------------
(***************************************************************************)
(* A table once written is never modified; while the names of the tables   *)
(* have no more digits than they are padded to, the tables are searched    *)
(* from the newest to the oldest, a caller reads its own writes, and the   *)
(* engine implements the key-value store.                                  *)
(***************************************************************************)
EXTENDS LSMTree, FiniteSetTheorems, WellFoundedInduction, TLAPS

\* The numbers of the tables have at most Width digits: with the source's 4
\* decimal digits, there are at most 10000 tables.
NamesFit == \A n \in 0 .. MaxTables - 1 : n < Base ^ Width

\* TOMBSTONE is the empty string: whoever puts it deletes.
NoEmptyValue == Empty \notin Value

\* The directory holds the tables 0 .. c - 1, and a running process has
\* counted them; there is nothing else in a process that does not run.
Numbered ==
  /\ running \in BOOLEAN
  /\ \E c \in 0 .. MaxTables : /\ DOMAIN files = 0 .. c - 1
                               /\ running => sstableCount = c
  /\ ~ running => memtable = NoEntries /\ ~ call.io

-----------------------------------------------------------------------------
(* A set of natural numbers that is not empty has a smallest element.      *)
LEMMA MinOfNaturals ==
  ASSUME NEW T \in SUBSET Nat, T # {}
  PROVE  Min(T) \in T /\ \A x \in T : Min(T) <= x
<1> DEFINE Less == OpToRel(<, Nat)
<1>1. \E x \in T : \A y \in T : <<y, x>> \notin Less
  <2>1. IsWellFoundedOn(Less, Nat)
    BY NatLessThanWellFounded
  <2> HIDE DEF Less
  <2> QED BY <2>1, WFMin
<1>2. \A x, y \in Nat : <<y, x>> \notin Less => x <= y
  BY DEF OpToRel
<1>3. \E x \in T : \A y \in T : x <= y
  BY <1>1, <1>2
<1> QED BY <1>3 DEF Min

(* Names of the same length compare like their numbers.                    *)
LEMMA NamesInOrder ==
  ASSUME NamesFit, NEW m \in 0 .. MaxTables - 1, NEW n \in 0 .. MaxTables - 1
  PROVE  NameGreater(m, n) <=> m > n
<1>1. NumDigits(m) = Width /\ NumDigits(n) = Width
  BY DEF NamesFit, NumDigits
<1> QED BY <1>1 DEF NameGreater

-----------------------------------------------------------------------------
(* The directory.                                                          *)

\* A step writes table t, the next in number.
Writes(t) == /\ running /\ sstableCount < MaxTables
             /\ files' = Entered(files, sstableCount, t)

(* The directory then has table t and the tables it had.                   *)
LEMMA WritesEffect ==
  ASSUME NEW t, Writes(t)
  PROVE  /\ DOMAIN files' = {sstableCount} \cup DOMAIN files
         /\ files'[sstableCount] = t
         /\ \A n \in DOMAIN files : n # sstableCount => files'[n] = files[n]
BY DEF Writes, Entered

(* A step leaves the directory alone or writes the next table.             *)
LEMMA DirectorySteps ==
  ASSUME [Next]_vars
  PROVE  UNCHANGED files \/ \E t : Writes(t)
<1>1. ASSUME NEW k, NEW v, NEW effect, Put(k, v, effect)
      PROVE  UNCHANGED files \/ \E t : Writes(t)
  BY <1>1 DEF Put, PutMemtable, PutFlush, PutOpenFails, PutWriteFails, FlushDue,
              WriteSSTable, Writes
<1>2. ASSUME NEW k, NEW v, CrashInFlush(k, v) PROVE \E t : Writes(t)
  BY <1>2 DEF CrashInFlush, FlushDue, Writes
<1>3. Crash \/ Restart \/ UNCHANGED vars => UNCHANGED files
  BY DEF Crash, Restart, vars
<1> QED BY <1>1, <1>2, <1>3 DEF Next, del

LEMMA NumberedInit == Init => Numbered
<1> SUFFICES ASSUME Init PROVE Numbered
  OBVIOUS
<1>1. DOMAIN files = 0 .. 0 - 1 /\ 0 \in 0 .. MaxTables
  BY MaxTablesAssumption DEF Init
<1> QED BY <1>1 DEF Init, Numbered

(* The number of the next table is the number of tables, in a process that *)
(* wrote some of them and in one that has counted those it found.          *)
LEMMA NumberedNext == Numbered /\ [Next]_vars => Numbered'
<1> SUFFICES ASSUME Numbered, [Next]_vars PROVE Numbered'
  OBVIOUS
<1>1. PICK c \in 0 .. MaxTables : /\ DOMAIN files = 0 .. c - 1
                                  /\ running => sstableCount = c
  BY DEF Numbered
<1>2. ASSUME NEW t, Writes(t)
      PROVE  c + 1 \in 0 .. MaxTables /\ DOMAIN files' = 0 .. (c + 1) - 1
  <2>1. running /\ sstableCount = c /\ c < MaxTables
    BY <1>1, <1>2 DEF Writes
  <2>2. DOMAIN files' = {c} \cup (0 .. c - 1)
    BY <1>1, <1>2, <2>1, WritesEffect
  <2> QED BY <2>1, <2>2, MaxTablesAssumption
<1>3. Cardinality(0 .. c - 1) = c
  BY FS_Interval
<1>4. ASSUME NEW k, NEW v, NEW effect, Put(k, v, effect) PROVE Numbered'
  <2>1. running /\ running' = running
    BY <1>4 DEF Put, PutMemtable, PutFlush, PutOpenFails, PutWriteFails, FlushDue
  <2>2. CASE PutMemtable(k, v, effect) \/ PutOpenFails(k, v, effect)
    BY <1>1, <2>1, <2>2 DEF PutMemtable, PutOpenFails, Numbered
  <2>3. ASSUME NEW t, FlushDue(k, v), WriteSSTable(t) PROVE Numbered'
    <3>1. Writes(t) /\ sstableCount' = sstableCount + 1
      BY <2>3 DEF FlushDue, WriteSSTable, Writes
    <3> QED BY <1>1, <1>2, <2>1, <3>1 DEF Numbered
  <2> QED BY <1>4, <2>2, <2>3 DEF Put, PutFlush, PutWriteFails
<1>5. ASSUME NEW k, NEW v, CrashInFlush(k, v) PROVE Numbered'
  <2>1. PICK t : Writes(t)
    BY <1>5 DEF CrashInFlush, FlushDue, Writes
  <2> QED BY <1>2, <1>5, <2>1 DEF CrashInFlush, Dead, NoCall, Numbered
<1>6. CASE Crash
  BY <1>1, <1>6 DEF Crash, Dead, NoCall, Numbered
<1>7. CASE Restart
  BY <1>1, <1>3, <1>7 DEF Restart, Numbered
<1>8. CASE UNCHANGED vars
  BY <1>8 DEF vars, engine, Numbered
<1> QED BY <1>4, <1>5, <1>6, <1>7, <1>8 DEF Next, del

(* No flush, before or after a restart, reuses the name of a table that is *)
(* there: a table is never modified once it is written (main.cpp 37, 109). *)
THEOREM TablesImmutable == Spec => Immutable
<1>1. Numbered /\ [Next]_vars =>
        [\A n \in DOMAIN files : n \in DOMAIN files' /\ files'[n] = files[n]]_vars
  <2> SUFFICES ASSUME Numbered, [Next]_vars, NEW n \in DOMAIN files
               PROVE  n \in DOMAIN files' /\ files'[n] = files[n]
    OBVIOUS
  <2>1. ASSUME NEW t, Writes(t) PROVE n # sstableCount
    BY <2>1 DEF Numbered, Writes
  <2>2. ASSUME NEW t, Writes(t) PROVE n \in DOMAIN files' /\ files'[n] = files[n]
    BY <2>1, <2>2, WritesEffect
  <2> QED BY <2>2, DirectorySteps
<1> QED BY <1>1, NumberedInit, NumberedNext, PTL DEF Spec, Immutable

-----------------------------------------------------------------------------
(* The order of the tables.                                                *)

\* The tables 0 .. c - 1, the newest first.
Descending(c) == [i \in 1 .. c |-> c - i]

LEMMA BelowSuccessor ==
  ASSUME NEW x \in Nat, NEW y \in Nat, x < y + 1, x # y PROVE x < y
OBVIOUS

(* There is no other way to list them in descending order.                 *)
LEMMA OnlyDescending ==
  ASSUME NEW c \in Nat, NEW t \in [1 .. c -> 0 .. c - 1],
         \A n \in 0 .. c - 1 : \E i \in 1 .. c : t[i] = n,
         \A i, j \in 1 .. c : i < j => t[i] > t[j]
  PROVE  t = Descending(c)
<1> DEFINE wrong == {i \in 1 .. c : t[i] # c - i}
<1> SUFFICES ASSUME wrong # {} PROVE FALSE
  BY DEF Descending
<1>1. PICK m \in 1 .. c : t[m] # c - m /\ \A i \in 1 .. c : t[i] # c - i => m <= i
  <2>1. wrong \in SUBSET Nat
    OBVIOUS
  <2> QED BY <2>1, MinOfNaturals
<1>2. t[m] < c - m
  <2>1. CASE m = 1
    BY <1>1, <2>1
  <2>2. CASE m # 1
    <3>1. m - 1 \in 1 .. c /\ m - 1 < m /\ ~ (m <= m - 1)
      BY <2>2
    <3>2. t[m - 1] = c - (m - 1)
      BY <1>1, <3>1
    <3>3. t[m - 1] > t[m]
      BY <3>1
    <3>4. t[m] \in Nat /\ c - m \in Nat /\ t[m] < (c - m) + 1 /\ t[m] # c - m
      BY <1>1, <3>2, <3>3
    <3> QED BY <3>4, BelowSuccessor
  <2> QED BY <2>1, <2>2
<1>3. c - m \in 0 .. c - 1
  OBVIOUS
<1>4. PICK j \in 1 .. c : t[j] = c - m
  BY <1>3
<1>5. CASE j < m
  <2>1. t[j] = c - j
    BY <1>1, <1>5
  <2> QED BY <1>4, <1>5, <2>1
<1>6. CASE j > m
  <2>1. t[m] > t[j]
    BY <1>6
  <2> QED BY <1>2, <1>4, <2>1
<1>7. CASE j = m
  BY <1>2, <1>4, <1>7
<1> QED BY <1>5, <1>6, <1>7

(* std::sort brings the tables into that order, however they are listed.   *)
LEMMA SortsDescending ==
  ASSUME NamesFit, NEW c \in 0 .. MaxTables, NEW s \in Bijection(1 .. c, 0 .. c - 1)
  PROVE  SortedPaths(s) = Descending(c)
<1> DEFINE D == 1 .. c
           InOrder(p) == \A i, j \in D : i < j => ~ NameGreater(s[p[j]], s[p[i]])
<1>1. /\ s \in [D -> 0 .. c - 1] /\ DOMAIN s = D
      /\ \A i, j \in D : s[i] = s[j] => i = j
      /\ \A n \in 0 .. c - 1 : \E i \in D : s[i] = n
  BY DEF Bijection, Injection, Surjection, IsInjective
<1>2. \A m, n \in 0 .. c - 1 : NameGreater(m, n) <=> m > n
  <2>1. \A n \in 0 .. c - 1 : n \in 0 .. MaxTables - 1
    BY MaxTablesAssumption
  <2> QED BY <2>1, NamesInOrder
<1>3. \E p \in Bijection(D, D) : InOrder(p)
  <2> DEFINE p == [i \in D |-> CHOOSE j \in D : s[j] = c - i]
  <2>1. \A i \in D : c - i \in 0 .. c - 1
    OBVIOUS
  <2>2. \A i \in D : p[i] \in D /\ s[p[i]] = c - i
    BY <1>1, <2>1
  <2>3. p \in [D -> D]
    BY <2>2
  <2> HIDE DEF p
  <2>4. \A i, j \in D : p[i] = p[j] => i = j
    <3>1. \A i, j \in D : p[i] = p[j] => c - i = c - j
      BY <2>2
    <3> QED BY <3>1
  <2>5. \A w \in D : \E v \in D : p[v] = w
    <3> SUFFICES ASSUME NEW w \in D PROVE \E v \in D : p[v] = w
      OBVIOUS
    <3>1. c - s[w] \in D /\ c - (c - s[w]) = s[w]
      BY <1>1
    <3>2. s[p[c - s[w]]] = s[w] /\ p[c - s[w]] \in D
      BY <2>2, <3>1
    <3> QED BY <1>1, <3>1, <3>2
  <2>6. p \in Bijection(D, D)
    BY <2>3, <2>4, <2>5 DEF Bijection, Injection, Surjection, IsInjective
  <2>7. InOrder(p)
    BY <1>2, <2>1, <2>2
  <2> QED BY <2>6, <2>7
<1> DEFINE perm == CHOOSE p \in Bijection(D, D) : InOrder(p)
           t == [i \in D |-> s[perm[i]]]
<1>4. perm \in Bijection(D, D) /\ InOrder(perm)
  BY <1>3
<1>5. SortedPaths(s) = t
  BY <1>1 DEF SortedPaths
<1> HIDE DEF perm
<1>6. /\ perm \in [D -> D]
      /\ \A i, j \in D : perm[i] = perm[j] => i = j
      /\ \A w \in D : \E v \in D : perm[v] = w
  BY <1>4 DEF Bijection, Injection, Surjection, IsInjective
<1>7. t \in [D -> 0 .. c - 1] /\ \A i \in D : t[i] = s[perm[i]]
  BY <1>1, <1>6
<1> HIDE DEF t
<1>8. \A n \in 0 .. c - 1 : \E i \in D : t[i] = n
  <2> SUFFICES ASSUME NEW n \in 0 .. c - 1 PROVE \E i \in D : t[i] = n
    OBVIOUS
  <2>1. PICK w \in D : s[w] = n
    BY <1>1
  <2>2. PICK v \in D : perm[v] = w
    BY <1>6
  <2> QED BY <1>7, <2>1, <2>2
<1>9. \A i, j \in D : i < j => t[i] > t[j]
  <2> SUFFICES ASSUME NEW i \in D, NEW j \in D, i < j PROVE t[i] > t[j]
    OBVIOUS
  <2>1. t[i] \in 0 .. c - 1 /\ t[j] \in 0 .. c - 1
    BY <1>7
  <2>2. ~ (t[j] > t[i])
    BY <1>2, <1>4, <1>7, <2>1
  <2>3. t[i] # t[j]
    <3>1. perm[i] \in D /\ perm[j] \in D /\ perm[i] # perm[j]
      BY <1>6
    <3>2. s[perm[i]] # s[perm[j]]
      BY <1>1, <3>1
    <3> QED BY <1>7, <3>2
  <2> QED BY <2>1, <2>2, <2>3
<1>10. c \in Nat /\ t \in [1 .. c -> 0 .. c - 1]
  BY <1>7, MaxTablesAssumption
<1>11. t = Descending(c)
  BY <1>8, <1>9, <1>10, OnlyDescending
<1> QED BY <1>5, <1>11

(* The list after a flush, before it is sorted, and the list that a new    *)
(* process collects have every table once.                                 *)
LEMMA ListsAll ==
  ASSUME NEW c \in Nat
  PROVE  /\ Append(Descending(c), c) \in Bijection(1 .. c + 1, 0 .. (c + 1) - 1)
         /\ SetToSeq(0 .. c - 1) \in Bijection(1 .. c, 0 .. c - 1)
<1> DEFINE s == Append(Descending(c), c)
           f == SetToSeq(0 .. c - 1)
<1>1. /\ Descending(c) \in Seq(0 .. c - 1) /\ Len(Descending(c)) = c
      /\ \A i \in 1 .. c : Descending(c)[i] = c - i
  BY DEF Descending
<1>2. /\ s \in [1 .. c + 1 -> 0 .. c]
      /\ s[c + 1] = c /\ \A i \in 1 .. c : s[i] = c - i
  <2>1. Descending(c) \in Seq(0 .. c)
    BY DEF Descending
  <2> HIDE DEF Descending
  <2>2. s \in Seq(0 .. c) /\ Len(s) = c + 1
    BY <1>1, <2>1
  <2>3. s[c + 1] = c /\ \A i \in 1 .. c : s[i] = Descending(c)[i]
    BY <1>1, <2>1
  <2> HIDE DEF s
  <2> QED BY <1>1, <2>2, <2>3
<1>3. s \in Bijection(1 .. c + 1, 0 .. (c + 1) - 1)
  <2> HIDE DEF s
  <2>0. (c + 1) - 1 = c
    OBVIOUS
  <2>1. \A i, j \in 1 .. c + 1 : s[i] = s[j] => i = j
    BY <1>2
  <2>2. \A n \in 0 .. c : \E i \in 1 .. c + 1 : s[i] = n
    <3> SUFFICES ASSUME NEW n \in 0 .. c PROVE \E i \in 1 .. c + 1 : s[i] = n
      OBVIOUS
    <3>1. CASE n = c
      BY <1>2, <3>1
    <3>2. CASE n # c
      <4>1. c - n \in 1 .. c /\ c - n \in 1 .. c + 1 /\ c - (c - n) = n
        BY <3>2
      <4> QED BY <1>2, <4>1
    <3> QED BY <3>1, <3>2
  <2> QED BY <1>2, <2>0, <2>1, <2>2 DEF Bijection, Injection, Surjection, IsInjective
<1>4. /\ IsFiniteSet(0 .. c - 1) /\ IsFiniteSet(1 .. c)
      /\ Cardinality(0 .. c - 1) = c /\ Cardinality(1 .. c) = c
  BY FS_Interval
<1>5. \E g \in [1 .. c -> 0 .. c - 1] : IsInjective(g)
  <2>1. Descending(c) \in [1 .. c -> 0 .. c - 1] /\ IsInjective(Descending(c))
    BY DEF Descending, IsInjective
  <2> QED BY <2>1
<1>6. f \in Injection(1 .. c, 0 .. c - 1)
  BY <1>4, <1>5 DEF SetToSeq, Injection
<1>7. f \in Surjection(1 .. c, 0 .. c - 1)
  <2> HIDE DEF f
  <2> QED BY <1>4, <1>6, FS_Injection
<1> QED BY <1>3, <1>6, <1>7 DEF Bijection

\* A running process lists the tables from the newest to the oldest.
Ordered ==
  /\ Numbered /\ DOMAIN memtable \subseteq Key
  /\ running => sstablePaths = Descending(sstableCount)

LEMMA OrderedInit == Init => Ordered
<1>1. <<>> = Descending(0)
  BY DEF Descending
<1> QED BY <1>1, NumberedInit DEF Init, Ordered, NoEntries

LEMMA OrderedNext == NamesFit /\ Ordered /\ [Next]_vars => Ordered'
<1> SUFFICES ASSUME NamesFit, Ordered, [Next]_vars PROVE Ordered'
  OBVIOUS
<1>1. PICK c \in 0 .. MaxTables : /\ DOMAIN files = 0 .. c - 1
                                  /\ running => sstableCount = c
  BY DEF Ordered, Numbered
<1>2. c \in Nat /\ Cardinality(0 .. c - 1) = c
  BY FS_Interval, MaxTablesAssumption
<1>3. Numbered'
  BY NumberedNext DEF Ordered
<1>4. ASSUME NEW k \in Key, NEW v, NEW effect, Put(k, v, effect) PROVE Ordered'
  <2>1. running /\ sstableCount = c /\ sstablePaths = Descending(c)
    BY <1>1, <1>4 DEF Put, PutMemtable, PutFlush, PutOpenFails, PutWriteFails, FlushDue,
                      Ordered
  <2>2. CASE PutMemtable(k, v, effect)
    <3>1. DOMAIN memtable' \subseteq Key
      BY <2>2 DEF PutMemtable, With, Entered, Ordered
    <3> QED BY <1>3, <2>1, <2>2, <3>1 DEF PutMemtable, Ordered
  <2>3. CASE PutOpenFails(k, v, effect)
    BY <1>3, <2>1, <2>3 DEF PutOpenFails, NoEntries, Ordered
  <2>4. ASSUME NEW t, FlushDue(k, v), WriteSSTable(t), memtable' = NoEntries
        PROVE  Ordered'
    <3>1. c + 1 \in 0 .. MaxTables /\ sstableCount' = c + 1
      BY <2>1, <2>4, MaxTablesAssumption DEF FlushDue, WriteSSTable
    <3>2. sstablePaths' = SortedPaths(Append(Descending(c), c))
      BY <2>1, <2>4 DEF WriteSSTable
    <3>3. Append(Descending(c), c) \in Bijection(1 .. c + 1, 0 .. (c + 1) - 1)
      BY <1>2, ListsAll
    <3>4. sstablePaths' = Descending(c + 1)
      BY <3>1, <3>2, <3>3, SortsDescending
    <3> QED BY <1>3, <2>4, <3>1, <3>4 DEF Ordered, NoEntries
  <2> QED BY <1>4, <2>2, <2>3, <2>4 DEF Put, PutFlush, PutWriteFails
<1>5. CASE running' = FALSE /\ memtable' = NoEntries
  BY <1>3, <1>5 DEF Ordered, NoEntries
<1>6. CASE Restart
  <2>1. sstableCount' = c /\ sstablePaths' = SortedPaths(SetToSeq(0 .. c - 1))
    BY <1>1, <1>2, <1>6 DEF Restart
  <2>2. sstablePaths' = Descending(c)
    BY <1>2, <2>1, ListsAll, SortsDescending
  <2> QED BY <1>3, <1>6, <2>1, <2>2 DEF Restart, Ordered
<1>7. CASE UNCHANGED vars
  BY <1>3, <1>7 DEF vars, engine, Ordered
<1> QED BY <1>4, <1>5, <1>6, <1>7 DEF Next, del, Crash, CrashInFlush, Dead

(* While the names have the digits they are padded to, sstablePaths lists  *)
(* every table once, from the newest to the oldest, whatever mixture of    *)
(* flushes, failures and restarts built it (main.cpp 39, 108).             *)
THEOREM TablesNewestFirst == NamesFit /\ Spec => []NewestFirst
<1> SUFFICES ASSUME NamesFit PROVE Spec => []NewestFirst
  OBVIOUS
<1>1. Ordered => NewestFirst
  <2> SUFFICES ASSUME Ordered, running PROVE /\ ToSet(sstablePaths) = DOMAIN files
                                             /\ \A i, j \in DOMAIN sstablePaths :
                                                  i < j => sstablePaths[i] > sstablePaths[j]
    BY DEF NewestFirst
  <2>1. PICK c \in 0 .. MaxTables : DOMAIN files = 0 .. c - 1 /\ sstableCount = c
    BY DEF Ordered, Numbered
  <2>2. /\ DOMAIN sstablePaths = 1 .. c
        /\ \A i \in 1 .. c : sstablePaths[i] = c - i
    BY <2>1 DEF Ordered, Descending
  <2>3. \A n \in 0 .. c - 1 : c - n \in 1 .. c /\ c - (c - n) = n
    OBVIOUS
  <2>4. ToSet(sstablePaths) = 0 .. c - 1
    BY <2>2, <2>3 DEF ToSet
  <2> QED BY <2>1, <2>2, <2>4
<1>2. Ordered /\ [Next]_vars => Ordered'
  BY OrderedNext
<1> QED BY <1>1, <1>2, OrderedInit, PTL DEF Spec

-----------------------------------------------------------------------------
(* What get answers.                                                       *)

\* Search and Saved over the tables F.
Hits(F, k) == {n \in DOMAIN F : k \in DOMAIN F[n]}
SearchIn(F, paths, k) ==
  LET hits == {i \in DOMAIN paths : k \in DOMAIN F[paths[i]]}
  IN IF hits = {} THEN NotFound ELSE Visible(F[paths[Min(hits)]][k])
SavedIn(F, k) ==
  IF Hits(F, k) = {} THEN NotFound
  ELSE Visible(F[CHOOSE n \in Hits(F, k) :
                   \A m \in Hits(F, k) \ {n} : NameGreater(n, m)][k])

(* A new process answers from the newest table that has the key.           *)
LEMMA SavedInNewest ==
  ASSUME NamesFit, NEW c \in 0 .. MaxTables, NEW F, DOMAIN F = 0 .. c - 1, NEW k,
         NEW n \in Hits(F, k), \A m \in Hits(F, k) : m <= n
  PROVE  SavedIn(F, k) = Visible(F[n][k])
<1>1. \A m \in Hits(F, k) : m \in 0 .. MaxTables - 1
  BY MaxTablesAssumption DEF Hits
<1>2. \A m \in Hits(F, k) \ {n} : NameGreater(n, m) /\ ~ NameGreater(m, n)
  <2> SUFFICES ASSUME NEW m \in Hits(F, k) \ {n}
               PROVE  NameGreater(n, m) /\ ~ NameGreater(m, n)
    OBVIOUS
  <2>1. m \in 0 .. MaxTables - 1 /\ n \in 0 .. MaxTables - 1 /\ n > m /\ ~ (m > n)
    BY <1>1
  <2>2. NameGreater(n, m)
    BY <2>1, NamesInOrder
  <2>3. ~ NameGreater(m, n)
    BY <2>1, NamesInOrder
  <2> QED BY <2>2, <2>3
<1>3. n = CHOOSE x \in Hits(F, k) : \A m \in Hits(F, k) \ {x} : NameGreater(x, m)
  <2> DEFINE P(x) == \A m \in Hits(F, k) \ {x} : NameGreater(x, m)
  <2>1. P(n)
    BY <1>2
  <2>2. \A x \in Hits(F, k) : P(x) => x = n
    BY <1>2
  <2> HIDE DEF P
  <2>3. n = CHOOSE x \in Hits(F, k) : P(x)
    BY <2>1, <2>2
  <2> QED BY <2>3 DEF P
<1> QED BY <1>3 DEF SavedIn

(* So does one that lists the tables newest first.                         *)
LEMMA SearchIsSaved ==
  ASSUME NamesFit, NEW c \in 0 .. MaxTables, NEW F, DOMAIN F = 0 .. c - 1, NEW k
  PROVE  SearchIn(F, Descending(c), k) = SavedIn(F, k)
<1> DEFINE hits == {i \in 1 .. c : k \in DOMAIN F[c - i]}
<1>1. /\ DOMAIN Descending(c) = 1 .. c
      /\ \A i \in 1 .. c : Descending(c)[i] = c - i
  BY DEF Descending
<1>2. {i \in DOMAIN Descending(c) : k \in DOMAIN F[Descending(c)[i]]} = hits
  BY <1>1
<1>3. \A n \in Hits(F, k) : c - n \in hits
  <2>1. \A n \in 0 .. c - 1 : c - n \in 1 .. c /\ c - (c - n) = n
    OBVIOUS
  <2> QED BY <2>1 DEF Hits
<1>4. \A i \in hits : c - i \in Hits(F, k)
  BY DEF Hits
<1>5. CASE hits = {}
  BY <1>2, <1>3, <1>5 DEF SearchIn, SavedIn
<1>6. CASE hits # {}
  <2>1. hits \in SUBSET Nat
    OBVIOUS
  <2>2. PICK m \in 1 .. c : m = Min(hits) /\ m \in hits /\ \A i \in hits : m <= i
    BY <1>6, <2>1, MinOfNaturals
  <2>3. c - m \in Hits(F, k)
    BY <1>4, <2>2
  <2>4. \A n \in Hits(F, k) : n <= c - m
    <3> SUFFICES ASSUME NEW n \in Hits(F, k) PROVE n <= c - m
      OBVIOUS
    <3>1. n \in 0 .. c - 1 /\ m <= c - n
      BY <1>3, <2>2 DEF Hits
    <3> QED BY <3>1
  <2>5. SavedIn(F, k) = Visible(F[c - m][k])
    BY <2>3, <2>4, SavedInNewest
  <2>6. SearchIn(F, Descending(c), k) = Visible(F[c - m][k])
    BY <1>1, <1>2, <1>6, <2>2 DEF SearchIn
  <2> QED BY <2>5, <2>6
<1> QED BY <1>5, <1>6

(* A table that is written answers for the keys it has, and for no other.  *)
LEMMA SavedAfterWrite ==
  ASSUME NamesFit, NEW c \in Nat, c < MaxTables,
         NEW F, DOMAIN F = 0 .. c - 1, NEW G, DOMAIN G = 0 .. c,
         \A n \in 0 .. c - 1 : G[n] = F[n], NEW k
  PROVE  SavedIn(G, k) = IF k \in DOMAIN G[c] THEN Visible(G[c][k]) ELSE SavedIn(F, k)
<1>1. /\ c \in 0 .. MaxTables /\ c + 1 \in 0 .. MaxTables
      /\ DOMAIN G = 0 .. (c + 1) - 1
  BY MaxTablesAssumption
<1>2. CASE k \in DOMAIN G[c]
  <2>1. c \in Hits(G, k) /\ \A m \in Hits(G, k) : m <= c
    BY <1>2 DEF Hits
  <2> QED BY <1>1, <1>2, <2>1, SavedInNewest
<1>3. CASE k \notin DOMAIN G[c]
  <2>1. Hits(G, k) = Hits(F, k)
    BY <1>3 DEF Hits
  <2>2. \A n \in Hits(F, k) : G[n] = F[n]
    BY DEF Hits
  <2>3. CASE Hits(F, k) = {}
    BY <1>3, <2>1, <2>3 DEF SavedIn
  <2>4. CASE Hits(F, k) # {}
    <3> DEFINE fromEnd == {i \in 1 .. c : c - i \in Hits(F, k)}
    <3>1. \A n \in Hits(F, k) : c - n \in fromEnd
      BY DEF Hits
    <3>2. fromEnd \in SUBSET Nat /\ fromEnd # {}
      BY <2>4, <3>1
    <3>3. PICK m \in fromEnd : \A i \in fromEnd : m <= i
      BY <3>2, MinOfNaturals
    <3>4. c - m \in Hits(F, k)
      OBVIOUS
    <3>5. \A n \in Hits(F, k) : n <= c - m
      <4> SUFFICES ASSUME NEW n \in Hits(F, k) PROVE n <= c - m
        OBVIOUS
      <4>1. n \in 0 .. c - 1 /\ m <= c - n
        BY <3>1, <3>3 DEF Hits
      <4> QED BY <4>1
    <3>6. SavedIn(F, k) = Visible(F[c - m][k])
      BY <1>1, <3>4, <3>5, SavedInNewest
    <3>7. SavedIn(G, k) = Visible(G[c - m][k])
      BY <1>1, <2>1, <3>4, <3>5, SavedInNewest
    <3> QED BY <1>3, <2>2, <3>4, <3>6, <3>7
  <2> QED BY <2>3, <2>4
<1> QED BY <1>2, <1>3

\* What a caller is answered, and after a crash what a new process answers.
Shown(k) == IF k \in DOMAIN memtable THEN Visible(memtable[k]) ELSE SavedIn(files, k)

LEMMA Shows ==
  ASSUME NamesFit, Ordered, NEW k
  PROVE  Saved(k) = SavedIn(files, k) /\ (IF running THEN get(k) ELSE Saved(k)) = Shown(k)
<1>1. Saved(k) = SavedIn(files, k)
  BY DEF Saved, SavedIn, Hits
<1>2. CASE running
  <2>1. /\ sstableCount \in 0 .. MaxTables /\ DOMAIN files = 0 .. sstableCount - 1
        /\ sstablePaths = Descending(sstableCount)
    BY <1>2 DEF Ordered, Numbered
  <2>2. Search(sstablePaths, k) = SavedIn(files, k)
    <3>1. Search(sstablePaths, k) = SearchIn(files, sstablePaths, k)
      BY DEF Search, SearchIn
    <3> QED BY <2>1, <3>1, SearchIsSaved
  <2> QED BY <1>1, <1>2, <2>2 DEF get, Shown
<1>3. CASE ~ running
  BY <1>1, <1>3 DEF Ordered, Numbered, NoEntries, Shown
<1> QED BY <1>1, <1>2, <1>3

(* The same in the next state.                                             *)
LEMMA ShowsNext ==
  ASSUME NamesFit, Ordered', NEW k
  PROVE  /\ Saved(k)' = SavedIn(files', k)
         /\ (IF running' THEN get(k)' ELSE Saved(k)') = Shown(k)'
<1>1. Saved(k)' = SavedIn(files', k)
  BY DEF Saved, SavedIn, Hits
<1>2. CASE running'
  <2>1. /\ sstableCount' \in 0 .. MaxTables /\ DOMAIN files' = 0 .. sstableCount' - 1
        /\ sstablePaths' = Descending(sstableCount')
    BY <1>2 DEF Ordered, Numbered
  <2>2. Search(sstablePaths, k)' = SavedIn(files', k)
    <3>1. Search(sstablePaths, k)' = SearchIn(files', sstablePaths', k)
      BY DEF Search, SearchIn
    <3> QED BY <2>1, <3>1, SearchIsSaved
  <2> QED BY <1>1, <1>2, <2>2 DEF get, Shown
<1>3. CASE ~ running'
  BY <1>1, <1>3 DEF Ordered, Numbered, NoEntries, Shown
<1> QED BY <1>1, <1>2, <1>3

LEMMA WriteShows ==
  ASSUME NamesFit, Ordered, NEW t, Writes(t), NEW k
  PROVE  SavedIn(files', k) = IF k \in DOMAIN t THEN Visible(t[k]) ELSE SavedIn(files, k)
<1> DEFINE c == sstableCount
<1>1. c \in Nat /\ c < MaxTables /\ DOMAIN files = 0 .. c - 1
  BY MaxTablesAssumption DEF Ordered, Numbered, Writes
<1>2. /\ DOMAIN files' = {c} \cup (0 .. c - 1) /\ files'[c] = t
      /\ \A n \in 0 .. c - 1 : n # c => files'[n] = files[n]
  BY <1>1, WritesEffect
<1>3. DOMAIN files' = 0 .. c /\ \A n \in 0 .. c - 1 : files'[n] = files[n]
  BY <1>1, <1>2
<1> QED BY <1>1, <1>2, <1>3, SavedAfterWrite

\* What a call may store, and what its caller expects to be answered then.
Expects(v, effect) == (v \in Value /\ effect = v) \/ (v = TOMBSTONE /\ effect = NotFound)

LEMMA ExpectsVisible ==
  ASSUME NoEmptyValue, NEW v, NEW effect, Expects(v, effect)
  PROVE  Visible(v) = effect /\ effect \in Value \cup {NotFound}
BY DEF NoEmptyValue, Expects, Visible, TOMBSTONE

(* A call that succeeds is visible at once and changes no other key, and   *)
(* if it flushes everything that is visible is saved.                      *)
LEMMA PutShows ==
  ASSUME NamesFit, NoEmptyValue, Ordered, NEW k \in Key, NEW v, NEW effect,
         Expects(v, effect),
         PutMemtable(k, v, effect) \/ PutFlush(k, v, effect)
  PROVE  /\ \A x : Shown(x)' = IF x = k THEN effect ELSE Shown(x)
         /\ \/ files' = files
            \/ \A x : SavedIn(files', x) = Shown(x)'
<1>1. /\ DOMAIN With(k, v) = {k} \cup DOMAIN memtable /\ With(k, v)[k] = v
      /\ \A x \in DOMAIN memtable : x # k => With(k, v)[x] = memtable[x]
  BY DEF With, Entered
<1>2. Visible(v) = effect
  BY ExpectsVisible
<1>3. CASE PutMemtable(k, v, effect)
  <2>1. memtable' = With(k, v) /\ files' = files
    BY <1>3 DEF PutMemtable
  <2> QED BY <1>1, <1>2, <2>1 DEF Shown
<1>4. CASE PutFlush(k, v, effect)
  <2>1. Writes(With(k, v)) /\ DOMAIN memtable' = {}
    BY <1>4 DEF PutFlush, FlushDue, WriteSSTable, Writes, NoEntries
  <2>2. \A x : Shown(x)' = SavedIn(files', x)
    BY <2>1 DEF Shown
  <2>3. \A x : SavedIn(files', x) = IF x \in DOMAIN With(k, v) THEN Visible(With(k, v)[x])
                                    ELSE SavedIn(files, x)
    BY <2>1, WriteShows
  <2>4. \A x : SavedIn(files', x) = IF x = k THEN effect ELSE Shown(x)
    BY <1>1, <1>2, <2>3 DEF Shown
  <2> QED BY <2>2, <2>4
<1> QED BY <1>3, <1>4

\* The last call, if its I/O worked.
Answered == call.io => Shown(call.key) = call.effect

LEMMA AnsweredNext ==
  ASSUME NamesFit, NoEmptyValue, Ordered, Answered, [Next]_vars
  PROVE  Answered'
<1>1. ASSUME NEW k \in Key, NEW v, NEW effect, Expects(v, effect), Put(k, v, effect)
      PROVE  Answered'
  <2>1. CASE PutMemtable(k, v, effect) \/ PutFlush(k, v, effect)
    <3>1. call' = [key |-> k, effect |-> effect, io |-> TRUE]
      BY <2>1 DEF PutMemtable, PutFlush
    <3>2. Shown(k)' = effect
      BY <1>1, <2>1, PutShows
    <3>3. Shown(call.key)' = Shown(k)'
      BY <3>1 DEF Shown
    <3> QED BY <3>1, <3>2, <3>3 DEF Answered
  <2>2. CASE PutOpenFails(k, v, effect) \/ PutWriteFails(k, v, effect)
    BY <2>2 DEF PutOpenFails, PutWriteFails, Answered
  <2> QED BY <1>1, <2>1, <2>2 DEF Put
<1>2. CASE Crash \/ \E k, v : CrashInFlush(k, v)
  BY <1>2 DEF Crash, CrashInFlush, Dead, NoCall, Answered
<1>3. CASE Restart
  BY <1>3 DEF Restart, Ordered, Numbered, Answered
<1>4. CASE UNCHANGED vars
  BY <1>4 DEF vars, engine, Answered, Shown
<1> QED BY <1>1, <1>2, <1>3, <1>4 DEF Next, del, Expects

(* A caller reads its own write, wherever the flush moved the entry, and   *)
(* whatever failed in calls and processes before (main.cpp 42-73).         *)
THEOREM CallersReadTheirWrites ==
  NamesFit /\ NoEmptyValue /\ Spec => []ReadYourWrite
<1> SUFFICES ASSUME NamesFit, NoEmptyValue PROVE Spec => []ReadYourWrite
  OBVIOUS
<1>1. Init => Ordered /\ Answered
  BY OrderedInit DEF Init, NoCall, Answered
<1>2. Ordered /\ Answered /\ [Next]_vars => Ordered' /\ Answered'
  BY OrderedNext, AnsweredNext
<1>3. Ordered /\ Answered => ReadYourWrite
  <2> SUFFICES ASSUME Ordered, Answered, call.io PROVE get(call.key) = call.effect
    BY DEF ReadYourWrite
  <2>1. running
    BY DEF Ordered, Numbered
  <2> QED BY <2>1, Shows DEF Answered
<1> QED BY <1>1, <1>2, <1>3, PTL DEF Spec

-----------------------------------------------------------------------------
(* The engine implements the key-value store.                              *)

\* The store and the durable map that the engine represents.
Store == [k \in Key |-> Shown(k)]
Durable == [k \in Key |-> SavedIn(files, k)]

LEMMA Represents ==
  ASSUME NamesFit, Ordered
  PROVE  /\ [k \in Key |-> IF running THEN get(k) ELSE Saved(k)] = Store
         /\ [k \in Key |-> Saved(k)] = Durable
BY Shows DEF Store, Durable

LEMMA RepresentsNext ==
  ASSUME NamesFit, Ordered'
  PROVE  /\ [k \in Key |-> IF running THEN get(k) ELSE Saved(k)]' = Store'
         /\ [k \in Key |-> Saved(k)]' = Durable'
BY ShowsNext DEF Store, Durable

(* Of a table that was cut off there are the entries of the smallest keys, *)
(* and perhaps the damaged one of the next.                                *)
LEMMA CutOffKeys ==
  ASSUME NEW t, DOMAIN t \subseteq Nat, NEW cut \in CutOff(t)
  PROVE  \E k \in DOMAIN t :
           /\ \A x \in DOMAIN t : x < k => x \in DOMAIN cut /\ cut[x] = t[x]
           /\ \A x \in DOMAIN cut : x = k \/ (x \in DOMAIN t /\ x < k)
           /\ k \in DOMAIN cut => cut[k] = Torn
<1> DEFINE Before(k) == [x \in {y \in DOMAIN t : y < k} |-> t[x]]
<1>1. ASSUME NEW k \in DOMAIN t, cut = Before(k)
      PROVE  /\ \A x \in DOMAIN t : x < k => x \in DOMAIN cut /\ cut[x] = t[x]
             /\ \A x \in DOMAIN cut : x = k \/ (x \in DOMAIN t /\ x < k)
             /\ k \in DOMAIN cut => cut[k] = Torn
  BY <1>1
<1>2. ASSUME NEW k \in DOMAIN t, cut = Entered(Before(k), k, Torn)
      PROVE  /\ \A x \in DOMAIN t : x < k => x \in DOMAIN cut /\ cut[x] = t[x]
             /\ \A x \in DOMAIN cut : x = k \/ (x \in DOMAIN t /\ x < k)
             /\ k \in DOMAIN cut => cut[k] = Torn
  <2>1. DOMAIN Before(k) = {y \in DOMAIN t : y < k} /\ k \in Nat
    OBVIOUS
  <2>2. \A x \in DOMAIN t : x < k => x \in DOMAIN Before(k) /\ Before(k)[x] = t[x] /\ x # k
    BY <2>1
  <2>3. /\ DOMAIN cut = {k} \cup DOMAIN Before(k) /\ cut[k] = Torn
        /\ \A x \in DOMAIN Before(k) : x # k => cut[x] = Before(k)[x]
    BY <1>2 DEF Entered
  <2> HIDE DEF Before
  <2> QED BY <2>1, <2>2, <2>3
<1> QED BY <1>1, <1>2 DEF CutOff

(* A flush that a crash or a full disk cuts short loses no more than the   *)
(* store allows.                                                           *)
LEMMA CutShortLoses ==
  ASSUME NamesFit, NoEmptyValue, Ordered, Ordered', NEW k \in Key, NEW v, NEW effect,
         Expects(v, effect), NEW t \in CutOff(With(k, v)), Writes(t),
         memtable' = NoEntries, ~ call'.io
  PROVE  Abstract!Next
<1>1. /\ DOMAIN With(k, v) = {k} \cup DOMAIN memtable /\ With(k, v)[k] = v
      /\ \A x \in DOMAIN memtable : x # k => With(k, v)[x] = memtable[x]
      /\ DOMAIN With(k, v) \subseteq Key
  BY DEF With, Entered, Ordered
<1>2. \A x : SavedIn(files', x) = IF x \in DOMAIN t THEN Visible(t[x])
                                  ELSE SavedIn(files, x)
  BY WriteShows
<1>3. Store' = Durable' /\ DOMAIN Durable' = Key
  BY DEF Shown, NoEntries, Store, Durable
<1> HIDE DEF With
<1>4. PICK cut \in DOMAIN With(k, v) :
        /\ \A x \in DOMAIN With(k, v) : x < cut =>
                                          x \in DOMAIN t /\ t[x] = With(k, v)[x]
        /\ \A x \in DOMAIN t : x = cut \/ (x \in DOMAIN With(k, v) /\ x < cut)
        /\ cut \in DOMAIN t => t[cut] = Torn
  BY <1>1, CutOffKeys, KeyAssumption
<1>5. cut \in Key /\ Visible(v) = effect /\ effect \in Value \cup {NotFound}
  BY <1>1, ExpectsVisible
<1>6. Durable'[cut] \in {Durable[cut], Torn}
  BY <1>2, <1>4, <1>5, TornAssumption DEF Durable, Visible, TOMBSTONE
<1>7. \A x \in Key : x < cut => Durable'[x] = IF x = k THEN effect ELSE Store[x]
  <2> SUFFICES ASSUME NEW x \in Key, x < cut
               PROVE  SavedIn(files', x) = IF x = k THEN effect ELSE Shown(x)
    BY DEF Durable, Store
  <2>1. x # cut
    BY <1>5, KeyAssumption
  <2>2. CASE x \in DOMAIN With(k, v)
    BY <1>1, <1>2, <1>4, <1>5, <2>1, <2>2 DEF Shown
  <2>3. CASE x \notin DOMAIN With(k, v)
    BY <1>1, <1>2, <1>4, <2>1, <2>3 DEF Shown
  <2> QED BY <2>2, <2>3
<1>8. \A x \in Key : x > cut => Durable'[x] = Durable[x]
  <2> SUFFICES ASSUME NEW x \in Key, x > cut
               PROVE  SavedIn(files', x) = SavedIn(files, x)
    BY DEF Durable
  <2>1. x \notin DOMAIN t
    BY <1>4, <1>5, KeyAssumption
  <2> QED BY <1>2, <2>1
<1>9. Abstract!LoseSaving(k, effect)
  BY <1>3, <1>5, <1>6, <1>7, <1>8, Represents, RepresentsNext DEF Abstract!LoseSaving
<1> QED BY <1>5, <1>9 DEF Abstract!Next

(* A step in which the memtable is lost and no table is written.           *)
LEMMA MemtableLost ==
  ASSUME NamesFit, Ordered, Ordered', memtable' = NoEntries, files' = files, ~ call'.io
  PROVE  Abstract!Next
<1>1. Store' = Durable' /\ Durable' = Durable
  BY DEF Shown, NoEntries, Store, Durable
<1> QED BY <1>1, Represents, RepresentsNext DEF Abstract!Lose, Abstract!Next

(* Every step of the engine is one of the store, or changes none of it.    *)
LEMMA StoreStep ==
  ASSUME NamesFit, NoEmptyValue, Ordered, Ordered', [Next]_vars
  PROVE  Abstract!Next \/ UNCHANGED Abstract!vars
<1>1. ASSUME NEW k \in Key, NEW v, NEW effect, Expects(v, effect), Put(k, v, effect)
      PROVE  Abstract!Next
  <2>1. CASE PutMemtable(k, v, effect) \/ PutFlush(k, v, effect)
    <3>1. call' = [key |-> k, effect |-> effect, io |-> TRUE]
      BY <2>1 DEF PutMemtable, PutFlush
    <3>2. /\ \A x : Shown(x)' = IF x = k THEN effect ELSE Shown(x)
          /\ files' = files \/ \A x : SavedIn(files', x) = Shown(x)'
      BY <1>1, <2>1, PutShows
    <3>3. Store' = [Store EXCEPT ![k] = effect]
      BY <3>2 DEF Store
    <3>4. Durable' \in {Durable, Store'}
      BY <3>2 DEF Durable, Store
    <3>5. Abstract!Set(k, effect)
      BY <3>1, <3>3, <3>4, Represents, RepresentsNext DEF Abstract!Set
    <3> QED BY <1>1, <3>5, ExpectsVisible DEF Abstract!Next
  <2>2. CASE PutOpenFails(k, v, effect)
    BY <2>2, MemtableLost DEF PutOpenFails
  <2>3. CASE PutWriteFails(k, v, effect)
    <3>1. PICK t \in CutOff(With(k, v)) : Writes(t)
      BY <2>3 DEF PutWriteFails, FlushDue, WriteSSTable, Writes
    <3>2. memtable' = NoEntries /\ ~ call'.io
      BY <2>3 DEF PutWriteFails
    <3> QED BY <1>1, <3>1, <3>2, CutShortLoses
  <2> QED BY <1>1, <2>1, <2>2, <2>3 DEF Put
<1>2. ASSUME NEW k \in Key, NEW v, NEW effect, Expects(v, effect), CrashInFlush(k, v)
      PROVE  Abstract!Next
  <2>1. PICK t \in CutOff(With(k, v)) : Writes(t)
    BY <1>2 DEF CrashInFlush, FlushDue, Writes
  <2>2. memtable' = NoEntries /\ ~ call'.io
    BY <1>2 DEF CrashInFlush, Dead, NoCall
  <2> QED BY <1>2, <2>1, <2>2, CutShortLoses
<1>3. CASE Crash
  BY <1>3, MemtableLost DEF Crash, Dead, NoCall
<1>4. CASE Restart \/ UNCHANGED vars
  <2>1. UNCHANGED <<memtable, files, call>>
    BY <1>4 DEF Restart, vars, engine
  <2>2. Store' = Store /\ Durable' = Durable
    BY <2>1 DEF Store, Durable, Shown
  <2> QED BY <2>1, <2>2, Represents, RepresentsNext DEF Abstract!vars
<1>5. \A v \in Value : Expects(v, v)
  BY DEF Expects
<1>6. Expects(TOMBSTONE, NotFound)
  BY DEF Expects
<1> QED BY <1>1, <1>2, <1>3, <1>4, <1>5, <1>6 DEF Next, del

LEMMA StoreInit == ASSUME NamesFit, Init PROVE Abstract!Init
<1>1. Ordered /\ ~ call.io
  BY OrderedInit DEF Init, NoCall
<1>2. \A k : Shown(k) = NotFound /\ SavedIn(files, k) = NotFound
  BY DEF Init, NoEntries, Shown, SavedIn, Hits
<1>3. Store = [k \in Key |-> NotFound] /\ Durable = Store
  BY <1>2 DEF Store, Durable
<1> QED BY <1>1, <1>3, Represents DEF Abstract!Init

(* The engine implements the key-value store: a put or a del is visible at *)
(* once and changes nothing else, a crash brings back what was saved, and  *)
(* a flush that fails costs no more than a crash in it (main.cpp 42-110).  *)
THEOREM ImplementsKVStore == NamesFit /\ NoEmptyValue /\ Spec => ImplementsStore
<1> SUFFICES ASSUME NamesFit, NoEmptyValue PROVE Spec => ImplementsStore
  OBVIOUS
<1>1. Init => Ordered /\ Abstract!Init
  BY OrderedInit, StoreInit
<1>2. Ordered /\ [Next]_vars => Ordered'
  BY OrderedNext
<1>3. Ordered /\ Ordered' /\ [Next]_vars => [Abstract!Next]_(Abstract!vars)
  BY StoreStep
<1> QED BY <1>1, <1>2, <1>3, PTL DEF Spec, ImplementsStore, Abstract!Spec
=============================================================================
