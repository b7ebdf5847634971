------------------------------ MODULE LSMTree ------------------------------
(***************************************************************************)
(* The storage engine of 08-LSM_tree/main.cpp over the life of several     *)
(* processes: calls of put and del, crashes, restarts on the same          *)
(* directory.  get changes nothing and is an operator.  The engine is      *)
(* single-threaded, so a call is one step; a crash may cut the step short  *)
(* while the file is being written.                                        *)
(*                                                                         *)
(* Keys are numbered in their sort order.  An SSTable is a function from   *)
(* the keys it contains to their strings: a file holds each key once, in   *)
(* ascending order, as the std::map it is written from does.  A file is    *)
(* identified by its number; what matters of its name is how it sorts.     *)
(***************************************************************************)
EXTENDS Integers, Sequences, FiniteSets, SequencesExt

CONSTANTS
  Key,         \* the keys, a set of numbers
  Value,       \* the values callers put
  Empty,       \* the empty string
  Torn,        \* a value of which only a part reached the disk
  NotFound,    \* std::nullopt
  Threshold,   \* MEMTABLE_FLUSH_THRESHOLD
  Base, Width, \* names are padded with zeros to Width digits of this base
  MaxTables,   \* bound: no put that would write one more table
  IoFaults     \* may files fail to open or be written incompletely?

ASSUME KeyAssumption == Key \subseteq Nat
ASSUME ThresholdAssumption == Threshold \in Nat \ {0}
ASSUME MaxTablesAssumption == MaxTables \in Nat
ASSUME TornAssumption == Torn # Empty
ASSUME NameAssumption == Base \in Nat \ {0, 1} /\ Width \in Nat \ {0}

VARIABLES
  running,       \* is a process up?
  memtable, sstableCount, sstablePaths,  \* the fields of its LSMTree
  files,         \* the directory: from the numbers of the tables to them
  call           \* the last call: its key, its effect, whether its I/O worked

engine == <<memtable, sstableCount, sstablePaths>>
vars == <<running, engine, files, call>>

\* The string literal begins with a zero byte, at which std::string's
\* constructor from const char* stops.
TOMBSTONE == Empty

NoEntries == [k \in {} |-> Empty]

\* f with the entry v for k, in the place of one that it may have.
Entered(f, k, v) ==
  [x \in {k} \cup DOMAIN f |-> IF x = k THEN v ELSE f[x]]

NoCall == [key |-> 0, effect |-> NotFound, io |-> FALSE]

Table == UNION {[K -> Value \cup {Empty, Torn}] : K \in SUBSET Key}

TypeOK ==
  /\ running \in BOOLEAN
  /\ memtable \in Table
  /\ Cardinality(DOMAIN memtable) < Threshold
  /\ sstableCount \in 0 .. MaxTables
  /\ sstablePaths \in Seq(DOMAIN files)
  /\ DOMAIN files \subseteq 0 .. MaxTables - 1
  /\ \A n \in DOMAIN files : files[n] \in Table

Init ==
  /\ running = TRUE
  /\ memtable = NoEntries /\ sstableCount = 0 /\ sstablePaths = <<>>
  /\ files = [n \in {} |-> NoEntries]
  /\ call = NoCall

-----------------------------------------------------------------------------
(* File names: "sstable_", the number padded to Width digits, ".sst".      *)
(* Names are compared character by character, and "." is smaller than any  *)
(* digit: of two names one of whose numbers continues the other's digits,  *)
(* the longer one is the greater.                                          *)

NumDigits(n) ==
  IF n < Base ^ Width THEN Width
  ELSE CHOOSE d \in Width + 1 .. Width + n : Base ^ (d - 1) <= n /\ n < Base ^ d

NameGreater(m, n) ==
  LET dm == NumDigits(m)
      dn == NumDigits(n)
      common == IF dm < dn THEN dm ELSE dn
      pm == m \div (Base ^ (dm - common))
      pn == n \div (Base ^ (dn - common))
  IN IF dm = dn THEN m > n ELSE pm > pn \/ (pm = pn /\ dm > dn)

\* Mutant: the paths are left in the order in which they were collected.
UnsortedPaths(paths) == paths

\* std::sort: the paths permuted so that none is before a greater one.
SortedPaths(paths) ==
  LET places == DOMAIN paths
      perm == CHOOSE p \in Bijection(places, places) :
                \A i, j \in places :
                  i < j => ~ NameGreater(paths[p[j]], paths[p[i]])
  IN [i \in places |-> paths[perm[i]]]

-----------------------------------------------------------------------------
(* get: the memtable first, then the tables in the order of sstablePaths.  *)

Visible(v) == IF v = TOMBSTONE THEN NotFound ELSE v

\* Mutant: the tables are scanned in the wrong direction.
SearchOldestFirst(paths, k) ==
  LET hits == {i \in DOMAIN paths : k \in DOMAIN files[paths[i]]}
  IN IF hits = {} THEN NotFound ELSE Visible(files[paths[Max(hits)]][k])

Search(paths, k) ==
  LET hits == {i \in DOMAIN paths : k \in DOMAIN files[paths[i]]}
  IN IF hits = {} THEN NotFound ELSE Visible(files[paths[Min(hits)]][k])

get(k) == IF k \in DOMAIN memtable THEN Visible(memtable[k])
                                   ELSE Search(sstablePaths, k)

-----------------------------------------------------------------------------
(* put and del.  v is the string stored for key k; effect is what the      *)
(* caller expects get to answer afterwards.                                *)

With(k, v) == Entered(memtable, k, v)

\* This put flushes; the number of tables stays within the bound.
FlushDue(k, v) == /\ running
                  /\ Cardinality(DOMAIN With(k, v)) >= Threshold
                  /\ sstableCount < MaxTables

\* writeSSTable with the file open: t is what reaches the disk.
WriteSSTable(t) ==
  /\ files' = Entered(files, sstableCount, t)
  /\ sstablePaths' = SortedPaths(Append(sstablePaths, sstableCount))
  /\ sstableCount' = sstableCount + 1

PutMemtable(k, v, effect) ==
  /\ running
  /\ Cardinality(DOMAIN With(k, v)) < Threshold
  /\ memtable' = With(k, v)
  /\ call' = [key |-> k, effect |-> effect, io |-> TRUE]
  /\ UNCHANGED <<running, sstableCount, sstablePaths, files>>

\* Mutant: the entry that fills the memtable is not part of the table.
PutFlushTooEarly(k, v, effect) ==
  /\ FlushDue(k, v)
  /\ WriteSSTable(memtable)
  /\ memtable' = NoEntries
  /\ call' = [key |-> k, effect |-> effect, io |-> TRUE]
  /\ UNCHANGED running

PutFlush(k, v, effect) ==
  /\ FlushDue(k, v)
  /\ WriteSSTable(With(k, v))
  /\ memtable' = NoEntries
  /\ call' = [key |-> k, effect |-> effect, io |-> TRUE]
  /\ UNCHANGED running

\* The file does not open: writeSSTable returns, flush clears the memtable.
PutOpenFails(k, v, effect) ==
  /\ IoFaults
  /\ FlushDue(k, v)
  /\ memtable' = NoEntries
  /\ call' = [key |-> k, effect |-> effect, io |-> FALSE]
  /\ UNCHANGED <<running, sstableCount, sstablePaths, files>>

\* What readSSTable makes of a file that was cut off while t was written:
\* the entries before the cut and, if the cut is inside a value's bytes,
\* that value padded with zeros.  (With nothing cut off it is PutFlush.)
CutOff(t) ==
  LET Before(k) == [x \in {y \in DOMAIN t : y < k} |-> t[x]]
  IN {Before(k) : k \in DOMAIN t}
     \cup {Entered(Before(k), k, Torn) : k \in {x \in DOMAIN t : t[x] # Empty}}

\* A write fails, the disk being full: the stream's state is not checked.
PutWriteFails(k, v, effect) ==
  /\ IoFaults
  /\ FlushDue(k, v)
  /\ \E t \in CutOff(With(k, v)) : WriteSSTable(t)
  /\ memtable' = NoEntries
  /\ call' = [key |-> k, effect |-> effect, io |-> FALSE]
  /\ UNCHANGED running

Put(k, v, effect) ==
  \/ PutMemtable(k, v, effect)
  \/ PutFlush(k, v, effect)
  \/ PutOpenFails(k, v, effect)
  \/ PutWriteFails(k, v, effect)

del(k) == Put(k, TOMBSTONE, NotFound)

-----------------------------------------------------------------------------
(* The process dies, between two calls or while put writes a table; a new  *)
(* process finds the tables in the directory.                              *)

Dead ==
  /\ running' = FALSE
  /\ memtable' = NoEntries /\ sstableCount' = 0 /\ sstablePaths' = <<>>
  /\ call' = NoCall

Crash ==
  /\ running
  /\ Dead
  /\ UNCHANGED files

CrashInFlush(k, v) ==
  /\ FlushDue(k, v)
  /\ \E t \in CutOff(With(k, v)) : files' = Entered(files, sstableCount, t)
  /\ Dead

\* Mutant: the counter is not restored from the directory.
RestartCountZero ==
  /\ ~ running
  /\ running' = TRUE
  /\ sstablePaths' = SortedPaths(SetToSeq(DOMAIN files))
  /\ sstableCount' = 0
  /\ UNCHANGED <<memtable, files, call>>

Restart ==
  /\ ~ running
  /\ running' = TRUE
  /\ sstablePaths' = SortedPaths(SetToSeq(DOMAIN files))
  /\ sstableCount' = Cardinality(DOMAIN files)
  /\ UNCHANGED <<memtable, files, call>>

Next ==
  \/ \E k \in Key, v \in Value : Put(k, v, v) \/ CrashInFlush(k, v)
  \/ \E k \in Key : del(k) \/ CrashInFlush(k, TOMBSTONE)
  \/ Crash
  \/ Restart

Spec == Init /\ [][Next]_vars

-----------------------------------------------------------------------------
(* Properties.                                                             *)

(* A caller reads its own write: right after put(k, v) get(k) answers v,   *)
(* and right after del(k) it answers nothing, wherever the flush moved the *)
(* entry (main.cpp 42-73) and whatever failed in calls before this one.    *)
ReadYourWrite == call.io => get(call.key) = call.effect

(* While the process runs, a call changes what get answers for its own key *)
(* only: a flush moves entries and loses none (main.cpp 82-89).            *)
NoSilentLoss ==
  [][running /\ running' =>
       \A k \in Key \ {call'.key} : get(k)' = get(k)]_vars

(* sstablePaths lists every table of the directory once, from the newest   *)
(* to the oldest, whatever mixture of flushes and restarts built it        *)
(* (main.cpp 39 and 108, "newest first").                                  *)
NewestFirst ==
  running =>
    /\ ToSet(sstablePaths) = DOMAIN files
    /\ \A i, j \in DOMAIN sstablePaths :
         i < j => sstablePaths[i] > sstablePaths[j]

(* A table is never modified once the put that writes it is over: no flush,*)
(* before or after a restart, reuses its name.                             *)
Immutable == [][\A n \in DOMAIN files :
                  n \in DOMAIN files' /\ files'[n] = files[n]]_vars

\* What get(k) would answer in a process started now.
Saved(k) ==
  LET hits == {n \in DOMAIN files : k \in DOMAIN files[n]}
  IN IF hits = {} THEN NotFound
     ELSE Visible(files[CHOOSE n \in hits :
                          \A m \in hits \ {n} : NameGreater(n, m)][k])

(* The engine implements the key-value store: its map is what get answers, *)
(* its durable map what get would answer after a restart.  A flush that    *)
(* fails costs no more than a crash at that moment would.                  *)
Abstract == INSTANCE KVStore WITH
  store <- [k \in Key |-> IF running THEN get(k) ELSE Saved(k)],
  durable <- [k \in Key |-> Saved(k)]

ImplementsStore == Abstract!Spec
=============================================================================
