--------------------------- MODULE DnsQueryProofs ---------------------------
(***************************************************************************)
(* Proofs about DnsQuery: the resolver is asked for the name on the        *)
(* command line, what is printed are the addresses of the answer to that   *)
(* question, and how far an array is left, for names, answers and sets of  *)
(* processes of any size.                                                  *)
(*                                                                         *)
(* The first half says how a message is laid out.  FlattenSeq and QName    *)
(* are recursive functions, so what they return is found without an        *)
(* induction theorem: a least number at which it failed would have a       *)
(* predecessor at which it did not.  The second half follows the walk of   *)
(* parse_response over that layout, and then the processes.                *)
(*                                                                         *)
(* Nothing is assumed of the datagrams of others.  That the identifiers of *)
(* processes differ is a hypothesis of the theorem that needs it.          *)
(***************************************************************************)
EXTENDS DnsQuery, SequenceTheorems, WellFoundedInduction, TLAPS

(* A nonempty set of numbers has a least one.                              *)
LEMMA MinOfNaturals ==
  ASSUME NEW S \in SUBSET Nat, S # {}
  PROVE  \E m \in S : \A n \in S : m <= n
<1> DEFINE Less == OpToRel(<, Nat)
<1>1. \E m \in S : \A n \in S : <<n, m>> \notin Less
  <2>1. IsWellFoundedOn(Less, Nat)
    BY NatLessThanWellFounded
  <2> HIDE DEF Less
  <2> QED BY <2>1, WFMin
<1>2. \A m, n \in Nat : <<n, m>> \notin Less => m <= n
  BY DEF OpToRel
<1> QED BY <1>1, <1>2

-----------------------------------------------------------------------------
(* FlattenSeq.                                                             *)

\* The function that FlattenSeq builds, up to n.
Flattens(f, ss, n) ==
  f = [i \in 1 .. n |-> IF i = 1 THEN ss[i] ELSE f[i - 1] \o ss[i]]

(* It exists.                                                              *)
LEMMA FlattenExists ==
  ASSUME NEW ss, NEW n \in Nat
  PROVE  \E f : Flattens(f, ss, n)
<1> DEFINE Bad == {k \in Nat : ~ \E f : Flattens(f, ss, k)}
<1> SUFFICES ASSUME Bad # {} PROVE FALSE
  OBVIOUS
<1>1. PICK k \in Bad : \A j \in Bad : k <= j
  <2>1. Bad \in SUBSET Nat
    OBVIOUS
  <2> HIDE DEF Bad
  <2> QED BY <2>1, MinOfNaturals
<1>2. CASE k = 0
  <2>1. Flattens([i \in 1 .. 0 |-> 0], ss, 0)
    BY DEF Flattens
  <2> QED BY <1>2, <2>1
<1>3. CASE k # 0
  <2>1. k \in Nat \ {0} /\ k - 1 \in Nat /\ k - 1 \notin Bad
    BY <1>1, <1>3
  <2>2. PICK f : Flattens(f, ss, k - 1)
    BY <2>1
  <2> DEFINE g == [i \in 1 .. k |->
                     IF i = 1 THEN ss[i] ELSE IF i = k THEN f[k - 1] \o ss[k] ELSE f[i]]
  <2>3. ASSUME NEW i \in 1 .. k
        PROVE  g[i] = IF i = 1 THEN ss[i] ELSE g[i - 1] \o ss[i]
    <3>1. CASE i = 1
      BY <3>1
    <3>2. CASE i # 1
      <4>1. i - 1 \in 1 .. k /\ i - 1 \in 1 .. k - 1 /\ i - 1 # k
        BY <2>1, <3>2
      <4>2. g[i - 1] = f[i - 1]
        <5>1. i - 1 = 1 => f[i - 1] = ss[i - 1]
          BY <2>2, <4>1 DEF Flattens
        <5> QED BY <4>1, <5>1
      <4>3. i # k => i \in 1 .. k - 1
        BY <2>1
      <4>4. i # k => f[i] = f[i - 1] \o ss[i]
        BY <2>2, <3>2, <4>3 DEF Flattens
      <4> QED BY <3>2, <4>2, <4>4
    <3> QED BY <3>1, <3>2
  <2>4. g = [i \in 1 .. k |-> g[i]]
    OBVIOUS
  <2> HIDE DEF g
  <2>5. Flattens(g, ss, k)
    BY <2>3, <2>4 DEF Flattens
  <2> QED BY <1>1, <2>5
<1> QED BY <1>2, <1>3

(* FlattenSeq is its last value.                                           *)
LEMMA FlattenUnfolds ==
  ASSUME NEW ss, Len(ss) \in Nat \ {0}
  PROVE  \E f : Flattens(f, ss, Len(ss)) /\ FlattenSeq(ss) = f[Len(ss)]
<1> DEFINE f == CHOOSE g : g = [i \in 1 .. Len(ss) |->
                                  IF i = 1 THEN ss[i] ELSE g[i - 1] \o ss[i]]
<1>1. FlattenSeq(ss) = f[Len(ss)]
  BY DEF FlattenSeq
<1>2. \E g : g = [i \in 1 .. Len(ss) |-> IF i = 1 THEN ss[i] ELSE g[i - 1] \o ss[i]]
  BY FlattenExists DEF Flattens
<1>3. f = [i \in 1 .. Len(ss) |-> IF i = 1 THEN ss[i] ELSE f[i - 1] \o ss[i]]
  BY <1>2, Zenon
<1> HIDE DEF f
<1> QED BY <1>1, <1>3 DEF Flattens

\* Sequence s consists of the first n sequences of ss, the i-th of which
\* begins after off[i] elements.
Layout(s, ss, off, n) ==
  /\ off \in [1 .. n + 1 -> Nat] /\ off[1] = 0 /\ off[n + 1] = Len(s)
  /\ \A i \in 1 .. n :
       /\ off[i + 1] = off[i] + Len(ss[i]) /\ off[i + 1] <= Len(s)
       /\ \A j \in 1 .. Len(ss[i]) : s[off[i] + j] = ss[i][j]

(* Element by element, what a concatenation is.                            *)
LEMMA Concatenated ==
  ASSUME NEW S, NEW s \in Seq(S), NEW t \in Seq(S)
  PROVE  /\ s \o t \in Seq(S) /\ Len(s \o t) = Len(s) + Len(t)
         /\ Len(s) \in Nat /\ Len(t) \in Nat
         /\ \A j \in 1 .. Len(s) : (s \o t)[j] = s[j]
         /\ \A j \in 1 .. Len(t) : (s \o t)[Len(s) + j] = t[j]
<1>1. s \o t \in Seq(S) /\ Len(s \o t) = Len(s) + Len(t) /\ Len(s) \in Nat /\ Len(t) \in Nat
  OBVIOUS
<1>2. \A j \in 1 .. Len(s) + Len(t) : (s \o t)[j] = IF j <= Len(s) THEN s[j] ELSE t[j - Len(s)]
  OBVIOUS
<1>3. ASSUME NEW j \in 1 .. Len(s) PROVE (s \o t)[j] = s[j]
  BY <1>1, <1>2
<1>4. ASSUME NEW j \in 1 .. Len(t) PROVE (s \o t)[Len(s) + j] = t[j]
  <2>1. /\ Len(s) + j \in 1 .. Len(s) + Len(t) /\ ~ (Len(s) + j <= Len(s))
        /\ Len(s) + j - Len(s) = j
    BY <1>1
  <2> QED BY <1>2, <2>1
<1> QED BY <1>1, <1>3, <1>4

(* The same for bytes.                                                     *)
LEMMA Joined ==
  ASSUME NEW s \in Seq(Nat), NEW t \in Seq(Nat)
  PROVE  /\ s \o t \in Seq(Nat) /\ Len(s \o t) = Len(s) + Len(t)
         /\ Len(s) \in Nat /\ Len(t) \in Nat
         /\ \A j \in 1 .. Len(s) : (s \o t)[j] = s[j]
         /\ \A j \in 1 .. Len(t) : (s \o t)[Len(s) + j] = t[j]
BY Concatenated

(* One more sequence is appended.                                          *)
LEMMA LayoutExtends ==
  ASSUME NEW S, NEW s \in Seq(S), NEW ss, NEW n \in Nat, NEW off, Layout(s, ss, off, n),
         \A i \in 1 .. n + 1 : ss[i] \in Seq(S)
  PROVE  \E o : Layout(s \o ss[n + 1], ss, o, n + 1)
<1> DEFINE t == ss[n + 1]
           st == s \o t
           o == [i \in 1 .. n + 2 |-> IF i = n + 2 THEN Len(st) ELSE off[i]]
<1>1. /\ st \in Seq(S) /\ Len(st) = Len(s) + Len(t) /\ Len(s) \in Nat /\ Len(t) \in Nat
      /\ \A j \in 1 .. Len(s) : st[j] = s[j]
      /\ \A j \in 1 .. Len(t) : st[Len(s) + j] = t[j]
  <2>1. t \in Seq(S)
    OBVIOUS
  <2> HIDE DEF t
  <2> QED BY <2>1, Concatenated
<1>2. /\ off \in [1 .. n + 1 -> Nat] /\ off[1] = 0 /\ off[n + 1] = Len(s)
      /\ \A i \in 1 .. n :
           /\ off[i + 1] = off[i] + Len(ss[i]) /\ off[i + 1] <= Len(s)
           /\ \A j \in 1 .. Len(ss[i]) : s[off[i] + j] = ss[i][j]
  BY DEF Layout
<1>3. \A i \in 1 .. n : ss[i] \in Seq(S) /\ Len(ss[i]) \in Nat
  OBVIOUS
<1> HIDE DEF st
<1>4. /\ o \in [1 .. n + 2 -> Nat] /\ o[1] = 0 /\ o[n + 2] = Len(st)
      /\ \A i \in 1 .. n + 1 : o[i] = off[i]
  BY <1>1, <1>2
<1> HIDE DEF o, t
<1>5. ASSUME NEW i \in 1 .. n
      PROVE  /\ o[i + 1] = o[i] + Len(ss[i]) /\ o[i + 1] <= Len(st)
             /\ \A j \in 1 .. Len(ss[i]) : st[o[i] + j] = ss[i][j]
  <2>1. i \in 1 .. n + 1 /\ i + 1 \in 1 .. n + 1 /\ off[i] \in Nat /\ off[i + 1] \in Nat
    BY <1>2
  <2>2. o[i] = off[i] /\ o[i + 1] = off[i + 1]
    BY <1>4, <2>1
  <2>3. o[i + 1] <= Len(st)
    BY <1>1, <1>2, <2>1, <2>2
  <2>4. ASSUME NEW j \in 1 .. Len(ss[i]) PROVE off[i] + j \in 1 .. Len(s)
    <3> DEFINE a == off[i]
               l == Len(ss[i])
               b == Len(s)
    <3>1. a \in Nat /\ l \in Nat /\ b \in Nat /\ j \in 1 .. l /\ a + l <= b
      BY <1>1, <1>2, <1>3, <2>1
    <3> HIDE DEF a, l, b
    <3>2. a + j \in 1 .. b
      BY <3>1
    <3> QED BY <3>2 DEF a, b
  <2>5. ASSUME NEW j \in 1 .. Len(ss[i]) PROVE st[o[i] + j] = ss[i][j]
    <3>1. st[off[i] + j] = s[off[i] + j]
      BY <1>1, <2>4
    <3>2. s[off[i] + j] = ss[i][j]
      BY <1>2
    <3> QED BY <2>2, <3>1, <3>2
  <2>6. o[i + 1] = o[i] + Len(ss[i])
    BY <1>2, <2>2
  <2> QED BY <2>3, <2>5, <2>6
<1>6. /\ o[n + 2] = o[n + 1] + Len(t) /\ o[n + 2] <= Len(st)
      /\ \A j \in 1 .. Len(t) : st[o[n + 1] + j] = t[j]
  <2>1. o[n + 1] = Len(s)
    BY <1>2, <1>4
  <2>2. Len(st) \in Nat
    BY <1>1
  <2> QED BY <1>1, <1>4, <2>1, <2>2
<1>7. ASSUME NEW i \in 1 .. n + 1
      PROVE  /\ o[i + 1] = o[i] + Len(ss[i]) /\ o[i + 1] <= Len(st)
             /\ \A j \in 1 .. Len(ss[i]) : st[o[i] + j] = ss[i][j]
  <2>1. CASE i = n + 1
    BY <1>6, <2>1 DEF t
  <2>2. CASE i # n + 1
    <3>1. i \in 1 .. n
      BY <2>2
    <3> QED BY <1>5, <3>1
  <2> QED BY <2>1, <2>2
<1>8. Layout(st, ss, o, n + 1)
  <2>1. n + 1 + 1 = n + 2
    OBVIOUS
  <2> QED BY <1>4, <1>7, <2>1 DEF Layout
<1> QED BY <1>8 DEF st, t

(* A flattened sequence consists of its parts.                             *)
LEMMA FlattenLayout ==
  ASSUME NEW S, NEW ss \in Seq(Seq(S))
  PROVE  FlattenSeq(ss) \in Seq(S) /\ \E off : Layout(FlattenSeq(ss), ss, off, Len(ss))
<1> DEFINE N == Len(ss)
<1>1. N \in Nat /\ \A i \in 1 .. N : ss[i] \in Seq(S)
  OBVIOUS
<1>2. Layout(<<>>, ss, [i \in 1 .. 1 |-> 0], 0)
  BY DEF Layout
<1>3. CASE N = 0
  <2>1. ss = <<>>
    BY <1>3
  <2>2. FlattenSeq(ss) = <<>>
    BY <1>3, <2>1 DEF FlattenSeq
  <2> QED BY <1>2, <1>3, <2>2
<1>4. CASE N # 0
  <2>1. PICK f : Flattens(f, ss, N) /\ FlattenSeq(ss) = f[N]
    BY <1>1, <1>4, FlattenUnfolds
  <2>2. \A i \in 1 .. N : f[i] = IF i = 1 THEN ss[i] ELSE f[i - 1] \o ss[i]
    BY <2>1 DEF Flattens
  <2> HIDE DEF N
  <2> DEFINE Good(n) == f[n] \in Seq(S) /\ \E off : Layout(f[n], ss, off, n)
             Bad == {n \in 1 .. N : ~ Good(n)}
  <2>3. Good(1)
    <3>1. 1 \in 1 .. N
      BY <1>1, <1>4
    <3>2. f[1] = ss[1] /\ ss[1] \in Seq(S)
      BY <1>1, <2>2, <3>1
    <3>3. \E off : Layout(<<>> \o ss[0 + 1], ss, off, 0 + 1)
      <4>1. \A i \in 1 .. 0 + 1 : ss[i] \in Seq(S)
        BY <1>1, <3>1
      <4>2. <<>> \in Seq(S) /\ 0 \in Nat
        OBVIOUS
      <4> QED BY <1>2, <4>1, <4>2, LayoutExtends
    <3>4. <<>> \o ss[1] = ss[1] /\ 0 + 1 = 1
      BY <3>2
    <3> QED BY <3>2, <3>3, <3>4
  <2>4. ASSUME NEW n \in 2 .. N, Good(n - 1) PROVE Good(n)
    <3> DEFINE m == n - 1
               s == f[m]
    <3>1. m \in Nat /\ n = m + 1 /\ n # 1 /\ n \in 1 .. N
      BY <1>1
    <3>2. f[n] = s \o ss[m + 1] /\ \A i \in 1 .. m + 1 : ss[i] \in Seq(S)
      <4>1. f[n] = f[n - 1] \o ss[n]
        BY <2>2, <3>1, Zenon
      <4>2. \A i \in 1 .. m + 1 : i \in 1 .. N
        BY <1>1, <3>1
      <4> QED BY <1>1, <3>1, <4>1, <4>2, Zenon
    <3>3. s \in Seq(S) /\ \E off : Layout(s, ss, off, m)
      BY <2>4
    <3> HIDE DEF m, s
    <3>4. \E off : Layout(s \o ss[m + 1], ss, off, m + 1)
      BY <3>1, <3>2, <3>3, LayoutExtends
    <3>5. ss[m + 1] \in Seq(S)
      BY <3>1, <3>2
    <3>6. s \o ss[m + 1] \in Seq(S)
      BY <3>3, <3>5, Concatenated
    <3> QED BY <3>1, <3>2, <3>4, <3>6
  <2>5. Good(N)
    <3> HIDE DEF Good
    <3>1. CASE Bad = {}
      BY <1>1, <1>4, <3>1
    <3>2. CASE Bad # {}
      <4>1. Bad \in SUBSET Nat
        OBVIOUS
      <4>2. PICK n \in Bad : \A m \in Bad : n <= m
        <5> HIDE DEF Bad
        <5> QED BY <3>2, <4>1, MinOfNaturals
      <4>3. n \in 2 .. N /\ n - 1 \in 1 .. N /\ n - 1 \notin Bad
        BY <1>1, <2>3, <4>2
      <4> QED BY <2>4, <4>2, <4>3
    <3> QED BY <3>1, <3>2
  <2> QED BY <2>1, <2>5 DEF N
<1> QED BY <1>3, <1>4

-----------------------------------------------------------------------------
(* Names.                                                                  *)

\* The label k of name d begins after off[k] bytes of the encoded name.
Offsets(off, d) ==
  /\ off \in [1 .. Len(d) + 1 -> Nat] /\ off[1] = 0
  /\ \A k \in 1 .. Len(d) : off[k + 1] = off[k] + 1 + d[k] /\ off[k + 1] <= off[Len(d) + 1]

(* Where the length bytes of a name are.                                   *)
LEMMA LabelsLayout ==
  ASSUME NEW d \in Seq(Nat)
  PROVE  /\ Labels(d) \in Seq(Nat)
         /\ \E off : /\ Offsets(off, d) /\ off[Len(d) + 1] = Len(Labels(d))
                     /\ \A k \in 1 .. Len(d) : Labels(d)[off[k] + 1] = d[k]
<1> DEFINE ss == [k \in DOMAIN d |-> Label(d[k])]
<1>1. Len(d) \in Nat /\ DOMAIN d = 1 .. Len(d) /\ \A k \in 1 .. Len(d) : d[k] \in Nat
  OBVIOUS
<1>2. ASSUME NEW n \in Nat
      PROVE  Label(n) \in Seq(Nat) /\ Len(Label(n)) = n + 1 /\ Label(n)[1] = n
  <2> DEFINE s == <<n>>
             t == [k \in 1 .. n |-> Letter]
  <2>1. s \in Seq(Nat) /\ Len(s) = 1 /\ s[1] = n
    OBVIOUS
  <2>2. t \in Seq(Nat) /\ Len(t) = n
    BY DEF Letter
  <2>3. Label(n) = s \o t
    BY DEF Label
  <2> HIDE DEF s, t
  <2>4. /\ s \o t \in Seq(Nat) /\ Len(s \o t) = Len(s) + Len(t)
        /\ \A j \in 1 .. Len(s) : (s \o t)[j] = s[j]
    BY <2>1, <2>2, Concatenated
  <2> QED BY <2>1, <2>2, <2>3, <2>4
<1>3. ss \in Seq(Seq(Nat)) /\ Len(ss) = Len(d) /\ \A k \in 1 .. Len(d) : ss[k] = Label(d[k])
  <2>1. \A k \in 1 .. Len(d) : Label(d[k]) \in Seq(Nat)
    BY <1>1, <1>2
  <2> QED BY <1>1, <2>1
<1>4. Labels(d) = FlattenSeq(ss)
  BY DEF Labels
<1> HIDE DEF ss
<1>5. FlattenSeq(ss) \in Seq(Nat) /\ \E off : Layout(FlattenSeq(ss), ss, off, Len(ss))
  BY <1>3, FlattenLayout
<1>6. PICK off : Layout(Labels(d), ss, off, Len(d))
  BY <1>3, <1>4, <1>5
<1>7. /\ off \in [1 .. Len(d) + 1 -> Nat] /\ off[1] = 0 /\ off[Len(d) + 1] = Len(Labels(d))
      /\ \A i \in 1 .. Len(d) :
           /\ off[i + 1] = off[i] + Len(ss[i]) /\ off[i + 1] <= Len(Labels(d))
           /\ \A j \in 1 .. Len(ss[i]) : Labels(d)[off[i] + j] = ss[i][j]
  BY <1>6 DEF Layout
<1>8. ASSUME NEW k \in 1 .. Len(d)
      PROVE  /\ off[k + 1] = off[k] + 1 + d[k] /\ off[k + 1] <= off[Len(d) + 1]
             /\ Labels(d)[off[k] + 1] = d[k]
  <2>1. /\ d[k] \in Nat /\ off[k] \in Nat /\ Len(ss[k]) = d[k] + 1 /\ ss[k][1] = d[k]
    <3>1. d[k] \in Nat /\ ss[k] = Label(d[k])
      BY <1>1, <1>3
    <3>2. Len(ss[k]) = d[k] + 1 /\ ss[k][1] = d[k]
      BY <1>2, <3>1, Zenon
    <3> QED BY <1>7, <3>1, <3>2
  <2>2. 1 \in 1 .. Len(ss[k])
    BY <2>1
  <2>3. off[k + 1] = off[k] + 1 + d[k]
    <3> DEFINE x == off[k]
               y == d[k]
    <3>1. off[k + 1] = x + (y + 1) /\ x \in Nat /\ y \in Nat
      BY <1>7, <2>1
    <3> HIDE DEF x, y
    <3>2. x + (y + 1) = x + 1 + y
      BY <3>1
    <3> QED BY <3>1, <3>2 DEF x, y
  <2> QED BY <1>7, <2>1, <2>2, <2>3
<1> QED BY <1>4, <1>5, <1>7, <1>8 DEF Offsets

(* A question is its labels, the root label, the type and the class.       *)
LEMMA QuestionLayout ==
  ASSUME NEW d \in Seq(Nat)
  PROVE  /\ Question(d) \in Seq(Nat) /\ Len(Question(d)) = Len(Labels(d)) + 5
         /\ Len(Labels(d)) \in Nat
         /\ SubSeq(Question(d), Len(Labels(d)) + 1, Len(Question(d))) = <<0, 0, 1, 0, 1>>
         /\ \E off : /\ Offsets(off, d) /\ off[Len(d) + 1] = Len(Labels(d))
                     /\ \A k \in 1 .. Len(d) : Question(d)[off[k] + 1] = d[k]
                     /\ Question(d)[off[Len(d) + 1] + 1] = 0
<1> DEFINE s == Labels(d)
           t == <<0, 0, 1, 0, 1>>
           b == s \o t
<1>1. s \in Seq(Nat) /\ \E off : /\ Offsets(off, d) /\ off[Len(d) + 1] = Len(s)
                                 /\ \A k \in 1 .. Len(d) : s[off[k] + 1] = d[k]
  BY LabelsLayout
<1>2. PICK off : /\ Offsets(off, d) /\ off[Len(d) + 1] = Len(s)
                 /\ \A k \in 1 .. Len(d) : s[off[k] + 1] = d[k]
  BY <1>1
<1>3. t \in Seq(Nat) /\ Len(t) = 5
  OBVIOUS
<1> HIDE DEF s, t
<1>4. /\ b \in Seq(Nat) /\ Len(b) = Len(s) + 5 /\ Len(s) \in Nat
      /\ \A j \in 1 .. Len(s) : b[j] = s[j]
      /\ \A j \in 1 .. 5 : b[Len(s) + j] = t[j]
  <2>1. /\ b \in Seq(Nat) /\ Len(b) = Len(s) + Len(t) /\ Len(s) \in Nat
        /\ \A j \in 1 .. Len(s) : b[j] = s[j]
        /\ \A j \in 1 .. Len(t) : b[Len(s) + j] = t[j]
    <3>1. s \in Seq(Nat) /\ t \in Seq(Nat)
      BY <1>1, <1>3
    <3> QED BY <3>1, Concatenated
  <2> QED BY <1>3, <2>1
<1> HIDE DEF b
<1>5. SubSeq(b, Len(s) + 1, Len(b)) = t
  <2> DEFINE u == SubSeq(b, Len(s) + 1, Len(s) + 5)
  <2>1. Len(s) + 1 \in 1 .. Len(b) + 1 /\ Len(s) + 5 \in Len(s) .. Len(b)
    BY <1>4
  <2> DEFINE x == Len(s)
             T == 1 .. 5
  <2>2. u \in Seq(Nat) /\ Len(u) = 5 /\ \A j \in T : u[j] = b[x + j]
    <3>1. x \in Nat /\ Len(b) = x + 5 /\ b \in Seq(Nat)
      BY <1>4
    <3> HIDE DEF x
    <3>2. /\ SubSeq(b, x + 1, x + 5) \in Seq(Nat)
          /\ Len(SubSeq(b, x + 1, x + 5)) = 5
          /\ \A j \in 1 .. 5 : SubSeq(b, x + 1, x + 5)[j] = b[x + j]
      BY <3>1
    <3> QED BY <3>2 DEF x
  <2> HIDE DEF u
  <2>3. \A j \in 1 .. Len(u) : u[j] = t[j]
    BY <1>4, <2>2
  <2>4. u = t
    BY <1>3, <2>2, <2>3, SeqEqual
  <2> QED BY <1>4, <2>4 DEF u
<1>6. ASSUME NEW k \in 1 .. Len(d) PROVE b[off[k] + 1] = d[k]
  <2>1. off[k] \in Nat /\ d[k] \in Nat /\ off[k] + 1 + d[k] <= Len(s)
    BY <1>2 DEF Offsets
  <2>2. off[k] + 1 \in 1 .. Len(s)
    <3> DEFINE x == off[k]
               y == d[k]
               z == Len(s)
    <3>1. x \in Nat /\ y \in Nat /\ z \in Nat /\ x + 1 + y <= z
      BY <1>4, <2>1
    <3> HIDE DEF x, y, z
    <3>2. x + 1 \in 1 .. z
      BY <3>1
    <3> QED BY <3>2 DEF x, z
  <2> QED BY <1>2, <1>4, <2>2
<1>7. b[Len(s) + 1] = 0
  BY <1>4 DEF t
<1>8. b = Question(d)
  BY DEF b, s, t, Question
<1> QED BY <1>2, <1>4, <1>5, <1>6, <1>7, <1>8 DEF s, t

\* The function that QName builds, on the bytes from number m on.
Reads(f, b, m) ==
  f = [k \in m .. Len(b) |->
         IF b[k] = 0 THEN <<>>
         ELSE <<b[k]>> \o (IF k + 1 + b[k] \in 1 .. Len(b) THEN f[k + 1 + b[k]]
                           ELSE <<0>>)]

(* It exists: every value depends on one further on.                       *)
LEMMA ReadsExists ==
  ASSUME NEW b \in Seq(Nat)
  PROVE  \E f : Reads(f, b, 1)
<1> DEFINE N == Len(b)
           Bad == {n \in 0 .. N : ~ \E f : Reads(f, b, N - n + 1)}
<1>1. N \in Nat /\ \A k \in 1 .. N : b[k] \in Nat
  OBVIOUS
<1>2. CASE Bad = {}
  <2>1. N \in 0 .. N /\ N - N + 1 = 1
    BY <1>1
  <2> HIDE DEF N
  <2>2. \E f : Reads(f, b, N - N + 1)
    BY <1>2, <2>1
  <2> QED BY <2>1, <2>2
<1>3. CASE Bad # {}
  <2>1. PICK n \in Bad : \A j \in Bad : n <= j
    <3>1. Bad \in SUBSET Nat
      BY <1>1
    <3> HIDE DEF Bad
    <3> QED BY <1>3, <3>1, MinOfNaturals
  <2> DEFINE m == N - n + 1
  <2>2. ASSUME NEW f, n # 0, Reads(f, b, m + 1) PROVE FALSE
    <3> DEFINE x == m + 1 + b[m]
               g == [k \in m .. N |->
                       IF k # m THEN f[k]
                       ELSE IF b[m] = 0 THEN <<>>
                            ELSE <<b[m]>> \o (IF x \in 1 .. N THEN f[x] ELSE <<0>>)]
    <3>1. m \in 1 .. N
      BY <1>1, <2>1, <2>2
    <3> HIDE DEF m, N
    <3>2. \A k \in m .. N : k + 1 + b[k] \in 1 .. N => k + 1 + b[k] \in m .. N /\ k + 1 + b[k] # m
      BY <1>1, <3>1
    <3>3. \A k \in m .. N : k # m => k \in m + 1 .. N
      BY <1>1, <3>1
    <3>4. \A k \in m + 1 .. N :
            f[k] = IF b[k] = 0 THEN <<>>
                   ELSE <<b[k]>> \o (IF k + 1 + b[k] \in 1 .. N THEN f[k + 1 + b[k]] ELSE <<0>>)
      BY <2>2 DEF Reads, N
    <3>5. \A k \in m .. N : k # m => g[k] = f[k]
      OBVIOUS
    <3>6. m \in m .. N
      BY <1>1, <3>1
    <3>7. ASSUME NEW k \in m .. N
          PROVE  g[k] = IF b[k] = 0 THEN <<>>
                        ELSE <<b[k]>> \o (IF k + 1 + b[k] \in 1 .. N THEN g[k + 1 + b[k]]
                                          ELSE <<0>>)
      <4>1. k + 1 + b[k] \in 1 .. N => g[k + 1 + b[k]] = f[k + 1 + b[k]]
        BY <3>2, <3>5
      <4>2. CASE k = m
        <5>1. g[m] = IF b[m] = 0 THEN <<>>
                     ELSE <<b[m]>> \o (IF x \in 1 .. N THEN f[x] ELSE <<0>>)
          BY <3>6
        <5> HIDE DEF g
        <5> QED BY <4>1, <4>2, <5>1
      <4>3. CASE k # m
        <5>1. g[k] = f[k]
          BY <3>5, <4>3
        <5> HIDE DEF g
        <5> QED BY <3>3, <3>4, <4>1, <4>3, <5>1
      <4> QED BY <4>2, <4>3
    <3>8. g = [k \in m .. N |-> g[k]]
      OBVIOUS
    <3> HIDE DEF g
    <3>9. Reads(g, b, m)
      BY <3>7, <3>8 DEF Reads, N
    <3> QED BY <2>1, <3>9 DEF m
  <2>3. CASE n = 0
    <3> DEFINE e == [k \in N + 1 .. N |-> 0]
    <3>1. N + 1 .. N = {} /\ N - 0 + 1 = N + 1
      BY <1>1
    <3>2. Reads(e, b, N + 1)
      BY <3>1 DEF Reads
    <3> QED BY <2>1, <2>3, <3>1, <3>2
  <2>4. CASE n # 0
    <3>1. n \in 1 .. N /\ n - 1 \in 0 .. N /\ n - 1 \notin Bad /\ N - (n - 1) + 1 = m + 1
      <4>1. n \in 0 .. N /\ \A j \in Bad : j \in Nat
        BY <1>1
      <4> HIDE DEF Bad, N
      <4>2. n \in 1 .. N /\ n - 1 \in 0 .. N /\ ~ (n <= n - 1) /\ N - (n - 1) + 1 = m + 1
        BY <1>1, <2>4, <4>1
      <4> QED BY <2>1, <4>2
    <3>2. \E f : Reads(f, b, N - (n - 1) + 1)
      BY <3>1
    <3> HIDE DEF m, N, Bad
    <3> QED BY <2>2, <2>4, <3>1, <3>2
  <2> QED BY <2>3, <2>4
<1> QED BY <1>2, <1>3

(* QName is its first value.                                               *)
LEMMA QNameUnfolds ==
  ASSUME NEW b \in Seq(Nat)
  PROVE  \E f : Reads(f, b, 1) /\ QName(b) = f[1]
<1> DEFINE f == CHOOSE g : g = [k \in DOMAIN b |->
                  IF b[k] = 0 THEN <<>>
                  ELSE <<b[k]>> \o (IF k + 1 + b[k] \in DOMAIN b THEN g[k + 1 + b[k]]
                                    ELSE <<0>>)]
<1>1. QName(b) = f[1]
  BY DEF QName
<1>2. DOMAIN b = 1 .. Len(b)
  OBVIOUS
<1>3. \E g : g = [k \in DOMAIN b |->
                  IF b[k] = 0 THEN <<>>
                  ELSE <<b[k]>> \o (IF k + 1 + b[k] \in DOMAIN b THEN g[k + 1 + b[k]]
                                    ELSE <<0>>)]
  <2>1. PICK g : Reads(g, b, 1)
    BY ReadsExists
  <2>2. g = [k \in DOMAIN b |->
               IF b[k] = 0 THEN <<>>
               ELSE <<b[k]>> \o (IF k + 1 + b[k] \in DOMAIN b THEN g[k + 1 + b[k]]
                                 ELSE <<0>>)]
    BY <1>2, <2>1 DEF Reads
  <2> QED BY <2>2
<1>4. f = [k \in DOMAIN b |->
             IF b[k] = 0 THEN <<>>
             ELSE <<b[k]>> \o (IF k + 1 + b[k] \in DOMAIN b THEN f[k + 1 + b[k]]
                               ELSE <<0>>)]
  BY <1>3, Zenon
<1> HIDE DEF f
<1> QED BY <1>1, <1>2, <1>4 DEF Reads

\* The labels of d from number k on, up to number z - 1.
Between(d, k, z) == [i \in 1 .. z - k |-> d[k - 1 + i]]

(* Reading a label adds it in front.                                       *)
LEMMA OneMoreLabel ==
  ASSUME NEW d \in Seq(Nat), NEW z \in 1 .. Len(d) + 1, NEW k \in 1 .. z - 1
  PROVE  <<d[k]>> \o Between(d, k + 1, z) = Between(d, k, z)
<1> DEFINE s == <<d[k]>>
           t == Between(d, k + 1, z)
           u == Between(d, k, z)
<1>1. Len(d) \in Nat /\ \A i \in 1 .. Len(d) : d[i] \in Nat
  OBVIOUS
<1>2. k \in 1 .. Len(d) /\ z - k \in Nat /\ z - (k + 1) \in Nat /\ z - k = 1 + (z - (k + 1))
  BY <1>1
<1>3. s \in Seq(Nat) /\ Len(s) = 1 /\ s[1] = d[k]
  BY <1>1, <1>2
<1>4. /\ t \in Seq(Nat) /\ Len(t) = z - (k + 1)
      /\ \A i \in 1 .. z - (k + 1) : t[i] = d[k + i]
  <2>1. \A i \in 1 .. z - (k + 1) : d[k + i] \in Nat /\ k + 1 - 1 + i = k + i
    <3>1. \A i \in 1 .. z - (k + 1) : k + i \in 1 .. Len(d) /\ k + 1 - 1 + i = k + i
      BY <1>1, <1>2
    <3> QED BY <1>1, <3>1
  <2>2. t = [i \in 1 .. z - (k + 1) |-> d[k + i]]
    BY <2>1 DEF Between
  <2> HIDE DEF t
  <2> QED BY <1>2, <2>1, <2>2
<1>5. /\ u \in Seq(Nat) /\ Len(u) = z - k
      /\ \A i \in 1 .. z - k : u[i] = d[k - 1 + i]
  <2>1. \A i \in 1 .. z - k : d[k - 1 + i] \in Nat
    <3>1. \A i \in 1 .. z - k : k - 1 + i \in 1 .. Len(d)
      BY <1>1, <1>2
    <3> QED BY <1>1, <3>1
  <2>2. u = [i \in 1 .. z - k |-> d[k - 1 + i]]
    BY DEF Between
  <2> HIDE DEF u
  <2> QED BY <1>2, <2>1, <2>2
<1> HIDE DEF s, t, u
<1>6. /\ s \o t \in Seq(Nat) /\ Len(s \o t) = Len(s) + Len(t)
      /\ \A j \in 1 .. Len(s) : (s \o t)[j] = s[j]
      /\ \A j \in 1 .. Len(t) : (s \o t)[Len(s) + j] = t[j]
  <2>1. s \in Seq(Nat) /\ t \in Seq(Nat)
    BY <1>3, <1>4
  <2> QED BY <2>1, Concatenated
<1>7. ASSUME NEW i \in 1 .. z - k PROVE (s \o t)[i] = u[i]
  <2>1. CASE i = 1
    <3>1. k - 1 + 1 = k /\ 1 \in 1 .. Len(s) /\ 1 \in 1 .. z - k
      BY <1>2, <1>3, <2>1
    <3>2. (s \o t)[1] = d[k]
      BY <1>3, <1>6, <3>1
    <3>3. u[1] = d[k]
      BY <1>5, <3>1
    <3> QED BY <2>1, <3>2, <3>3
  <2>2. CASE i # 1
    <3> DEFINE j == i - 1
    <3>1. j \in 1 .. z - (k + 1) /\ 1 + j = i /\ k - 1 + i = k + j
      BY <1>2, <2>2
    <3> HIDE DEF j
    <3>2. (s \o t)[1 + j] = t[j] /\ t[j] = d[k + j]
      BY <1>3, <1>4, <1>6, <3>1
    <3> QED BY <1>5, <3>1, <3>2
  <2> QED BY <2>1, <2>2
<1>8. Len(s \o t) = Len(u) /\ \A i \in 1 .. Len(s \o t) : (s \o t)[i] = u[i]
  BY <1>2, <1>3, <1>4, <1>5, <1>6, <1>7
<1>9. s \o t = u
  BY <1>5, <1>6, <1>8, SeqEqual
<1> QED BY <1>9 DEF s, t, u

(* The resolver reads a question up to the first empty label, which may be *)
(* the root label.                                                         *)
LEMMA QNameReads ==
  ASSUME NEW d \in Seq(Nat), NEW z \in 1 .. Len(d) + 1,
         \A k \in 1 .. z - 1 : d[k] # 0, z # Len(d) + 1 => d[z] = 0
  PROVE  QName(Question(d)) = Between(d, 1, z)
<1> DEFINE b == Question(d)
<1>1. b \in Seq(Nat) /\ Len(b) = Len(Labels(d)) + 5 /\ Len(Labels(d)) \in Nat
  BY QuestionLayout
<1>2. PICK off : /\ Offsets(off, d) /\ off[Len(d) + 1] = Len(Labels(d))
                 /\ \A k \in 1 .. Len(d) : b[off[k] + 1] = d[k]
                 /\ b[off[Len(d) + 1] + 1] = 0
  BY QuestionLayout
<1> HIDE DEF b
<1>3. PICK f : Reads(f, b, 1) /\ QName(b) = f[1]
  BY <1>1, QNameUnfolds
<1>4. \A k \in 1 .. Len(b) :
        f[k] = IF b[k] = 0 THEN <<>>
               ELSE <<b[k]>> \o (IF k + 1 + b[k] \in 1 .. Len(b) THEN f[k + 1 + b[k]]
                                 ELSE <<0>>)
  BY <1>3 DEF Reads
<1>5. /\ Len(d) \in Nat /\ off \in [1 .. Len(d) + 1 -> Nat] /\ off[1] = 0
      /\ \A k \in 1 .. Len(d) : off[k + 1] = off[k] + 1 + d[k] /\ d[k] \in Nat
  BY <1>2 DEF Offsets
<1>6. ASSUME NEW k \in 1 .. Len(d) + 1 PROVE off[k] \in Nat /\ off[k] + 1 \in 1 .. Len(b)
  <2>1. off[k] \in Nat /\ off[k] <= Len(Labels(d))
    <3>1. CASE k = Len(d) + 1
      BY <1>1, <1>2, <3>1
    <3>2. CASE k # Len(d) + 1
      <4> DEFINE x == off[k]
                 y == d[k]
                 w == off[k + 1]
                 e == Len(Labels(d))
      <4>1. k \in 1 .. Len(d)
        <5>1. Len(d) \in Nat
          BY <1>5
        <5> QED BY <3>2, <5>1
      <4>2. x \in Nat /\ y \in Nat /\ w = x + 1 + y /\ w <= e /\ e \in Nat
        BY <1>1, <1>2, <1>5, <4>1 DEF Offsets
      <4> HIDE DEF x, y, w, e
      <4>3. x <= e
        BY <4>2
      <4> QED BY <4>2, <4>3 DEF x, e
    <3> QED BY <3>1, <3>2
  <2> DEFINE x == off[k]
             e == Len(Labels(d))
  <2>2. x \in Nat /\ x <= e /\ e \in Nat /\ Len(b) = e + 5
    BY <1>1, <2>1
  <2> HIDE DEF x, e
  <2>3. x + 1 \in 1 .. Len(b)
    BY <2>2
  <2> QED BY <2>1, <2>3 DEF x
<1> DEFINE Good(n) == f[off[z - n] + 1] = Between(d, z - n, z)
           Bad == {n \in 0 .. z - 1 : ~ Good(n)}
<1>7. Good(0)
  <2>1. z - 0 = z /\ b[off[z] + 1] = 0
    BY <1>2, <1>5
  <2>2. off[z] + 1 \in 1 .. Len(b)
    BY <1>6
  <2>3. f[off[z] + 1] = <<>>
    BY <1>4, <2>1, <2>2
  <2>4. Between(d, z, z) = <<>>
    <3>1. z - z = 0
      BY <1>5
    <3> QED BY <3>1 DEF Between
  <2> QED BY <2>1, <2>3, <2>4
<1>8. ASSUME NEW n \in 1 .. z - 1, Good(n - 1) PROVE Good(n)
  <2> DEFINE k == z - n
             x == off[k] + 1
  <2>1. /\ k \in 1 .. z - 1 /\ k \in 1 .. Len(d) /\ k \in 1 .. Len(d) + 1
        /\ z - (n - 1) = k + 1 /\ k + 1 \in 1 .. Len(d) + 1
    BY <1>5
  <2> HIDE DEF k
  <2>2. x \in 1 .. Len(b) /\ b[x] = d[k] /\ d[k] # 0
    BY <1>2, <1>6, <2>1
  <2>3. x + 1 + d[k] = off[k + 1] + 1
    <3> DEFINE u == off[k]
               v == d[k]
    <3>1. u \in Nat /\ v \in Nat /\ off[k + 1] = u + 1 + v
      BY <1>5, <1>6, <2>1
    <3> HIDE DEF u, v
    <3>2. u + 1 + 1 + v = u + 1 + v + 1
      BY <3>1
    <3> QED BY <3>1, <3>2 DEF u, v
  <2>4. off[k + 1] + 1 \in 1 .. Len(b)
    BY <1>6, <2>1
  <2> HIDE DEF x
  <2>5. f[x] = <<d[k]>> \o f[off[k + 1] + 1]
    BY <1>4, <2>2, <2>3, <2>4
  <2>6. f[off[k + 1] + 1] = Between(d, k + 1, z)
    BY <1>8, <2>1
  <2>7. <<d[k]>> \o Between(d, k + 1, z) = Between(d, k, z)
    BY <2>1, OneMoreLabel
  <2> QED BY <2>5, <2>6, <2>7 DEF k, x
<1>9. Good(z - 1)
  <2> HIDE DEF Good
  <2>1. CASE Bad = {}
    <3>1. z - 1 \in 0 .. z - 1
      BY <1>5
    <3> QED BY <2>1, <3>1
  <2>2. CASE Bad # {}
    <3>1. PICK n \in Bad : \A m \in Bad : n <= m
      <4>1. Bad \in SUBSET Nat
        BY <1>5
      <4> HIDE DEF Bad
      <4> QED BY <2>2, <4>1, MinOfNaturals
    <3>2. n \in 1 .. z - 1 /\ n - 1 \in 0 .. z - 1 /\ n - 1 \notin Bad
      BY <1>5, <1>7, <3>1
    <3> QED BY <1>8, <3>1, <3>2
  <2> QED BY <2>1, <2>2
<1>10. z - (z - 1) = 1 /\ 0 + 1 = 1
  BY <1>5
<1> QED BY <1>3, <1>5, <1>9, <1>10 DEF b

(* The question built for a name without empty labels asks for that name.  *)
LEMMA AsksForName ==
  ASSUME NEW d \in Seq(Nat), \A k \in DOMAIN d : d[k] > 0
  PROVE  AsksFor(Question(d), d)
<1> DEFINE z == Len(d) + 1
<1>1. Len(d) \in Nat /\ z \in 1 .. Len(d) + 1 /\ z - 1 = Len(d) /\ DOMAIN d = 1 .. Len(d)
      /\ \A k \in 1 .. Len(d) : d[k] \in Nat
  OBVIOUS
<1>2. \A k \in 1 .. z - 1 : d[k] # 0
  BY <1>1
<1>3. Between(d, 1, z) = d
  <2>1. \A i \in 1 .. Len(d) : 1 - 1 + i = i
    BY <1>1
  <2>2. Between(d, 1, z) = [i \in 1 .. Len(d) |-> d[i]]
    BY <1>1, <2>1 DEF Between
  <2> QED BY <1>1, <2>2
<1> HIDE DEF z
<1>4. QName(Question(d)) = d
  <2>1. z # Len(d) + 1 => d[z] = 0
    BY DEF z
  <2> QED BY <1>1, <1>2, <1>3, <2>1, QNameReads
<1> QED BY <1>4, QuestionLayout DEF AsksFor

(* The offsets of a part of a name are those of the name.                  *)
LEMMA OffsetsAgree ==
  ASSUME NEW d \in Seq(Nat), NEW z \in 1 .. Len(d), NEW off, Offsets(off, d),
         NEW e \in Seq(Nat), Len(e) = z - 1, \A i \in 1 .. z - 1 : e[i] = d[i],
         NEW offE, Offsets(offE, e)
  PROVE  offE[z] = off[z]
<1> DEFINE Bad == {k \in 1 .. z : offE[k] # off[k]}
<1> SUFFICES ASSUME Bad # {} PROVE FALSE
  <2>1. z \in 1 .. z
    OBVIOUS
  <2> QED BY <2>1
<1>1. PICK k \in Bad : \A j \in Bad : k <= j
  <2>1. Bad \in SUBSET Nat
    OBVIOUS
  <2> HIDE DEF Bad
  <2> QED BY <2>1, MinOfNaturals
<1>2. offE[1] = 0 /\ off[1] = 0
  BY DEF Offsets
<1> DEFINE j == k - 1
<1>3. j \in 1 .. z - 1 /\ j \in 1 .. z /\ j \in 1 .. Len(d) /\ j \in 1 .. Len(e) /\ k = j + 1 /\ j \notin Bad
  BY <1>1, <1>2
<1> HIDE DEF j
<1>4. offE[j] = off[j] /\ e[j] = d[j]
  BY <1>3
<1>5. offE[j + 1] = offE[j] + 1 + e[j] /\ off[j + 1] = off[j] + 1 + d[j]
  BY <1>3 DEF Offsets
<1>6. offE[k] = off[k]
  BY <1>3, <1>4, <1>5
<1> QED BY <1>6

(* The resolver answers with records only if the name has no empty label.  *)
LEMMA AnsweredName ==
  ASSUME NEW d \in Seq(Nat), AsksFor(Question(d), QName(Question(d)))
  PROVE  \A k \in 1 .. Len(d) : d[k] # 0
<1> DEFINE Zero == {k \in 1 .. Len(d) : d[k] = 0}
           b == Question(d)
<1> SUFFICES ASSUME Zero # {} PROVE FALSE
  OBVIOUS
<1>1. PICK z \in Zero : \A j \in Zero : z <= j
  <2>1. Zero \in SUBSET Nat
    OBVIOUS
  <2> HIDE DEF Zero
  <2> QED BY <2>1, MinOfNaturals
<1>2. z \in 1 .. Len(d) /\ d[z] = 0 /\ Len(d) \in Nat /\ z \in 1 .. Len(d) + 1
  BY <1>1
<1>3. \A k \in 1 .. z - 1 : d[k] # 0
  <2> TAKE k \in 1 .. z - 1
  <2>1. k \in 1 .. Len(d) /\ ~ (z <= k)
    BY <1>2
  <2> QED BY <1>1, <2>1
<1> HIDE DEF Zero
<1> DEFINE e == Between(d, 1, z)
<1>4. QName(b) = e
  BY <1>2, <1>3, QNameReads
<1>5. e \in Seq(Nat) /\ Len(e) = z - 1 /\ \A i \in 1 .. z - 1 : e[i] = d[i]
  <2>1. \A i \in 1 .. z - 1 : 1 - 1 + i = i /\ d[i] \in Nat
    BY <1>2
  <2>2. e = [i \in 1 .. z - 1 |-> d[i]]
    BY <2>1 DEF Between
  <2> HIDE DEF e
  <2>3. z - 1 \in Nat
    BY <1>2
  <2> QED BY <2>1, <2>2, <2>3
<1> HIDE DEF e
<1>6. b \in Seq(Nat) /\ Len(b) = Len(Labels(d)) + 5 /\ Len(Labels(d)) \in Nat
  BY QuestionLayout
<1>7. PICK off : Offsets(off, d) /\ off[Len(d) + 1] = Len(Labels(d))
  BY QuestionLayout
<1>8. PICK offE : Offsets(offE, e) /\ offE[Len(e) + 1] = Len(Labels(e))
  BY <1>5, QuestionLayout
<1>9. Len(Labels(e)) \in Nat
  BY <1>5, QuestionLayout
<1>10. Len(Labels(e)) = off[z]
  <2>1. offE[z] = off[z]
    <3>1. z \in 1 .. Len(d) /\ Offsets(off, d) /\ Offsets(offE, e)
      BY <1>2, <1>7, <1>8
    <3>2. e \in Seq(Nat) /\ Len(e) = z - 1 /\ \A i \in 1 .. z - 1 : e[i] = d[i]
      BY <1>5
    <3> QED BY <3>1, <3>2, OffsetsAgree, SMTT(30)
  <2>2. Len(e) + 1 = z
    BY <1>2, <1>5
  <2> QED BY <1>8, <2>1, <2>2
<1>11. Len(Labels(e)) = Len(Labels(d))
  <2> DEFINE x == Len(Labels(e))
             y == Len(Labels(d))
  <2>1. SubSeq(b, x + 1, Len(b)) = <<0, 0, 1, 0, 1>>
    BY <1>4 DEF AsksFor
  <2>2. Len(SubSeq(b, x + 1, Len(b))) = 5
    <3>1. Len(<<0, 0, 1, 0, 1>>) = 5
      OBVIOUS
    <3> QED BY <2>1, <3>1, Zenon
  <2>3. x \in Nat /\ y \in Nat /\ b \in Seq(Nat) /\ Len(b) = y + 5
    BY <1>6, <1>9
  <2> HIDE DEF x, y, b
  <2>4. Len(SubSeq(b, x + 1, Len(b))) = IF x + 1 <= Len(b) THEN Len(b) - (x + 1) + 1 ELSE 0
    <3>1. \A i \in x + 1 .. Len(b) : b[i] \in Nat
      BY <2>3
    <3>2. x + 1 \in Int /\ Len(b) \in Int
      BY <2>3
    <3> QED BY <3>1, <3>2, SubSeqProperties
  <2>5. x = y
    BY <2>2, <2>3, <2>4
  <2> QED BY <2>5 DEF x, y
<1>12. off[z] < Len(Labels(d))
  <2> DEFINE x == off[z]
             w == off[z + 1]
             y == Len(Labels(d))
  <2>1. x \in Nat /\ w = x + 1 + d[z] /\ w <= y
    BY <1>2, <1>7 DEF Offsets
  <2>2. x \in Nat /\ w = x + 1 + 0 /\ w <= y /\ y \in Nat
    BY <1>2, <1>6, <2>1
  <2> HIDE DEF x, w, y
  <2>3. x < y
    BY <2>2
  <2> QED BY <2>3 DEF x, y
<1> QED BY <1>6, <1>10, <1>11, <1>12

-----------------------------------------------------------------------------
(* Responses.                                                              *)

\* Name d is encoded in b after the first at bytes.
NameAt(b, at, d, off) ==
  /\ \A k \in 1 .. Len(d) : b[at + off[k] + 1] = d[k]
  /\ b[at + off[Len(d) + 1] + 1] = 0

\* The length of the owner of record r of a response to a question for d.
OwnerLen(r, d, off) == IF r.ptr THEN 2 ELSE off[Len(d) + 1] + 1

\* Type ty, class, ttl, length and data rd are encoded in b after o bytes.
FieldsAt(b, o, ty, rd) ==
  /\ 256 * b[o + 1] + b[o + 2] = ty
  /\ 256 * b[o + 9] + b[o + 10] = Len(rd)
  /\ \A j \in 1 .. Len(rd) : b[o + 10 + j] = rd[j]

\* Record r is encoded in b: its owner after at, the rest after o bytes.
RecordAt(b, at, o, r, d, off) ==
  /\ r.ptr => b[at + 1] = 192
  /\ ~ r.ptr => NameAt(b, at, d, off)
  /\ FieldsAt(b, o, r.type, r.rdata)

(* A number is what its two bytes say.                                     *)
LEMMA TwoBytes ==
  ASSUME NEW n \in Nat
  PROVE  /\ U16(n) \in Seq(Nat) /\ Len(U16(n)) = 2
         /\ U16(n)[1] \in Nat /\ U16(n)[2] \in Nat
         /\ 256 * U16(n)[1] + U16(n)[2] = n
<1>1. n \div 256 \in Nat /\ n % 256 \in Nat /\ n = 256 * (n \div 256) + (n % 256)
  OBVIOUS
<1> QED BY <1>1 DEF U16

\* A record, given its owner.
WithFields(own, ty, rd) ==
  own \o U16(ty) \o U16(DNS_CLASS_IN) \o <<0, 0, 0, 60>> \o U16(Len(rd)) \o rd

(* The fields of a record, whatever its owner.                             *)
LEMMA Fields ==
  ASSUME NEW own \in Seq(Nat), NEW ty \in Nat, NEW rd \in Seq(Nat), NEW w,
         w = WithFields(own, ty, rd)
  PROVE  /\ w \in Seq(Nat) /\ Len(w) = Len(own) + 10 + Len(rd)
         /\ \A j \in 1 .. Len(own) : w[j] = own[j]
         /\ FieldsAt(w, Len(own), ty, rd)
<1> DEFINE o == Len(own)
           n == Len(rd)
           a1 == own \o U16(ty)
           a2 == a1 \o U16(DNS_CLASS_IN)
           a3 == a2 \o <<0, 0, 0, 60>>
           a4 == a3 \o U16(n)
           a5 == a4 \o rd
<1>1. o \in Nat /\ n \in Nat /\ w = a5
  BY DEF WithFields
<1>2. U16(ty) \in Seq(Nat) /\ Len(U16(ty)) = 2 /\ 256 * U16(ty)[1] + U16(ty)[2] = ty
  BY TwoBytes
<1>3. U16(DNS_CLASS_IN) \in Seq(Nat) /\ Len(U16(DNS_CLASS_IN)) = 2
  BY TwoBytes DEF DNS_CLASS_IN
<1>4. U16(n) \in Seq(Nat) /\ Len(U16(n)) = 2 /\ 256 * U16(n)[1] + U16(n)[2] = n
  BY <1>1, TwoBytes
<1>5. <<0, 0, 0, 60>> \in Seq(Nat) /\ Len(<<0, 0, 0, 60>>) = 4
  OBVIOUS
<1>6. /\ a1 \in Seq(Nat) /\ Len(a1) = o + 2
      /\ \A j \in 1 .. o : a1[j] = own[j]
      /\ a1[o + 1] = U16(ty)[1] /\ a1[o + 2] = U16(ty)[2]
  <2> DEFINE u == U16(ty)
  <2>1. u \in Seq(Nat) /\ Len(u) = 2
    BY <1>2
  <2> HIDE DEF u
  <2>2. /\ own \o u \in Seq(Nat) /\ Len(own \o u) = Len(own) + Len(u)
        /\ \A j \in 1 .. Len(own) : (own \o u)[j] = own[j]
        /\ \A j \in 1 .. Len(u) : (own \o u)[Len(own) + j] = u[j]
    BY <2>1, Joined
  <2> QED BY <2>1, <2>2 DEF u
<1> HIDE DEF a1
<1>7. /\ a2 \in Seq(Nat) /\ Len(a2) = o + 4
      /\ \A j \in 1 .. o + 2 : a2[j] = a1[j]
  <2> DEFINE u == U16(DNS_CLASS_IN)
  <2>1. u \in Seq(Nat) /\ Len(u) = 2 /\ a1 \in Seq(Nat)
    BY <1>3, <1>6
  <2> HIDE DEF u
  <2>2. /\ a1 \o u \in Seq(Nat) /\ Len(a1 \o u) = Len(a1) + Len(u)
        /\ \A j \in 1 .. Len(a1) : (a1 \o u)[j] = a1[j]
    BY <2>1, Joined
  <2> QED BY <1>1, <1>6, <2>1, <2>2 DEF u
<1> HIDE DEF a2
<1>8. /\ a3 \in Seq(Nat) /\ Len(a3) = o + 8
      /\ \A j \in 1 .. o + 4 : a3[j] = a2[j]
  <2> DEFINE u == <<0, 0, 0, 60>>
  <2>1. u \in Seq(Nat) /\ Len(u) = 4 /\ a2 \in Seq(Nat)
    BY <1>5, <1>7
  <2> HIDE DEF u
  <2>2. /\ a2 \o u \in Seq(Nat) /\ Len(a2 \o u) = Len(a2) + Len(u)
        /\ \A j \in 1 .. Len(a2) : (a2 \o u)[j] = a2[j]
    BY <2>1, Joined
  <2> QED BY <1>1, <1>7, <2>1, <2>2 DEF u
<1> HIDE DEF a3
<1>9. /\ a4 \in Seq(Nat) /\ Len(a4) = o + 10
      /\ \A j \in 1 .. o + 8 : a4[j] = a3[j]
      /\ a4[o + 9] = U16(n)[1] /\ a4[o + 10] = U16(n)[2]
  <2> DEFINE u == U16(n)
  <2>1. u \in Seq(Nat) /\ Len(u) = 2 /\ a3 \in Seq(Nat)
    BY <1>4, <1>8
  <2> HIDE DEF u
  <2>2. /\ a3 \o u \in Seq(Nat) /\ Len(a3 \o u) = Len(a3) + Len(u)
        /\ \A j \in 1 .. Len(a3) : (a3 \o u)[j] = a3[j]
        /\ \A j \in 1 .. Len(u) : (a3 \o u)[Len(a3) + j] = u[j]
    BY <2>1, Joined
  <2>3. o + 8 + 1 = o + 9 /\ o + 8 + 2 = o + 10
    BY <1>1
  <2> HIDE DEF o, n
  <2>4. (a3 \o u)[o + 9] = u[1] /\ (a3 \o u)[o + 10] = u[2]
    <3>1. 1 \in 1 .. Len(u) /\ 2 \in 1 .. Len(u)
      BY <2>1
    <3> QED BY <1>8, <2>2, <2>3, <3>1
  <2> QED BY <1>1, <1>8, <2>1, <2>2, <2>4 DEF u
<1> HIDE DEF a4
<1>10. /\ a5 \in Seq(Nat) /\ Len(a5) = o + 10 + n
       /\ \A j \in 1 .. o + 10 : a5[j] = a4[j]
       /\ \A j \in 1 .. n : a5[o + 10 + j] = rd[j]
  <2>1. /\ a4 \o rd \in Seq(Nat) /\ Len(a4 \o rd) = Len(a4) + Len(rd)
        /\ \A j \in 1 .. Len(a4) : (a4 \o rd)[j] = a4[j]
        /\ \A j \in 1 .. Len(rd) : (a4 \o rd)[Len(a4) + j] = rd[j]
    <3>1. a4 \in Seq(Nat)
      BY <1>9
    <3> QED BY <3>1, Joined
  <2>2. Len(a4) = o + 10 /\ Len(rd) = n
    BY <1>9
  <2>3. /\ a5 \in Seq(Nat) /\ Len(a5) = Len(a4) + Len(rd)
        /\ \A j \in 1 .. Len(a4) : a5[j] = a4[j]
        /\ \A j \in 1 .. Len(rd) : a5[Len(a4) + j] = rd[j]
    BY <2>1, Zenon
  <2> HIDE DEF a4, a5, o, n
  <2> QED BY <2>2, <2>3
<1> HIDE DEF a4, a5, o, n
<1>11. ASSUME NEW j \in 1 .. o + 2 PROVE a5[j] = a1[j]
  <2>1. j \in 1 .. o + 4 /\ j \in 1 .. o + 8 /\ j \in 1 .. o + 10
    BY <1>1
  <2>2. a5[j] = a4[j] /\ a4[j] = a3[j]
    BY <1>9, <1>10, <2>1
  <2>3. a3[j] = a2[j] /\ a2[j] = a1[j]
    BY <1>7, <1>8, <2>1
  <2> QED BY <2>2, <2>3
<1>12. a5[o + 9] = U16(n)[1] /\ a5[o + 10] = U16(n)[2]
  <2>1. o + 9 \in 1 .. o + 10 /\ o + 10 \in 1 .. o + 10
    BY <1>1
  <2> QED BY <1>9, <1>10, <2>1
<1>13. \A j \in 1 .. o : a5[j] = own[j]
  <2>1. \A j \in 1 .. o : j \in 1 .. o + 2
    BY <1>1
  <2> QED BY <1>6, <1>11, <2>1
<1>14. a5[o + 1] = U16(ty)[1] /\ a5[o + 2] = U16(ty)[2]
  <2>1. o + 1 \in 1 .. o + 2 /\ o + 2 \in 1 .. o + 2
    BY <1>1
  <2> QED BY <1>6, <1>11, <2>1
<1> QED BY <1>1, <1>2, <1>4, <1>10, <1>12, <1>13, <1>14 DEF FieldsAt, o, n

\* What QuestionLayout says of off.
Begins(off, d) ==
  /\ Offsets(off, d) /\ off[Len(d) + 1] = Len(Labels(d))
  /\ \A k \in 1 .. Len(d) : Question(d)[off[k] + 1] = d[k]
  /\ Question(d)[off[Len(d) + 1] + 1] = 0

(* Every label begins within the name.                                     *)
LEMMA OffsetsBound ==
  ASSUME NEW d \in Seq(Nat), NEW off, Offsets(off, d), NEW k \in 1 .. Len(d) + 1
  PROVE  off[k] \in 0 .. off[Len(d) + 1] /\ off[Len(d) + 1] \in Nat
<1>1. Len(d) \in Nat /\ off \in [1 .. Len(d) + 1 -> Nat] /\ Len(d) + 1 \in 1 .. Len(d) + 1
  BY DEF Offsets
<1>2. CASE k = Len(d) + 1
  BY <1>1, <1>2
<1>3. CASE k # Len(d) + 1
  <2> DEFINE x == off[k]
             y == d[k]
             e == off[Len(d) + 1]
  <2>1. k \in 1 .. Len(d)
    BY <1>1, <1>3
  <2>2. x \in Nat /\ y \in Nat /\ x + 1 + y <= e /\ e \in Nat
    <3>1. x \in Nat /\ y \in Nat /\ e \in Nat
      BY <1>1, <2>1
    <3>2. off[k + 1] = x + 1 + y /\ off[k + 1] <= e
      BY <2>1 DEF Offsets
    <3> QED BY <3>1, <3>2, Zenon
  <2> HIDE DEF x, y, e
  <2>3. x \in 0 .. e
    BY <2>2
  <2> QED BY <2>2, <2>3 DEF x, e
<1> QED BY <1>2, <1>3

(* A record on its own.                                                    *)
LEMMA WireLayout ==
  ASSUME NEW d \in Seq(Nat), NEW off, Begins(off, d), NEW r \in RR, NEW w,
         w = Wire(Question(d), r)
  PROVE  /\ w \in Seq(Nat) /\ OwnerLen(r, d, off) \in Nat
         /\ Len(w) = OwnerLen(r, d, off) + 10 + Len(r.rdata) /\ Len(r.rdata) \in Nat
         /\ RecordAt(w, 0, OwnerLen(r, d, off), r, d, off)
<1> DEFINE own == IF r.ptr THEN <<192, Header>>
                  ELSE SubSeq(Question(d), 1, Len(Question(d)) - 4)
           b == Question(d)
           e == off[Len(d) + 1]
<1>1. r.type \in Nat /\ r.rdata \in Seq(Nat) /\ r.ptr \in BOOLEAN
  BY DEF RR
<1>2. w = WithFields(own, r.type, r.rdata)
  BY DEF Wire, WithFields
<1>3. b \in Seq(Nat) /\ Len(b) = e + 5 /\ e \in Nat
  BY QuestionLayout DEF Begins
<1>4. CASE r.ptr
  <2>1. own \in Seq(Nat) /\ Len(own) = 2 /\ own[1] = 192
    BY <1>4 DEF Header
  <2> HIDE DEF own
  <2>2. /\ w \in Seq(Nat) /\ Len(w) = Len(own) + 10 + Len(r.rdata)
        /\ \A j \in 1 .. Len(own) : w[j] = own[j]
        /\ FieldsAt(w, Len(own), r.type, r.rdata)
    <3>1. own \in Seq(Nat)
      BY <2>1
    <3> QED BY <1>1, <1>2, <3>1, Fields, Zenon
  <2>3. OwnerLen(r, d, off) = 2 /\ w[0 + 1] = 192
    BY <1>4, <2>1, <2>2 DEF OwnerLen
  <2> QED BY <1>1, <1>4, <2>1, <2>2, <2>3 DEF RecordAt
<1>5. CASE ~ r.ptr
  <2> HIDE DEF b, e
  <2> DEFINE o == e + 1
  <2>1. own \in Seq(Nat) /\ Len(own) = o /\ \A j \in 1 .. o : own[j] = b[j]
    <3>1. e + 5 - 4 = o /\ o \in 1 .. Len(b)
      BY <1>3
    <3>2. own = SubSeq(b, 1, o)
      BY <1>3, <1>5, <3>1 DEF b
    <3> HIDE DEF own, o
    <3>3. SubSeq(b, 1, o) \in Seq(Nat) /\ Len(SubSeq(b, 1, o)) = o
          /\ \A j \in 1 .. o : SubSeq(b, 1, o)[j] = b[j]
      BY <1>3, <3>1
    <3> QED BY <3>2, <3>3
  <2> HIDE DEF own
  <2>2. OwnerLen(r, d, off) = o
    BY <1>5 DEF OwnerLen, e
  <2>3. /\ w \in Seq(Nat) /\ Len(w) = o + 10 + Len(r.rdata)
        /\ \A j \in 1 .. o : w[j] = own[j]
        /\ FieldsAt(w, o, r.type, r.rdata)
    <3>1. own \in Seq(Nat)
      BY <2>1
    <3>2. /\ w \in Seq(Nat) /\ Len(w) = Len(own) + 10 + Len(r.rdata)
          /\ \A j \in 1 .. Len(own) : w[j] = own[j]
          /\ FieldsAt(w, Len(own), r.type, r.rdata)
      BY <1>1, <1>2, <3>1, Fields, Zenon
    <3> QED BY <2>1, <3>2
  <2>4. NameAt(w, 0, d, off)
    <3>1. \A k \in 1 .. Len(d) + 1 : off[k] \in 0 .. e
      BY OffsetsBound DEF Begins, e
    <3>2. \A k \in 1 .. Len(d) + 1 : off[k] + 1 \in 1 .. e + 1 /\ 0 + off[k] + 1 = off[k] + 1
      BY <1>3, <3>1
    <3>3. \A k \in 1 .. Len(d) + 1 : w[0 + off[k] + 1] = b[off[k] + 1]
      BY <2>1, <2>3, <3>2
    <3>4. Len(d) + 1 \in 1 .. Len(d) + 1 /\ \A k \in 1 .. Len(d) : k \in 1 .. Len(d) + 1
      OBVIOUS
    <3> QED BY <3>3, <3>4 DEF NameAt, Begins, b
  <2>5. o \in Nat /\ Len(r.rdata) \in Nat
    BY <1>1, <1>3
  <2> HIDE DEF o
  <2> QED BY <1>5, <2>2, <2>3, <2>4, <2>5 DEF RecordAt
<1> QED BY <1>4, <1>5

(* The fields of a record somewhere in a message.                          *)
LEMMA FieldsShifted ==
  ASSUME NEW w, NEW b, NEW at \in Nat, NEW o \in Nat, NEW ty, NEW rd \in Seq(Nat),
         NEW n \in Nat, n = Len(rd), FieldsAt(w, o, ty, rd),
         \A j \in 1 .. o + 10 + n : b[at + j] = w[j]
  PROVE  FieldsAt(b, at + o, ty, rd)
<1>1. ASSUME NEW j \in 1 .. 10 + n PROVE b[at + o + j] = w[o + j]
  <2>1. o + j \in 1 .. o + 10 + n /\ at + (o + j) = at + o + j
    OBVIOUS
  <2>2. b[at + (o + j)] = w[o + j]
    BY <2>1
  <2> QED BY <2>1, <2>2
<1>2. /\ b[at + o + 1] = w[o + 1] /\ b[at + o + 2] = w[o + 2]
      /\ b[at + o + 9] = w[o + 9] /\ b[at + o + 10] = w[o + 10]
  <2>1. 1 \in 1 .. 10 + n /\ 2 \in 1 .. 10 + n /\ 9 \in 1 .. 10 + n /\ 10 \in 1 .. 10 + n
    OBVIOUS
  <2> QED BY <1>1, <2>1
<1>3. ASSUME NEW j \in 1 .. n PROVE b[at + o + 10 + j] = w[o + 10 + j]
  <2>1. 10 + j \in 1 .. 10 + n /\ at + o + (10 + j) = at + o + 10 + j /\ o + (10 + j) = o + 10 + j
    OBVIOUS
  <2>2. b[at + o + (10 + j)] = w[o + (10 + j)]
    BY <1>1, <2>1
  <2> QED BY <2>1, <2>2
<1>4. /\ 256 * w[o + 1] + w[o + 2] = ty
      /\ 256 * w[o + 9] + w[o + 10] = Len(rd)
      /\ \A j \in 1 .. n : w[o + 10 + j] = rd[j]
  BY DEF FieldsAt
<1>5. /\ 256 * b[at + o + 1] + b[at + o + 2] = ty
      /\ 256 * b[at + o + 9] + b[at + o + 10] = Len(rd)
  BY <1>2, <1>4
<1>6. \A j \in 1 .. Len(rd) : b[at + o + 10 + j] = rd[j]
  BY <1>3, <1>4
<1> QED BY <1>5, <1>6 DEF FieldsAt

(* A record somewhere in a message.                                        *)
LEMMA RecordShifted ==
  ASSUME NEW d \in Seq(Nat), NEW off, Offsets(off, d), NEW r \in RR, NEW w, NEW b,
         NEW at \in Nat, NEW o \in Nat, o = OwnerLen(r, d, off),
         RecordAt(w, 0, o, r, d, off),
         \A j \in 1 .. o + 10 + Len(r.rdata) : b[at + j] = w[j]
  PROVE  RecordAt(b, at, at + o, r, d, off)
<1> DEFINE n == Len(r.rdata)
<1>1. r.ptr \in BOOLEAN /\ r.rdata \in Seq(Nat) /\ n \in Nat
  BY DEF RR
<1>2. FieldsAt(w, o, r.type, r.rdata) /\ \A j \in 1 .. o + 10 + n : b[at + j] = w[j]
  BY DEF RecordAt
<1>3. FieldsAt(b, at + o, r.type, r.rdata)
  BY <1>1, <1>2, FieldsShifted
<1> HIDE DEF n
<1>4. ASSUME r.ptr PROVE b[at + 1] = 192
  <2>1. w[1] = 192 /\ 1 \in 1 .. o + 10 + n
    BY <1>1, <1>4 DEF RecordAt
  <2> QED BY <1>2, <2>1
<1>5. ASSUME ~ r.ptr PROVE NameAt(b, at, d, off)
  <2> DEFINE e == off[Len(d) + 1]
  <2>1. o = e + 1 /\ NameAt(w, 0, d, off)
    BY <1>5 DEF RecordAt, OwnerLen
  <2>2. ASSUME NEW k \in 1 .. Len(d) + 1 PROVE b[at + off[k] + 1] = w[0 + off[k] + 1]
    <3> DEFINE x == off[k]
    <3>1. x \in 0 .. e /\ e \in Nat
      BY OffsetsBound
    <3> HIDE DEF x, e
    <3>2. x + 1 \in 1 .. o + 10 + n /\ at + (x + 1) = at + x + 1 /\ 0 + x + 1 = x + 1
      BY <1>1, <2>1, <3>1
    <3>3. b[at + (x + 1)] = w[x + 1]
      BY <1>2, <3>2
    <3> QED BY <3>2, <3>3 DEF x
  <2>3. Len(d) + 1 \in 1 .. Len(d) + 1 /\ \A k \in 1 .. Len(d) : k \in 1 .. Len(d) + 1
    OBVIOUS
  <2> QED BY <2>1, <2>2, <2>3 DEF NameAt
<1> QED BY <1>3, <1>4, <1>5 DEF RecordAt

\* Message m is a response: a question for name d, whose labels begin at off,
\* and records, the i-th of which begins after at[i] bytes.
Sections(m, d, off, at) ==
  /\ d \in Seq(Nat) /\ (\A k \in 1 .. Len(d) : d[k] \in 1 .. 191) /\ Offsets(off, d)
  /\ m.bytes \in Seq(Nat) /\ m.len = Header + Len(m.bytes)
  /\ m.rrs \in Seq(RR) /\ m.ancount = Len(m.rrs)
  /\ NameAt(m.bytes, 0, d, off)
  /\ at \in [1 .. Len(m.rrs) + 1 -> Nat] /\ at[1] = off[Len(d) + 1] + 5
  /\ \A i \in 1 .. Len(m.rrs) + 1 : at[i] <= Len(m.bytes)
  /\ \A i \in 1 .. Len(m.rrs) :
       LET o == at[i] + OwnerLen(m.rrs[i], d, off)
       IN /\ RecordAt(m.bytes, at[i], o, m.rrs[i], d, off)
          /\ at[i + 1] = o + 10 + Len(m.rrs[i].rdata)

(* What the resolver sends is a response.                                  *)
LEMMA ResponseLayout ==
  ASSUME NEW d \in Seq(Nat), \A k \in 1 .. Len(d) : d[k] \in 1 .. 191,
         NEW rrs \in Seq(RR), NEW m, m.rrs = rrs, m.ancount = Len(rrs),
         m.len = Header + Len(m.bytes), m.bytes = Response(d, rrs)
  PROVE  \E off, at : Sections(m, d, off, at)
<1> DEFINE b == Question(d)
           ws == [k \in DOMAIN rrs |-> Wire(b, rrs[k])]
           f == FlattenSeq(ws)
           N == Len(rrs)
<1>1. PICK off : Begins(off, d)
  BY QuestionLayout DEF Begins
<1>2. N \in Nat /\ DOMAIN rrs = 1 .. N /\ \A i \in 1 .. N : rrs[i] \in RR
  OBVIOUS
<1>3. \A i \in 1 .. N :
        LET o == OwnerLen(rrs[i], d, off)
        IN /\ ws[i] \in Seq(Nat) /\ o \in Nat /\ Len(rrs[i].rdata) \in Nat
           /\ Len(ws[i]) = o + 10 + Len(rrs[i].rdata)
           /\ RecordAt(ws[i], 0, o, rrs[i], d, off)
  BY <1>1, <1>2, WireLayout
<1>4. ws \in Seq(Seq(Nat)) /\ Len(ws) = N
  BY <1>2, <1>3
<1> HIDE DEF ws
<1>5. f \in Seq(Nat) /\ \E g : Layout(f, ws, g, N)
  BY <1>4, FlattenLayout
<1>6. PICK g : Layout(f, ws, g, N)
  BY <1>5
<1>7. b \in Seq(Nat) /\ Len(b) = off[Len(d) + 1] + 5 /\ off[Len(d) + 1] \in Nat
  BY <1>1, QuestionLayout DEF Begins
<1> HIDE DEF f
<1>8. /\ m.bytes = b \o f
      /\ m.bytes \in Seq(Nat) /\ Len(m.bytes) = Len(b) + Len(f)
      /\ Len(b) \in Nat /\ Len(f) \in Nat
      /\ \A j \in 1 .. Len(b) : m.bytes[j] = b[j]
      /\ \A j \in 1 .. Len(f) : m.bytes[Len(b) + j] = f[j]
  <2>1. m.bytes = b \o f
    BY DEF Response, f, ws
  <2>2. b \in Seq(Nat) /\ f \in Seq(Nat)
    BY <1>5, <1>7
  <2> HIDE DEF b
  <2>3. /\ b \o f \in Seq(Nat) /\ Len(b \o f) = Len(b) + Len(f)
        /\ Len(b) \in Nat /\ Len(f) \in Nat
        /\ \A j \in 1 .. Len(b) : (b \o f)[j] = b[j]
        /\ \A j \in 1 .. Len(f) : (b \o f)[Len(b) + j] = f[j]
    BY <2>2, Joined
  <2> QED BY <2>1, <2>3, Zenon
<1> DEFINE q == Len(b)
           at == [i \in 1 .. N + 1 |-> q + g[i]]
<1>9. /\ g \in [1 .. N + 1 -> Nat] /\ g[1] = 0
      /\ \A i \in 1 .. N : g[i + 1] = g[i] + Len(ws[i]) /\ g[i + 1] <= Len(f)
      /\ \A i \in 1 .. N : \A j \in 1 .. Len(ws[i]) : f[g[i] + j] = ws[i][j]
  BY <1>6 DEF Layout
<1>10. /\ at \in [1 .. N + 1 -> Nat] /\ at[1] = q
       /\ \A i \in 1 .. N + 1 : at[i] = q + g[i] /\ at[i] <= Len(m.bytes)
  <2>1. \A i \in 1 .. N + 1 : g[i] \in Nat /\ g[i] <= Len(f)
    <3> TAKE i \in 1 .. N + 1
    <3>1. g[i] \in Nat
      BY <1>9
    <3>2. CASE i = 1
      BY <1>8, <1>9, <3>2
    <3>3. CASE i # 1
      <4>1. i - 1 \in 1 .. N /\ i - 1 + 1 = i
        BY <1>2, <3>3
      <4>2. g[i - 1 + 1] <= Len(f)
        BY <1>9, <4>1
      <4> QED BY <3>1, <4>1, <4>2
    <3> QED BY <3>2, <3>3
  <2>2. q \in Nat /\ Len(m.bytes) = q + Len(f) /\ Len(f) \in Nat
    BY <1>8
  <2>3. 1 \in 1 .. N + 1 /\ q + 0 = q
    BY <1>2, <2>2
  <2> HIDE DEF q
  <2>4. \A i \in 1 .. N + 1 : q + g[i] \in Nat /\ q + g[i] <= Len(m.bytes)
    BY <2>1, <2>2
  <2> QED BY <1>9, <2>3, <2>4
<1>11. NameAt(m.bytes, 0, d, off)
  <2>1. \A k \in 1 .. Len(d) + 1 : off[k] \in 0 .. off[Len(d) + 1]
    BY <1>1, OffsetsBound DEF Begins
  <2>2. \A k \in 1 .. Len(d) + 1 : off[k] + 1 \in 1 .. Len(b) /\ 0 + off[k] + 1 = off[k] + 1
    <3> TAKE k \in 1 .. Len(d) + 1
    <3> DEFINE x == off[k]
               e == off[Len(d) + 1]
    <3>1. x \in 0 .. e /\ e \in Nat /\ Len(b) = e + 5
      BY <1>7, <2>1
    <3> HIDE DEF x, e, b
    <3>2. x + 1 \in 1 .. Len(b) /\ 0 + x + 1 = x + 1
      BY <3>1
    <3> QED BY <3>2 DEF x
  <2>3. \A k \in 1 .. Len(d) + 1 : m.bytes[0 + off[k] + 1] = b[off[k] + 1]
    BY <1>8, <2>2
  <2>4. Len(d) + 1 \in 1 .. Len(d) + 1 /\ \A k \in 1 .. Len(d) : k \in 1 .. Len(d) + 1
    OBVIOUS
  <2> QED BY <1>1, <2>3, <2>4 DEF NameAt, Begins
<1>12. q \in Nat
  BY <1>8
<1> HIDE DEF q, at
<1>13. ASSUME NEW i \in 1 .. N
       PROVE  /\ RecordAt(m.bytes, at[i], at[i] + OwnerLen(rrs[i], d, off), rrs[i], d, off)
              /\ at[i + 1] = at[i] + OwnerLen(rrs[i], d, off) + 10 + Len(rrs[i].rdata)
  <2> DEFINE o == OwnerLen(rrs[i], d, off)
             n == Len(rrs[i].rdata)
             w == ws[i]
             a == at[i]
             x == g[i]
  <2>1. /\ o \in Nat /\ n \in Nat /\ Len(w) = o + 10 + n /\ RecordAt(w, 0, o, rrs[i], d, off)
    BY <1>3
  <2>2. a = q + x /\ a \in Nat /\ x \in Nat /\ q \in Nat
    <3>1. i \in 1 .. N + 1
      BY <1>2
    <3> HIDE DEF N, b
    <3> QED BY <1>12, <1>9, <1>10, <3>1
  <2>3. at[i + 1] = q + g[i + 1] /\ g[i + 1] = x + Len(w) /\ g[i + 1] <= Len(f)
    <3>1. i + 1 \in 1 .. N + 1
      BY <1>2
    <3> HIDE DEF N
    <3> QED BY <1>9, <1>10, <3>1, Zenon
  <2>4. \A j \in 1 .. Len(w) : f[x + j] = w[j]
    BY <1>9
  <2>5. Len(f) \in Nat /\ \A j \in 1 .. Len(f) : m.bytes[q + j] = f[j]
    BY <1>8 DEF q
  <2> HIDE DEF o, n, w, a, x
  <2>6. ASSUME NEW j \in 1 .. o + 10 + n PROVE m.bytes[a + j] = w[j]
    <3>1. x + j \in 1 .. Len(f) /\ q + (x + j) = a + j /\ j \in 1 .. Len(w)
      BY <2>1, <2>2, <2>3, <2>5
    <3>2. m.bytes[q + (x + j)] = f[x + j] /\ f[x + j] = w[j]
      BY <2>4, <2>5, <3>1
    <3> QED BY <3>1, <3>2
  <2>7. at[i + 1] = a + o + 10 + n
    BY <2>1, <2>2, <2>3
  <2>8. RecordAt(m.bytes, a, a + o, rrs[i], d, off)
    <3>1. Offsets(off, d) /\ rrs[i] \in RR /\ a \in Nat /\ o \in Nat
      BY <1>1, <1>2, <2>1, <2>2 DEF Begins
    <3>2. o = OwnerLen(rrs[i], d, off) /\ \A j \in 1 .. o + 10 + Len(rrs[i].rdata) : m.bytes[a + j] = w[j]
      BY <2>6 DEF n, o
    <3> QED BY <2>1, <3>1, <3>2, RecordShifted
  <2> QED BY <2>7, <2>8 DEF o, n, a
<1>14. Sections(m, d, off, at)
  <2>1. m.bytes \in Seq(Nat)
    BY <1>8
  <2>2. at[1] = off[Len(d) + 1] + 5
    BY <1>7, <1>10 DEF q
  <2>3. Offsets(off, d)
    BY <1>1 DEF Begins
  <2> QED BY <1>10, <1>11, <1>13, <2>1, <2>2, <2>3 DEF Sections
<1> QED BY <1>14

-----------------------------------------------------------------------------
(* The walk over a response.                                               *)

IsA(r) == r.type = DNS_TYPE_A /\ Len(r.rdata) = 4

\* cnt[i] addresses precede record i of rrs.
Counts(cnt, rrs) ==
  LET adr == Addresses(rrs)
  IN /\ adr \in Seq(Seq(Nat)) /\ cnt \in [1 .. Len(rrs) + 1 -> Nat]
     /\ cnt[1] = 0 /\ cnt[Len(rrs) + 1] = Len(adr)
     /\ \A i \in 1 .. Len(rrs) + 1 : cnt[i] <= Len(adr)
     /\ \A i \in 1 .. Len(rrs) :
          /\ IsA(rrs[i]) => cnt[i + 1] = cnt[i] + 1 /\ adr[cnt[i] + 1] = rrs[i].rdata
          /\ ~ IsA(rrs[i]) => cnt[i + 1] = cnt[i]

(* The addresses of any records can be counted.                            *)
LEMMA CountsExist ==
  ASSUME NEW rrs \in Seq(RR)
  PROVE  \E cnt : Counts(cnt, rrs)
<1> DEFINE ss == [k \in DOMAIN rrs |-> IF IsA(rrs[k]) THEN <<rrs[k].rdata>> ELSE <<>>]
           N == Len(rrs)
           adr == Addresses(rrs)
<1>1. N \in Nat /\ DOMAIN rrs = 1 .. N /\ \A i \in 1 .. N : rrs[i].rdata \in Seq(Nat)
  <2>1. N \in Nat /\ DOMAIN rrs = 1 .. N /\ \A i \in 1 .. N : rrs[i] \in RR
    OBVIOUS
  <2> QED BY <2>1 DEF RR
<1>2. adr = FlattenSeq(ss)
  BY DEF Addresses, IsA
<1>3. \A i \in 1 .. N : ss[i] = IF IsA(rrs[i]) THEN <<rrs[i].rdata>> ELSE <<>>
  BY <1>1
<1>4. \A i \in 1 .. N : /\ ss[i] \in Seq(Seq(Nat))
                        /\ IsA(rrs[i]) => Len(ss[i]) = 1 /\ ss[i][1] = rrs[i].rdata
                        /\ ~ IsA(rrs[i]) => Len(ss[i]) = 0
  BY <1>1, <1>3
<1>5. ss \in Seq(Seq(Seq(Nat))) /\ Len(ss) = N
  BY <1>1, <1>4
<1> HIDE DEF ss
<1>6. adr \in Seq(Seq(Nat)) /\ \E cnt : Layout(adr, ss, cnt, N)
  BY <1>2, <1>5, FlattenLayout
<1>7. PICK cnt : Layout(adr, ss, cnt, N)
  BY <1>6
<1> HIDE DEF adr, N
<1>8. /\ cnt \in [1 .. N + 1 -> Nat] /\ cnt[1] = 0 /\ cnt[N + 1] = Len(adr)
      /\ \A i \in 1 .. N :
           /\ cnt[i + 1] = cnt[i] + Len(ss[i]) /\ cnt[i + 1] <= Len(adr)
           /\ \A j \in 1 .. Len(ss[i]) : adr[cnt[i] + j] = ss[i][j]
  BY <1>7 DEF Layout
<1>9. Len(adr) \in Nat
  <2>1. adr \in Seq(Seq(Nat))
    BY <1>6
  <2> QED BY <2>1
<1>10. ASSUME NEW i \in 1 .. N + 1 PROVE cnt[i] <= Len(adr)
  <2>1. CASE i = 1
    <3>1. cnt[1] = 0
      BY <1>8
    <3> QED BY <1>9, <2>1, <3>1
  <2>2. CASE i # 1
    <3>1. i - 1 \in 1 .. N /\ i - 1 + 1 = i
      BY <1>1, <2>2
    <3> QED BY <1>8, <3>1
  <2> QED BY <2>1, <2>2
<1>11. ASSUME NEW i \in 1 .. N
       PROVE  /\ IsA(rrs[i]) => cnt[i + 1] = cnt[i] + 1 /\ adr[cnt[i] + 1] = rrs[i].rdata
              /\ ~ IsA(rrs[i]) => cnt[i + 1] = cnt[i]
  <2>1. cnt[i] \in Nat
    BY <1>1, <1>8
  <2>2. CASE IsA(rrs[i])
    <3>1. Len(ss[i]) = 1 /\ ss[i][1] = rrs[i].rdata /\ 1 \in 1 .. Len(ss[i])
      BY <1>4, <2>2
    <3> QED BY <1>8, <2>2, <3>1
  <2>3. CASE ~ IsA(rrs[i])
    <3>1. Len(ss[i]) = 0
      BY <1>4, <2>3
    <3>2. cnt[i + 1] = cnt[i] + Len(ss[i])
      BY <1>8
    <3> QED BY <2>1, <2>3, <3>1, <3>2
  <2> QED BY <2>2, <2>3
<1>12. Counts(cnt, rrs)
  BY <1>6, <1>8, <1>10, <1>11 DEF Counts, N, adr
<1> QED BY <1>12

\* The first n addresses of rrs are in out.
Outputs(out, rrs, n) ==
  /\ out \in Seq(Seq(Nat)) /\ Len(out) = n
  /\ \A j \in 1 .. n : out[j] = Addresses(rrs)[j]

(* What is printed is the beginning of what is to be printed, ...          *)
LEMMA OutputsPrefix ==
  ASSUME NEW rrs, NEW cnt, Counts(cnt, rrs), NEW out, NEW n \in Nat, n <= Len(Addresses(rrs)),
         Outputs(out, rrs, n)
  PROVE  IsPrefix(out, Addresses(rrs)) /\ (n = Len(Addresses(rrs)) => out = Addresses(rrs))
<1> DEFINE adr == Addresses(rrs)
<1>1. /\ adr \in Seq(Seq(Nat)) /\ Len(adr) \in Nat /\ out \in Seq(Seq(Nat)) /\ Len(out) = n
      /\ n <= Len(adr) /\ \A j \in 1 .. n : out[j] = adr[j]
  BY DEF Counts, Outputs
<1> HIDE DEF adr
<1>2. SubSeq(out, 1, n) \in Seq(Seq(Nat)) /\ Len(SubSeq(out, 1, n)) = n
      /\ \A j \in 1 .. n : SubSeq(out, 1, n)[j] = out[j]
  BY <1>1
<1>3. SubSeq(adr, 1, n) \in Seq(Seq(Nat)) /\ Len(SubSeq(adr, 1, n)) = n
      /\ \A j \in 1 .. n : SubSeq(adr, 1, n)[j] = adr[j]
  <2>1. adr \in Seq(Seq(Nat)) /\ n \in Nat /\ n <= Len(adr)
    BY <1>1
  <2> QED BY <2>1
<1>4. SubSeq(out, 1, n) = SubSeq(adr, 1, n)
  <2> DEFINE u == SubSeq(out, 1, n)
             v == SubSeq(adr, 1, n)
  <2>1. u \in Seq(Seq(Nat)) /\ v \in Seq(Seq(Nat)) /\ Len(u) = Len(v) /\ \A j \in 1 .. Len(u) : u[j] = v[j]
    BY <1>1, <1>2, <1>3
  <2> HIDE DEF u, v
  <2>2. u = v
    BY <2>1, SeqEqual
  <2> QED BY <2>2 DEF u, v
<1>5. n = Len(adr) => out = adr
  BY <1>1, SeqEqual
<1>6. IsPrefix(out, adr)
  BY <1>1, <1>4 DEF IsPrefix
<1> QED BY <1>5, <1>6 DEF adr

\* Position x is that of a label of the name d that begins at f, or of its end.
InName(x, f, d, off) == \E k \in 1 .. Len(d) + 1 : x = f + off[k]

(* Inside a name a length byte leads to the next label, and the last of    *)
(* them to the root.                                                       *)
LEMMA NameStep ==
  ASSUME NEW b, NEW f \in Nat, NEW d \in Seq(Nat), \A k \in 1 .. Len(d) : d[k] \in 1 .. 191,
         NEW off, Offsets(off, d), NameAt(b, f, d, off), NEW x, InName(x, Header + f, d, off)
  PROVE  /\ x \in Nat /\ Header <= x /\ x <= Header + f + off[Len(d) + 1]
         /\ \/ b[x - Header + 1] = 0 /\ x = Header + f + off[Len(d) + 1]
            \/ /\ b[x - Header + 1] \in 1 .. 191
               /\ InName(x + 1 + b[x - Header + 1], Header + f, d, off)
<1> DEFINE N == Len(d)
           e == off[N + 1]
<1>1. PICK k \in 1 .. N + 1 : x = Header + f + off[k]
  BY DEF InName
<1> DEFINE y == off[k]
<1>2. N \in Nat /\ y \in 0 .. e /\ e \in Nat
  BY OffsetsBound
<1>3. x = Header + f + y /\ Header = 12
  BY <1>1 DEF Header
<1>4. /\ \A i \in 1 .. N : b[f + off[i] + 1] = d[i]
      /\ b[f + e + 1] = 0
      /\ \A i \in 1 .. N : off[i + 1] = off[i] + 1 + d[i]
  BY DEF NameAt, Offsets
<1> HIDE DEF y, e
<1>5. x \in Nat /\ Header <= x /\ x <= Header + f + e /\ x - Header + 1 = f + y + 1
  BY <1>2, <1>3
<1>6. CASE k = N + 1
  <2>1. y = e
    BY <1>6 DEF y, e
  <2> QED BY <1>3, <1>4, <1>5, <2>1 DEF e
<1>7. CASE k # N + 1
  <2>1. k \in 1 .. N /\ k + 1 \in 1 .. N + 1
    BY <1>2, <1>7
  <2>2. b[x - Header + 1] = d[k] /\ d[k] \in 1 .. 191
    BY <1>4, <1>5, <2>1 DEF y
  <2>3. off[k + 1] = y + 1 + d[k]
    BY <1>4, <2>1 DEF y
  <2> DEFINE v == b[x - Header + 1]
             z == off[k + 1]
  <2>4. z = y + 1 + v /\ v \in 1 .. 191
    BY <2>2, <2>3
  <2> HIDE DEF v, z
  <2>5. x + 1 + v = Header + f + z
    BY <1>2, <1>3, <2>4
  <2>6. InName(x + 1 + v, Header + f, d, off)
    BY <2>1, <2>5 DEF InName, z
  <2> QED BY <1>5, <2>4, <2>6 DEF v, e
<1> QED BY <1>6, <1>7

(* A name is entered at its first label.                                   *)
LEMMA NameStart ==
  ASSUME NEW f \in Nat, NEW d \in Seq(Nat), NEW off, Offsets(off, d)
  PROVE  InName(Header + f, Header + f, d, off)
<1>1. off[1] = 0 /\ 1 \in 1 .. Len(d) + 1 /\ Header + f = Header + f + 0
  BY DEF Offsets, Header
<1> QED BY <1>1 DEF InName

\* Where the walk is that has passed i of the records of m.
AtOwner(m, x, i, d, off, at) ==
  /\ i \in Nat /\ i < Len(m.rrs)
  /\ IF m.rrs[i + 1].ptr THEN x = Header + at[i + 1]
     ELSE InName(x, Header + at[i + 1], d, off)

AtRecord(m, x, i, d, off, at) ==
  /\ i \in Nat /\ i < Len(m.rrs)
  /\ x = Header + at[i + 1] + OwnerLen(m.rrs[i + 1], d, off)

(* What Sections says of one record.                                       *)
LEMMA SectionsRecord ==
  ASSUME NEW m, NEW d, NEW off, NEW at, Sections(m, d, off, at),
         NEW i \in Nat, i < Len(m.rrs)
  PROVE  LET r == m.rrs[i + 1]
             o == OwnerLen(r, d, off)
         IN /\ r \in RR /\ r.ptr \in BOOLEAN /\ r.rdata \in Seq(Nat) /\ Len(r.rdata) \in Nat
            /\ at[i + 1] \in Nat /\ at[i + 1] <= Len(m.bytes)
            /\ at[i + 2] \in Nat /\ at[i + 2] <= Len(m.bytes) /\ o \in Nat
            /\ RecordAt(m.bytes, at[i + 1], at[i + 1] + o, r, d, off)
            /\ at[i + 2] = at[i + 1] + o + 10 + Len(r.rdata)
<1> DEFINE N == Len(m.rrs)
           r == m.rrs[i + 1]
<1>1. N \in Nat /\ m.rrs \in Seq(RR)
  BY DEF Sections
<1>2. i + 1 \in 1 .. N /\ i + 1 \in 1 .. N + 1 /\ i + 2 \in 1 .. N + 1 /\ i + 1 + 1 = i + 2
  BY <1>1
<1>3. r \in RR
  BY <1>1, <1>2
<1> HIDE DEF r
<1>4. r.ptr \in BOOLEAN /\ r.rdata \in Seq(Nat) /\ Len(r.rdata) \in Nat
  BY <1>3 DEF RR
<1>5. at[i + 1] \in Nat /\ at[i + 1] <= Len(m.bytes) /\ at[i + 2] \in Nat /\ at[i + 2] <= Len(m.bytes)
  BY <1>2 DEF Sections
<1>6. /\ RecordAt(m.bytes, at[i + 1], at[i + 1] + OwnerLen(r, d, off), r, d, off)
      /\ at[i + 2] = at[i + 1] + OwnerLen(r, d, off) + 10 + Len(r.rdata)
  BY <1>2 DEF Sections, r
<1>7. OwnerLen(r, d, off) \in Nat
  <2>1. d \in Seq(Nat) /\ Offsets(off, d) /\ Len(d) + 1 \in 1 .. Len(d) + 1
    BY DEF Sections
  <2>2. off[Len(d) + 1] \in Nat
    BY <2>1, OffsetsBound
  <2> QED BY <2>2 DEF OwnerLen
<1> QED BY <1>3, <1>4, <1>5, <1>6, <1>7 DEF r

(* A round of the loop of skip_name on the question.                       *)
LEMMA QuestionStep ==
  ASSUME NEW m, NEW d, NEW off, NEW at, Sections(m, d, off, at),
         NEW x, InName(x, Header + 0, d, off)
  PROVE  LET v == m.bytes[x - Header + 1]
         IN /\ x \in Nat /\ Header <= x /\ x < m.len
            /\ \/ v \in 1 .. 191 /\ InName(x + 1 + v, Header + 0, d, off)
               \/ /\ v = 0
                  /\ 0 < Len(m.rrs) => AtOwner(m, x + 1 + 4, 0, d, off, at)
<1> DEFINE e == off[Len(d) + 1]
           v == m.bytes[x - Header + 1]
<1>1. /\ d \in Seq(Nat) /\ (\A k \in 1 .. Len(d) : d[k] \in 1 .. 191) /\ Offsets(off, d)
      /\ NameAt(m.bytes, 0, d, off)
  BY DEF Sections
<1>2. /\ x \in Nat /\ Header <= x /\ x <= Header + 0 + e
      /\ \/ v = 0 /\ x = Header + 0 + e
         \/ v \in 1 .. 191 /\ InName(x + 1 + v, Header + 0, d, off)
  BY <1>1, NameStep
<1>3. /\ at[1] = e + 5 /\ at[1] <= Len(m.bytes) /\ Len(m.bytes) \in Nat
      /\ m.len = Header + Len(m.bytes) /\ Len(m.rrs) \in Nat
  BY DEF Sections
<1>4. e \in Nat
  BY <1>1, OffsetsBound
<1> HIDE DEF e, v
<1>5. x < m.len
  BY <1>2, <1>3, <1>4 DEF Header
<1>6. ASSUME v = 0, 0 < Len(m.rrs), x = Header + 0 + e PROVE AtOwner(m, x + 1 + 4, 0, d, off, at)
  <2>1. x + 1 + 4 = Header + at[1] /\ 0 + 1 = 1 /\ at[1] \in Nat
    BY <1>3, <1>4, <1>6 DEF Header
  <2>2. InName(Header + at[1], Header + at[1], d, off)
    BY <1>1, <2>1, NameStart
  <2> QED BY <1>6, <2>1, <2>2 DEF AtOwner
<1>7. \/ v \in 1 .. 191 /\ InName(x + 1 + v, Header + 0, d, off)
      \/ v = 0 /\ (0 < Len(m.rrs) => AtOwner(m, x + 1 + 4, 0, d, off, at))
  BY <1>2, <1>6
<1> QED BY <1>2, <1>5, <1>7 DEF v

(* A round of the loop of skip_name on the owner of a record.              *)
LEMMA OwnerStep ==
  ASSUME NEW m, NEW d, NEW off, NEW at, Sections(m, d, off, at),
         NEW x, NEW i, AtOwner(m, x, i, d, off, at)
  PROVE  LET v == m.bytes[x - Header + 1]
         IN /\ x \in Nat /\ Header <= x /\ x < m.len
            /\ \/ v \in 1 .. 191 /\ AtOwner(m, x + 1 + v, i, d, off, at)
               \/ v = 0 /\ AtRecord(m, x + 1, i, d, off, at)
               \/ v = 192 /\ AtRecord(m, x + 2, i, d, off, at)
<1> DEFINE v == m.bytes[x - Header + 1]
           r == m.rrs[i + 1]
           a == at[i + 1]
           o == OwnerLen(r, d, off)
           n == Len(r.rdata)
           e == off[Len(d) + 1]
<1>1. i \in Nat /\ i < Len(m.rrs)
  BY DEF AtOwner
<1>2. /\ a \in Nat /\ o \in Nat /\ n \in Nat /\ RecordAt(m.bytes, a, a + o, r, d, off)
      /\ a + o + 10 + n <= Len(m.bytes) /\ r.ptr \in BOOLEAN
  BY <1>1, SectionsRecord
<1>3. Len(m.bytes) \in Nat /\ m.len = Header + Len(m.bytes) /\ Header = 12
  BY DEF Sections, Header
<1>4. CASE r.ptr
  <2>1. x = Header + a /\ o = 2 /\ m.bytes[a + 1] = 192
    BY <1>2, <1>4 DEF AtOwner, OwnerLen, RecordAt
  <2> HIDE DEF v, a, o, n
  <2>2. x \in Nat /\ Header <= x /\ x < m.len /\ x - Header + 1 = a + 1 /\ x + 2 = Header + a + o
    BY <1>2, <1>3, <2>1
  <2>3. AtRecord(m, x + 2, i, d, off, at)
    BY <1>1, <2>2 DEF AtRecord, a, o
  <2> QED BY <2>1, <2>2, <2>3 DEF v
<1>5. CASE ~ r.ptr
  <2>1. /\ d \in Seq(Nat) /\ (\A k \in 1 .. Len(d) : d[k] \in 1 .. 191) /\ Offsets(off, d)
        /\ NameAt(m.bytes, a, d, off) /\ InName(x, Header + a, d, off) /\ o = e + 1
    BY <1>2, <1>5 DEF AtOwner, Sections, RecordAt, OwnerLen
  <2>2. /\ x \in Nat /\ Header <= x /\ x <= Header + a + e
        /\ \/ v = 0 /\ x = Header + a + e
           \/ v \in 1 .. 191 /\ InName(x + 1 + v, Header + a, d, off)
    <3>1. a \in Nat
      BY <1>2
    <3> HIDE DEF v, a, e
    <3> QED BY <2>1, <3>1, NameStep DEF v, e
  <2>3. e \in Nat
    BY <2>1, OffsetsBound
  <2> HIDE DEF v, a, o, n, e
  <2>4. x < m.len
    BY <1>2, <1>3, <2>1, <2>2, <2>3
  <2>5. ASSUME x = Header + a + e PROVE AtRecord(m, x + 1, i, d, off, at)
    <3>1. x + 1 = Header + a + o
      BY <1>2, <1>3, <2>1, <2>3, <2>5
    <3> QED BY <1>1, <3>1 DEF AtRecord, a, o
  <2>6. ASSUME InName(x + 1 + v, Header + a, d, off) PROVE AtOwner(m, x + 1 + v, i, d, off, at)
    BY <1>1, <1>5, <2>6 DEF AtOwner, a
  <2> QED BY <2>2, <2>4, <2>5, <2>6 DEF v
<1> QED BY <1>2, <1>4, <1>5

(* The rest of a record lies within the message, is what was put there,    *)
(* and is followed by the next record.                                     *)
LEMMA RecordStep ==
  ASSUME NEW m, NEW d, NEW off, NEW at, Sections(m, d, off, at),
         NEW x, NEW i, AtRecord(m, x, i, d, off, at)
  PROVE  LET r == m.rrs[i + 1]
             b == m.bytes
             n == Len(r.rdata)
         IN /\ x \in Nat /\ Header <= x /\ r.rdata \in Seq(Nat) /\ n \in Nat
            /\ x + 10 + n <= m.len
            /\ 256 * b[x - Header + 1] + b[(x + 1) - Header + 1] = r.type
            /\ 256 * b[(x + 8) - Header + 1] + b[(x + 8 + 1) - Header + 1] = n
            /\ \A j \in 1 .. n : b[(x + 10 + j - 1) - Header + 1] = r.rdata[j]
            /\ i + 1 < Len(m.rrs) => AtOwner(m, x + 10 + n, i + 1, d, off, at)
<1> DEFINE r == m.rrs[i + 1]
           b == m.bytes
           a == at[i + 1]
           o == OwnerLen(r, d, off)
           n == Len(r.rdata)
           s == a + o
<1>1. i \in Nat /\ i < Len(m.rrs) /\ x = Header + a + o
  BY DEF AtRecord
<1>2. /\ a \in Nat /\ o \in Nat /\ n \in Nat /\ r.rdata \in Seq(Nat)
      /\ RecordAt(b, a, s, r, d, off)
      /\ at[i + 2] = a + o + 10 + n /\ at[i + 2] <= Len(b)
  <2>1. i \in Nat /\ i < Len(m.rrs)
    BY <1>1
  <2>2. a \in Nat /\ o \in Nat /\ n \in Nat /\ r.rdata \in Seq(Nat) /\ at[i + 2] <= Len(b)
    BY <2>1, SectionsRecord
  <2>3. RecordAt(b, a, s, r, d, off) /\ at[i + 2] = a + o + 10 + n
    BY <2>1, SectionsRecord
  <2> QED BY <2>2, <2>3
<1>3. Len(b) \in Nat /\ m.len = Header + Len(b) /\ Header = 12
  BY DEF Sections, Header
<1>4. /\ 256 * b[s + 1] + b[s + 2] = r.type
      /\ 256 * b[s + 9] + b[s + 10] = n
      /\ \A j \in 1 .. n : b[s + 10 + j] = r.rdata[j]
  BY <1>2 DEF RecordAt, FieldsAt
<1>5. i + 1 < Len(m.rrs) => AtOwner(m, Header + at[i + 2], i + 1, d, off, at)
  <2> SUFFICES ASSUME i + 1 < Len(m.rrs) PROVE AtOwner(m, Header + at[i + 2], i + 1, d, off, at)
    OBVIOUS
  <2>1. i + 1 \in Nat /\ i + 1 + 1 = i + 2
    BY <1>1
  <2>2. d \in Seq(Nat) /\ Offsets(off, d)
    BY DEF Sections
  <2>3. at[i + 2] \in Nat
    BY <1>1, SectionsRecord
  <2>4. InName(Header + at[i + 2], Header + at[i + 2], d, off)
    BY <2>2, <2>3, NameStart
  <2> QED BY <2>1, <2>4 DEF AtOwner
<1> HIDE DEF a, o, n, b, r
<1>6. s \in Nat /\ x = Header + s /\ Header + at[i + 2] = x + 10 + n
  BY <1>1, <1>2, <1>3
<1> HIDE DEF s
<1>7. /\ x \in Nat /\ Header <= x /\ x + 10 + n <= m.len
      /\ x - Header + 1 = s + 1 /\ (x + 1) - Header + 1 = s + 2
      /\ (x + 8) - Header + 1 = s + 9 /\ (x + 8 + 1) - Header + 1 = s + 10
      /\ \A j \in 1 .. n : (x + 10 + j - 1) - Header + 1 = s + 10 + j
  BY <1>1, <1>2, <1>3, <1>6
<1>8. \A j \in 1 .. n : b[(x + 10 + j - 1) - Header + 1] = r.rdata[j]
  BY <1>4, <1>7
<1>9. /\ 256 * b[x - Header + 1] + b[(x + 1) - Header + 1] = r.type
      /\ 256 * b[(x + 8) - Header + 1] + b[(x + 8 + 1) - Header + 1] = n
  BY <1>4, <1>7
<1>10. i + 1 < Len(m.rrs) => AtOwner(m, x + 10 + n, i + 1, d, off, at)
  BY <1>5, <1>6
<1> QED BY <1>2, <1>7, <1>8, <1>9, <1>10 DEF b, r, n

(* One more record has been printed, if it is an address, and passed.      *)
LEMMA OutputsStep ==
  ASSUME NEW rrs \in Seq(RR), NEW cnt, Counts(cnt, rrs), NEW i \in Nat, i < Len(rrs),
         NEW out, Outputs(out, rrs, cnt[i + 1])
  PROVE  /\ ~ IsA(rrs[i + 1]) => Outputs(out, rrs, cnt[i + 2])
         /\ IsA(rrs[i + 1]) => Outputs(Append(out, rrs[i + 1].rdata), rrs, cnt[i + 2])
<1> DEFINE adr == Addresses(rrs)
           n == cnt[i + 1]
           y == rrs[i + 1].rdata
<1>1. i + 1 \in 1 .. Len(rrs) /\ i + 1 + 1 = i + 2 /\ i + 1 \in 1 .. Len(rrs) + 1
  OBVIOUS
<1>2. n \in Nat /\ (IsA(rrs[i + 1]) => cnt[i + 2] = n + 1 /\ adr[n + 1] = y)
      /\ (~ IsA(rrs[i + 1]) => cnt[i + 2] = n)
  BY <1>1 DEF Counts
<1>3. y \in Seq(Nat)
  <2>1. rrs[i + 1] \in RR
    BY <1>1
  <2> QED BY <2>1 DEF RR
<1>4. out \in Seq(Seq(Nat)) /\ Len(out) = n /\ \A j \in 1 .. n : out[j] = adr[j]
  BY DEF Outputs
<1> HIDE DEF adr, n, y
<1>5. ASSUME IsA(rrs[i + 1]) PROVE Outputs(Append(out, y), rrs, n + 1)
  <2>1. /\ Append(out, y) \in Seq(Seq(Nat)) /\ Len(Append(out, y)) = n + 1
        /\ Append(out, y)[n + 1] = y /\ \A j \in 1 .. n : Append(out, y)[j] = out[j]
    BY <1>2, <1>3, <1>4
  <2>2. ASSUME NEW j \in 1 .. n + 1 PROVE Append(out, y)[j] = adr[j]
    <3>1. CASE j = n + 1
      BY <1>2, <1>5, <2>1, <3>1
    <3>2. CASE j # n + 1
      <4>1. j \in 1 .. n
        BY <1>2, <3>2
      <4> QED BY <1>4, <2>1, <4>1
    <3> QED BY <3>1, <3>2
  <2> QED BY <2>1, <2>2 DEF Outputs, adr
<1>6. ~ IsA(rrs[i + 1]) => Outputs(out, rrs, cnt[i + 2])
  BY <1>2 DEF n
<1> QED BY <1>2, <1>5, <1>6 DEF y

\* The walk over m has come to x and passed i records, and out is printed.
Walks(place, m, x, i, out) ==
  \E d, off, at, cnt :
    /\ Sections(m, d, off, at) /\ Counts(cnt, m.rrs)
    /\ i \in Nat /\ Outputs(out, m.rrs, cnt[i + 1])
    /\ \/ place = "question" /\ i = 0 /\ InName(x, Header + 0, d, off)
       \/ place = "owner" /\ AtOwner(m, x, i, d, off, at)
       \/ place = "record" /\ AtRecord(m, x, i, d, off, at)

(* After as many records as there are the whole answer is printed.         *)
LEMMA AllPassed ==
  ASSUME NEW rrs \in Seq(RR), NEW cnt, Counts(cnt, rrs), NEW i \in Nat,
         i <= Len(rrs), NEW out, Outputs(out, rrs, cnt[i + 1])
  PROVE  /\ IsPrefix(out, Addresses(rrs))
         /\ i = Len(rrs) => out = Addresses(rrs)
<1> DEFINE n == cnt[i + 1]
<1>1. i + 1 \in 1 .. Len(rrs) + 1
  OBVIOUS
<1>2. n \in Nat /\ n <= Len(Addresses(rrs)) /\ (i = Len(rrs) => n = Len(Addresses(rrs)))
  BY <1>1 DEF Counts
<1> HIDE DEF n
<1>3. Outputs(out, rrs, n)
  BY DEF n
<1> QED BY <1>2, <1>3, OutputsPrefix

(* The walk begins after the header.                                       *)
LEMMA WalkBegins ==
  ASSUME NEW m, NEW d, NEW off, NEW at, Sections(m, d, off, at)
  PROVE  Walks("question", m, Header, 0, <<>>)
<1>1. m.rrs \in Seq(RR) /\ d \in Seq(Nat) /\ Offsets(off, d) /\ Header = Header + 0
  BY DEF Sections, Header
<1>2. PICK cnt : Counts(cnt, m.rrs)
  BY <1>1, CountsExist
<1>3. cnt[0 + 1] = 0
  BY <1>2 DEF Counts
<1>4. Outputs(<<>>, m.rrs, 0)
  BY DEF Outputs
<1>5. InName(Header, Header + 0, d, off)
  BY <1>1, NameStart
<1> QED BY <1>2, <1>3, <1>4, <1>5 DEF Walks

(* The length of a response is a number.                                   *)
LEMMA LenIsNat ==
  ASSUME NEW m, NEW d, NEW off, NEW at, Sections(m, d, off, at)
  PROVE  m.len \in Nat
BY DEF Sections, Header

(* skip_name on the question stays in the message and ends before the      *)
(* first record.                                                           *)
LEMMA WalkQuestion ==
  ASSUME NEW m, NEW x, NEW i, NEW out, Walks("question", m, x, i, out)
  PROVE  LET v == m.bytes[x - Header + 1]
         IN /\ x \in Nat /\ m.len \in Nat /\ x < m.len
            /\ \/ v \in 1 .. 191 /\ Walks("question", m, x + 1 + v, i, out)
               \/ /\ v = 0 /\ IsPrefix(out, Addresses(m.rrs))
                  /\ IF 0 < m.ancount THEN Walks("owner", m, x + 1 + 4, i, out)
                     ELSE out = Addresses(m.rrs)
<1> DEFINE v == m.bytes[x - Header + 1]
<1>1. PICK d, off, at, cnt :
        /\ Sections(m, d, off, at) /\ Counts(cnt, m.rrs) /\ i = 0
        /\ Outputs(out, m.rrs, cnt[i + 1]) /\ InName(x, Header + 0, d, off)
  BY DEF Walks
<1>2. m.rrs \in Seq(RR) /\ m.ancount = Len(m.rrs) /\ Len(m.rrs) \in Nat
  BY <1>1 DEF Sections
<1>3. /\ x \in Nat /\ m.len \in Nat /\ x < m.len
      /\ \/ v \in 1 .. 191 /\ InName(x + 1 + v, Header + 0, d, off)
         \/ v = 0 /\ (0 < Len(m.rrs) => AtOwner(m, x + 1 + 4, 0, d, off, at))
  BY <1>1, QuestionStep, LenIsNat
<1>4. IsPrefix(out, Addresses(m.rrs)) /\ (0 = Len(m.rrs) => out = Addresses(m.rrs))
  <2>1. 0 <= Len(m.rrs) /\ Outputs(out, m.rrs, cnt[0 + 1])
    BY <1>1, <1>2
  <2> QED BY <1>1, <1>2, <2>1, AllPassed
<1> HIDE DEF v
<1>5. ASSUME InName(x + 1 + v, Header + 0, d, off) PROVE Walks("question", m, x + 1 + v, i, out)
  BY <1>1, <1>5 DEF Walks
<1>6. ASSUME AtOwner(m, x + 1 + 4, 0, d, off, at) PROVE Walks("owner", m, x + 1 + 4, i, out)
  BY <1>1, <1>6 DEF Walks
<1> QED BY <1>2, <1>3, <1>4, <1>5, <1>6 DEF v

(* skip_name on an owner stays in the message and ends before the fields   *)
(* of the record.                                                          *)
LEMMA WalkOwner ==
  ASSUME NEW m, NEW x, NEW i, NEW out, Walks("owner", m, x, i, out)
  PROVE  LET v == m.bytes[x - Header + 1]
         IN /\ x \in Nat /\ m.len \in Nat /\ x < m.len
            /\ \/ v \in 1 .. 191 /\ Walks("owner", m, x + 1 + v, i, out)
               \/ v = 0 /\ Walks("record", m, x + 1, i, out)
               \/ v = 192 /\ Walks("record", m, x + 2, i, out)
<1> DEFINE v == m.bytes[x - Header + 1]
<1>1. PICK d, off, at, cnt :
        /\ Sections(m, d, off, at) /\ Counts(cnt, m.rrs) /\ i \in Nat
        /\ Outputs(out, m.rrs, cnt[i + 1]) /\ AtOwner(m, x, i, d, off, at)
  BY DEF Walks
<1>2. /\ x \in Nat /\ m.len \in Nat /\ x < m.len
      /\ \/ v \in 1 .. 191 /\ AtOwner(m, x + 1 + v, i, d, off, at)
         \/ v = 0 /\ AtRecord(m, x + 1, i, d, off, at)
         \/ v = 192 /\ AtRecord(m, x + 2, i, d, off, at)
  BY <1>1, OwnerStep, LenIsNat
<1> HIDE DEF v
<1>3. ASSUME NEW y, AtOwner(m, y, i, d, off, at) PROVE Walks("owner", m, y, i, out)
  BY <1>1, <1>3 DEF Walks
<1>4. ASSUME NEW y, AtRecord(m, y, i, d, off, at) PROVE Walks("record", m, y, i, out)
  BY <1>1, <1>4 DEF Walks
<1> QED BY <1>2, <1>3, <1>4 DEF v

(* The fields and the data of a record lie in the message, and after them  *)
(* the walk is at the next record or at the end, with one more record      *)
(* printed if it is an address.                                            *)
LEMMA WalkRecord ==
  ASSUME NEW m, NEW x, NEW i, NEW out, Walks("record", m, x, i, out)
  PROVE  LET r == m.rrs[i + 1]
             b == m.bytes
             n == Len(r.rdata)
             next == IF IsA(r) THEN Append(out, r.rdata) ELSE out
         IN /\ x \in Nat /\ m.len \in Nat
            /\ r.rdata \in Seq(Nat) /\ n \in Nat /\ x + 10 + n <= m.len
            /\ 256 * b[x - Header + 1] + b[(x + 1) - Header + 1] = r.type
            /\ 256 * b[(x + 8) - Header + 1] + b[(x + 8 + 1) - Header + 1] = n
            /\ \A j \in 1 .. n : b[(x + 10 + j - 1) - Header + 1] = r.rdata[j]
            /\ IsPrefix(out, Addresses(m.rrs)) /\ IsPrefix(next, Addresses(m.rrs))
            /\ IF i + 1 < m.ancount THEN Walks("owner", m, x + 10 + n, i + 1, next)
               ELSE next = Addresses(m.rrs)
<1> DEFINE r == m.rrs[i + 1]
           n == Len(r.rdata)
           next == IF IsA(r) THEN Append(out, r.rdata) ELSE out
<1>1. PICK d, off, at, cnt :
        /\ Sections(m, d, off, at) /\ Counts(cnt, m.rrs) /\ i \in Nat
        /\ Outputs(out, m.rrs, cnt[i + 1]) /\ AtRecord(m, x, i, d, off, at)
  BY DEF Walks
<1>2. m.rrs \in Seq(RR) /\ m.ancount = Len(m.rrs) /\ Len(m.rrs) \in Nat /\ i < Len(m.rrs)
  BY <1>1 DEF Sections, AtRecord
<1>3. i + 1 \in Nat /\ i + 1 <= Len(m.rrs) /\ i <= Len(m.rrs) /\ i + 1 + 1 = i + 2
  BY <1>1, <1>2
<1>4. IsPrefix(out, Addresses(m.rrs))
  BY <1>1, <1>2, <1>3, AllPassed
<1>5. Outputs(next, m.rrs, cnt[i + 2])
  BY <1>1, <1>2, OutputsStep
<1> HIDE DEF next
<1>6. Outputs(next, m.rrs, cnt[i + 1 + 1])
  BY <1>3, <1>5
<1>7. IsPrefix(next, Addresses(m.rrs)) /\ (i + 1 = Len(m.rrs) => next = Addresses(m.rrs))
  BY <1>1, <1>2, <1>3, <1>6, AllPassed
<1>8. ASSUME i + 1 < Len(m.rrs) PROVE Walks("owner", m, x + 10 + n, i + 1, next)
  <2>1. AtOwner(m, x + 10 + n, i + 1, d, off, at)
    BY <1>1, <1>8, RecordStep
  <2> HIDE DEF n
  <2> QED BY <1>1, <1>3, <1>6, <2>1 DEF Walks
<1>9. IF i + 1 < m.ancount THEN Walks("owner", m, x + 10 + n, i + 1, next)
      ELSE next = Addresses(m.rrs)
  <2> HIDE DEF n
  <2>1. i + 1 < Len(m.rrs) \/ i + 1 = Len(m.rrs)
    BY <1>2, <1>3
  <2> QED BY <1>2, <1>7, <1>8, <2>1
<1>10. /\ x \in Nat /\ r.rdata \in Seq(Nat) /\ n \in Nat /\ x + 10 + n <= m.len
       /\ 256 * m.bytes[x - Header + 1] + m.bytes[(x + 1) - Header + 1] = r.type
       /\ 256 * m.bytes[(x + 8) - Header + 1] + m.bytes[(x + 8 + 1) - Header + 1] = n
       /\ \A j \in 1 .. n : m.bytes[(x + 10 + j - 1) - Header + 1] = r.rdata[j]
  <2>1. Sections(m, d, off, at) /\ AtRecord(m, x, i, d, off, at)
    BY <1>1
  <2>2. x \in Nat /\ r.rdata \in Seq(Nat) /\ n \in Nat /\ x + 10 + n <= m.len
    BY <2>1, RecordStep
  <2>3. 256 * m.bytes[x - Header + 1] + m.bytes[(x + 1) - Header + 1] = r.type
    BY <2>1, RecordStep
  <2>4. 256 * m.bytes[(x + 8) - Header + 1] + m.bytes[(x + 8 + 1) - Header + 1] = n
    BY <2>1, RecordStep
  <2>5. \A j \in 1 .. n : m.bytes[(x + 10 + j - 1) - Header + 1] = r.rdata[j]
    BY <2>1, RecordStep
  <2> QED BY <2>2, <2>3, <2>4, <2>5
<1> HIDE DEF r, n
<1>11. m.len \in Nat
  BY <1>1, LenIsNat
<1> QED BY <1>4, <1>7, <1>9, <1>10, <1>11 DEF r, n, next

-----------------------------------------------------------------------------
(* Questions.                                                              *)

\* The functions of the state have the processes for their domain.
Shape ==
  /\ DOMAIN pc = Process /\ DOMAIN domain = Process /\ DOMAIN pkt = Process
  /\ DOMAIN port = Process /\ DOMAIN got = Process /\ DOMAIN pos = Process
  /\ DOMAIN an = Process /\ DOMAIN printed = Process

Same(q) ==
  /\ pc'[q] = pc[q] /\ domain'[q] = domain[q] /\ pkt'[q] = pkt[q] /\ got'[q] = got[q]
  /\ pos'[q] = pos[q] /\ an'[q] = an[q] /\ printed'[q] = printed[q]

(* A process leaves the others alone.                                      *)
LEMMA Framed ==
  ASSUME Shape, NEW p \in Process, Main(p)
  PROVE  Shape' /\ \A q \in Process : q # p => Same(q)
<1> USE DEF Shape, Same, Goto, locals
<1>1. CASE Usage(p)
  BY <1>1 DEF Usage
<1>2. ASSUME NEW d \in Domain, Build(p, d) PROVE Shape' /\ \A q \in Process : q # p => Same(q)
  BY <1>2 DEF Build
<1>3. CASE Socket(p)
  BY <1>3 DEF Socket
<1>4. CASE Send(p)
  BY <1>4 DEF Send
<1>5. CASE Recv(p)
  BY <1>5 DEF Recv
<1>6. CASE Timeout(p)
  BY <1>6 DEF Timeout
<1>7. CASE ParseHeader(p)
  BY <1>7 DEF ParseHeader
<1>8. CASE SkipName(p)
  BY <1>8 DEF SkipName
<1>9. CASE Record(p)
  BY <1>9 DEF Record
<1> QED BY <1>1, <1>2, <1>3, <1>4, <1>5, <1>6, <1>7, <1>8, <1>9 DEF Main

Sendable(d) == d \in Domain /\ ~ LongLabel(d)

\* The packet of process p asks for its name.
Packet(p) ==
  pkt[p] # None => pc[p] # "start" /\ Sendable(domain[p]) /\ pkt[p] = Question(domain[p])

\* Query q asks for the name of its process.
Query(q) ==
  /\ q.of \in Process /\ q.id = Id(q.of) /\ pc[q.of] # "start"
  /\ Sendable(domain[q.of]) /\ q.bytes = Question(domain[q.of])

AskInv ==
  /\ Shape
  /\ \A p \in Process : Packet(p)
  /\ \A q \in asked : Query(q)

(* The end of a question, written piece by piece.                          *)
LEMMA QuestionEnd ==
  ASSUME NEW s \in Seq(Nat)
  PROVE  s \o <<0>> \o <<0, 1>> \o <<0, 1>> = s \o <<0, 0, 1, 0, 1>>
<1> DEFINE n == Len(s)
           t == s \o <<0>>
           u == t \o <<0, 1>>
           v == u \o <<0, 1>>
           w == s \o <<0, 0, 1, 0, 1>>
<1>1. n \in Nat
  OBVIOUS
<1>2. /\ t \in Seq(Nat) /\ Len(t) = n + 1
      /\ (\A j \in 1 .. n : t[j] = s[j]) /\ t[n + 1] = 0
  BY Joined
<1>3. /\ w \in Seq(Nat) /\ Len(w) = n + 5 /\ (\A j \in 1 .. n : w[j] = s[j])
      /\ w[n + 1] = 0 /\ w[n + 2] = 0 /\ w[n + 3] = 1 /\ w[n + 4] = 0 /\ w[n + 5] = 1
  BY Joined
<1> HIDE DEF n, t, w
<1>4. /\ u \in Seq(Nat) /\ Len(u) = n + 3 /\ (\A j \in 1 .. n + 1 : u[j] = t[j])
      /\ u[n + 2] = 0 /\ u[n + 3] = 1
  BY <1>1, <1>2, Joined
<1> HIDE DEF u
<1>5. /\ v \in Seq(Nat) /\ Len(v) = n + 5 /\ (\A j \in 1 .. n + 3 : v[j] = u[j])
      /\ v[n + 4] = 0 /\ v[n + 5] = 1
  BY <1>1, <1>4, Joined
<1> HIDE DEF v
<1>6. ASSUME NEW j \in 1 .. n + 5 PROVE v[j] = w[j]
  <2>1. CASE j \in 1 .. n
    <3>1. j \in 1 .. n + 1 /\ j \in 1 .. n + 3
      BY <1>1, <2>1
    <3> QED BY <1>2, <1>3, <1>4, <1>5, <2>1, <3>1
  <2>2. v[n + 1] = 0 /\ v[n + 2] = 0 /\ v[n + 3] = 1
    <3>1. n + 1 \in 1 .. n + 1 /\ n + 1 \in 1 .. n + 3 /\ n + 2 \in 1 .. n + 3 /\ n + 3 \in 1 .. n + 3
      BY <1>1
    <3> QED BY <1>2, <1>4, <1>5, <3>1
  <2>3. j \in 1 .. n \/ j = n + 1 \/ j = n + 2 \/ j = n + 3 \/ j = n + 4 \/ j = n + 5
    BY <1>1
  <2> QED BY <1>3, <1>5, <2>1, <2>2, <2>3
<1>7. v = w
  BY <1>3, <1>5, <1>6, SeqEqual
<1> QED BY <1>7 DEF v, u, t, w

(* A question that is built asks for the name it is built from.            *)
LEMMA Built ==
  ASSUME NEW d \in Domain, build_query(d) # None
  PROVE  Sendable(d) /\ build_query(d) = Question(d)
<1>1. ~ LongLabel(d) /\ encode_name(d) = Labels(d) \o <<0>>
  BY DEF build_query, encode_name
<1>2. build_query(d) = Labels(d) \o <<0>> \o U16(DNS_TYPE_A) \o U16(DNS_CLASS_IN)
  BY <1>1 DEF build_query
<1>3. U16(DNS_TYPE_A) = <<0, 1>> /\ U16(DNS_CLASS_IN) = <<0, 1>>
  BY DEF U16, DNS_TYPE_A, DNS_CLASS_IN
<1>4. Labels(d) \in Seq(Nat)
  <2>1. d \in Seq(Nat)
    BY NameAssumption
  <2> QED BY <2>1, LabelsLayout
<1> DEFINE s == Labels(d)
<1>5. s \o <<0>> \o <<0, 1>> \o <<0, 1>> = s \o <<0, 0, 1, 0, 1>>
  BY <1>4, QuestionEnd
<1> QED BY <1>1, <1>2, <1>3, <1>5 DEF Sendable, Question, s

(* Only Build gives a process a name, and no step brings one back to the   *)
(* start.                                                                  *)
LEMMA NameKept ==
  ASSUME Shape, NEW p \in Process, Main(p)
  PROVE  /\ pc'[p] # "start"
         /\ \/ domain'[p] = domain[p] /\ pkt'[p] = pkt[p]
            \/ pc[p] = "start" /\ \E d \in Domain : domain'[p] = d /\ pkt'[p] = build_query(d)
<1> USE DEF Shape, Goto, locals
<1>1. CASE Usage(p)
  BY <1>1 DEF Usage
<1>2. ASSUME NEW d \in Domain, Build(p, d)
      PROVE  pc'[p] # "start" /\ pc[p] = "start" /\ domain'[p] = d /\ pkt'[p] = build_query(d)
  BY <1>2 DEF Build
<1>3. CASE Socket(p)
  BY <1>3 DEF Socket
<1>4. CASE Send(p)
  BY <1>4 DEF Send
<1>5. CASE Recv(p)
  BY <1>5 DEF Recv
<1>6. CASE Timeout(p)
  BY <1>6 DEF Timeout
<1>7. CASE ParseHeader(p)
  BY <1>7 DEF ParseHeader
<1>8. CASE SkipName(p)
  BY <1>8 DEF SkipName, NextAnswer
<1>9. CASE Record(p)
  BY <1>9 DEF Record, NextAnswer
<1> QED BY <1>1, <1>2, <1>3, <1>4, <1>5, <1>6, <1>7, <1>8, <1>9 DEF Main

(* Only Send puts a query on its way, the packet of its process.           *)
LEMMA AskedBy ==
  ASSUME NEW p \in Process, Main(p), NEW q \in asked', q \notin asked
  PROVE  pkt[p] # None /\ q.of = p /\ q.id = Id(p) /\ q.bytes = pkt[p]
<1>1. CASE Send(p)
  BY <1>1 DEF Send
<1>2. CASE ~ Send(p)
  <2>1. asked' = asked
    BY <1>2 DEF Main, Usage, Build, Socket, Recv, Timeout, ParseHeader, SkipName, Record
  <2> QED BY <2>1
<1> QED BY <1>1, <1>2

(* The invariant of the questions is inductive.                            *)
LEMMA AskInductive == Spec => []AskInv
<1>1. Init => AskInv
  BY DEF Init, AskInv, Shape, Packet
<1>2. ASSUME AskInv, NEW p \in Process, Main(p) PROVE AskInv'
  <2>1. Shape /\ Shape' /\ \A q \in Process : q # p => Same(q)
    BY <1>2, Framed DEF AskInv
  <2>2. /\ pc'[p] # "start"
        /\ \/ domain'[p] = domain[p] /\ pkt'[p] = pkt[p]
           \/ pc[p] = "start" /\ \E d \in Domain : domain'[p] = d /\ pkt'[p] = build_query(d)
    BY <1>2, <2>1, NameKept
  <2>3. (\A q \in Process : Packet(q)) /\ \A q \in asked : Query(q)
    BY <1>2 DEF AskInv
  <2>4. ASSUME NEW q \in Process PROVE Packet(q)'
    <3>1. CASE q # p
      BY <2>1, <2>3, <3>1 DEF Same, Packet
    <3>2. CASE q = p
      <4>1. CASE domain'[p] = domain[p] /\ pkt'[p] = pkt[p]
        BY <2>2, <2>3, <3>2, <4>1 DEF Packet
      <4>2. ASSUME NEW d \in Domain, domain'[p] = d, pkt'[p] = build_query(d) PROVE Packet(p)'
        BY <2>2, <4>2, Built DEF Packet
      <4> QED BY <2>2, <3>2, <4>1, <4>2
    <3> QED BY <3>1, <3>2
  <2>5. ASSUME NEW q \in Process, pc[q] # "start" PROVE pc'[q] # "start" /\ domain'[q] = domain[q]
    BY <2>1, <2>2, <2>5 DEF Same
  <2>6. ASSUME NEW q \in asked' PROVE Query(q)'
    <3>1. CASE q \in asked
      BY <2>3, <2>5, <3>1 DEF Query
    <3>2. CASE q \notin asked
      <4>1. pkt[p] # None /\ q.of = p /\ q.id = Id(p) /\ q.bytes = pkt[p]
        BY <1>2, <3>2, AskedBy
      <4>2. pc[p] # "start" /\ Sendable(domain[p]) /\ pkt[p] = Question(domain[p])
        BY <2>3, <4>1 DEF Packet
      <4> QED BY <2>5, <4>1, <4>2 DEF Query
    <3> QED BY <3>1, <3>2
  <2> QED BY <2>1, <2>4, <2>6 DEF AskInv
<1>3. ASSUME AskInv, UNCHANGED <<pc, locals, asked>> PROVE AskInv'
  BY <1>3 DEF AskInv, Shape, Packet, Query, locals
<1>4. AskInv /\ [Next]_vars => AskInv'
  BY <1>2, <1>3 DEF Next, Answer, Over, vars
<1> QED BY <1>1, <1>4, PTL DEF Spec

(* The resolver is asked what the user asked, for every name without an    *)
(* empty label, however long (main.c 35-91).                               *)
THEOREM AsksWhatIsAsked == Spec => []AsksRight
<1>1. ASSUME AskInv PROVE AsksRight
  <2> SUFFICES ASSUME NEW q \in asked, \A k \in DOMAIN domain[q.of] : domain[q.of][k] > 0
               PROVE  AsksFor(q.bytes, domain[q.of])
    BY DEF AsksRight
  <2>1. q.bytes = Question(domain[q.of]) /\ domain[q.of] \in Seq(Nat)
    BY <1>1, NameAssumption DEF AskInv, Query, Sendable
  <2> QED BY <2>1, AsksForName
<1> QED BY <1>1, AskInductive, PTL

-----------------------------------------------------------------------------
(* Answers.                                                                *)

Empty(m) == m.ancount = 0 /\ m.rrs = <<>>

\* Message m has the bytes its length promises.
Whole(m) == m.bytes \in Seq(Nat) /\ m.len \in Nat /\ m.len <= Header + Len(m.bytes)

\* Message m answers the query of a process.
Sent(m) ==
  /\ m.of \in Process /\ m.id = Id(m.of) /\ m.rrs \in Seq(RR) /\ Whole(m)
  /\ Empty(m) \/ \E d, off, at : Sections(m, d, off, at)

\* A message on its way to the host.
Arrives(m) == m \in Stray \/ Sent(m)

(* What the resolver sends is empty or a response with its sections.       *)
LEMMA AnswerSent ==
  ASSUME AskInv, NEW q \in asked, Answer(q), NEW m \in net', m \notin net
  PROVE  Sent(m)
<1> DEFINE d == domain[q.of]
<1>1. q.of \in Process /\ q.id = Id(q.of) /\ Sendable(d) /\ q.bytes = Question(d)
  BY DEF AskInv, Query
<1>2. ASSUME m = Datagram(q, <<>>, <<>>) PROVE Sent(m)
  <2>1. /\ m.of = q.of /\ m.id = q.id /\ m.ancount = Len(<<>>) /\ m.rrs = <<>>
        /\ m.bytes = <<>> /\ m.len = Header + Len(<<>>)
    BY <1>2 DEF Datagram
  <2>2. Empty(m) /\ m.rrs \in Seq(RR) /\ Whole(m)
    BY <2>1 DEF Empty, Whole, Header
  <2> QED BY <1>1, <2>1, <2>2 DEF Sent
<1>3. ASSUME AsksFor(q.bytes, QName(q.bytes)), NEW rrs \in Answers,
             m = Datagram(q, rrs, Response(d, rrs))
      PROVE  Sent(m)
  <2>1. /\ m.of = q.of /\ m.id = q.id /\ m.ancount = Len(rrs) /\ m.rrs = rrs
        /\ m.bytes = Response(d, rrs) /\ m.len = Header + Len(m.bytes)
    BY <1>3 DEF Datagram
  <2>2. d \in Seq(Nat) /\ rrs \in Seq(RR)
    BY <1>1, <1>3, NameAssumption, AnswersAssumption DEF Sendable
  <2> HIDE DEF d
  <2>3. \A k \in 1 .. Len(d) : d[k] # 0
    BY <1>1, <1>3, <2>2, AnsweredName
  <2>4. ASSUME NEW k \in 1 .. Len(d) PROVE d[k] \in 1 .. 191
    <3>1. d[k] \in Nat /\ k \in DOMAIN d
      BY <2>2
    <3>2. ~ (d[k] > MAX_LABEL_SEGMENT) /\ d[k] # 0
      BY <1>1, <2>3, <3>1 DEF Sendable, LongLabel
    <3> DEFINE y == d[k]
    <3>3. y \in Nat /\ ~ (y > MAX_LABEL_SEGMENT) /\ y # 0
      BY <3>1, <3>2
    <3> HIDE DEF y
    <3>4. y \in 1 .. 191
      BY <3>3, NameAssumption
    <3> QED BY <3>4 DEF y
  <2>5. \E off, at : Sections(m, d, off, at)
    BY <2>1, <2>2, <2>4, ResponseLayout
  <2>6. Whole(m)
    <3>1. m.bytes \in Seq(Nat) /\ m.len = Header + Len(m.bytes)
      BY <2>5 DEF Sections
    <3> QED BY <3>1 DEF Whole, Header
  <2> QED BY <1>1, <2>1, <2>2, <2>5, <2>6 DEF Sent
<1> DEFINE T(rrs) == q.bytes \o FlattenSeq([k \in DOMAIN rrs |-> Wire(q.bytes, rrs[k])])
<1>4. \/ m = Datagram(q, <<>>, <<>>)
      \/ /\ AsksFor(q.bytes, QName(q.bytes))
         /\ \E rrs \in Answers : m = Datagram(q, rrs, T(rrs))
  <2>1. \/ net' = net \cup {Datagram(q, <<>>, <<>>)}
        \/ /\ AsksFor(q.bytes, QName(q.bytes))
           /\ \E rrs \in Answers : net' = net \cup {Datagram(q, rrs, T(rrs))}
    BY Zenon DEF Answer
  <2> HIDE DEF T
  <2> QED BY <2>1
<1>5. ASSUME NEW rrs PROVE T(rrs) = Response(d, rrs)
  BY <1>1, Zenon DEF Response
<1> HIDE DEF d, T
<1> QED BY <1>2, <1>3, <1>4, <1>5

-----------------------------------------------------------------------------
(* Types.                                                                  *)

Parsing == {"question", "owner", "record"}

\* The cursor of process q is behind the header of a message that is whole,
\* and when it looks at a record at most one byte behind its end.
Cursor(q) ==
  /\ pc[q] = "start" => got[q] = None
  /\ pc[q] \in Parsing \cup {"header"} => Whole(got[q])
  /\ pc[q] \in Parsing => pos[q] >= Header
  /\ pc[q] \in {"record", "undefined"} /\ got[q] # None => pos[q] <= len(q) + 1

TypeInv ==
  /\ TypeOK /\ AskInv
  /\ \A m \in net : Arrives(m)
  /\ \A q \in Process : Cursor(q)

(* A datagram that arrives is whole.                                       *)
LEMMA ArrivesWhole ==
  ASSUME NEW m, Arrives(m)
  PROVE  Whole(m)
BY StrayAssumption DEF Arrives, Sent, Whole

(* Within len parse_response reads bytes.                                  *)
LEMMA BytesRead ==
  ASSUME NEW p \in Process, Whole(got[p]), NEW x \in Nat, x >= Header, x < len(p)
  PROVE  Byte(p, x) \in Nat
<1> DEFINE b == got[p].bytes
           l == got[p].len
<1>1. b \in Seq(Nat) /\ l \in Nat /\ l <= Header + Len(b) /\ Len(b) \in Nat
  BY DEF Whole
<1>2. x < l
  BY <1>1, SizeAssumption DEF len
<1> HIDE DEF b, l
<1>3. x - Header + 1 \in 1 .. Len(b)
  BY <1>1, <1>2 DEF Header
<1>4. b[x - Header + 1] \in Nat
  BY <1>1, <1>3
<1> QED BY <1>4 DEF Byte, b

(* len is a number.                                                        *)
LEMMA LenTyped ==
  ASSUME NEW p \in Process, Whole(got[p])
  PROVE  len(p) \in Nat
BY SizeAssumption DEF Whole, len

\* What a step of process p must show.
Typed(p) ==
  /\ pc'[p] \in Places /\ domain'[p] \in Domain \cup {None} /\ pos'[p] \in Nat /\ an'[p] \in Nat
  /\ port'[p] \in {None, port[p]} \cup (Port \ {port[q] : q \in Process})
  /\ Cursor(p)'

LEMMA SetupTyped ==
  ASSUME TypeInv, NEW p \in Process,
         Usage(p) \/ (\E d \in Domain : Build(p, d)) \/ Socket(p) \/ Send(p) \/ Timeout(p)
  PROVE  Typed(p)
<1>1. Shape /\ TypeOK /\ Cursor(p)
  BY DEF TypeInv, AskInv
<1> USE <1>1 DEF Shape, TypeOK, Goto, locals, Typed, Cursor, Parsing, Places
<1>2. CASE Usage(p)
  BY <1>2 DEF Usage
<1>3. ASSUME NEW d \in Domain, Build(p, d) PROVE Typed(p)
  BY <1>3 DEF Build
<1>4. CASE Socket(p)
  BY <1>4 DEF Socket
<1>5. CASE Send(p)
  BY <1>5 DEF Send
<1>6. CASE Timeout(p)
  BY <1>6 DEF Timeout
<1> QED BY <1>2, <1>3, <1>4, <1>5, <1>6

LEMMA RecvTyped ==
  ASSUME TypeInv, NEW p \in Process, Recv(p)
  PROVE  Typed(p)
<1>1. Shape /\ TypeOK
  BY DEF TypeInv, AskInv
<1>2. PICK m \in net : got' = [got EXCEPT ![p] = m]
  BY DEF Recv
<1>3. Whole(m)
  BY ArrivesWhole DEF TypeInv
<1>4. got'[p] = m /\ pc'[p] = "header"
  BY <1>1, <1>2 DEF Shape, Recv, Goto
<1>5. Cursor(p)'
  BY <1>3, <1>4 DEF Cursor, Parsing
<1> QED BY <1>1, <1>4, <1>5 DEF Recv, Shape, TypeOK, Typed, Places

LEMMA HeaderTyped ==
  ASSUME TypeInv, NEW p \in Process, ParseHeader(p)
  PROVE  Typed(p)
<1>1. Shape /\ TypeOK /\ Cursor(p)
  BY DEF TypeInv, AskInv
<1>2. Whole(got[p]) /\ got' = got
  BY <1>1 DEF ParseHeader, Cursor
<1>3. \/ pc'[p] = "exit0" /\ pos'[p] = pos[p]
      \/ pc'[p] = "question" /\ pos'[p] = Header
  BY <1>1 DEF ParseHeader, Goto, Shape
<1>4. Cursor(p)'
  BY <1>2, <1>3 DEF Cursor, Parsing, Header
<1>5. pos'[p] \in Nat /\ pc'[p] \in Places
  BY <1>1, <1>3 DEF TypeOK, Header, Places
<1> QED BY <1>1, <1>4, <1>5 DEF ParseHeader, TypeOK, Typed

LEMMA SkipTyped ==
  ASSUME TypeInv, NEW p \in Process, SkipName(p)
  PROVE  Typed(p)
<1>1. Shape /\ TypeOK /\ Cursor(p)
  BY DEF TypeInv, AskInv
<1>2. Whole(got[p]) /\ got' = got /\ pos[p] \in Nat /\ pos[p] >= Header /\ pc[p] \in Parsing
  BY <1>1 DEF SkipName, Cursor, Parsing, TypeOK
<1>3. \/ pc'[p] = "exit0" /\ pos'[p] = pos[p]
      \/ /\ pos[p] < len(p) /\ pc'[p] \in Parsing \cup {"exit0"}
         /\ pos'[p] \in {AfterName(p), AfterName(p) + 4}
  BY <1>1, <1>2 DEF SkipName, Goto, Shape, NextAnswer, Parsing
<1>4. pos[p] < len(p) => AfterName(p) \in Nat /\ AfterName(p) >= Header
  <2> SUFFICES ASSUME pos[p] < len(p) PROVE AfterName(p) \in Nat /\ AfterName(p) >= Header
    OBVIOUS
  <2>1. Byte(p, pos[p]) \in Nat
    BY <1>2, BytesRead
  <2> QED BY <1>2, <2>1 DEF AfterName, Header
<1>5. pos'[p] \in Nat /\ pos'[p] >= Header
  BY <1>2, <1>3, <1>4 DEF Header
<1>6. Cursor(p)'
  <2>1. pc'[p] = "record" => /\ pos[p] < len(p) /\ pos'[p] = AfterName(p)
                             /\ Byte(p, pos[p]) = 0 \/ Byte(p, pos[p]) >= 192
    BY <1>1, <1>2 DEF SkipName, Goto, Shape, NextAnswer
  <2>2. pc'[p] = "record" => pos'[p] \in {pos[p] + 1, pos[p] + 2}
    BY <1>2, <2>1, BytesRead DEF AfterName
  <2>3. len(p) \in Nat /\ len(p)' = len(p)
    BY <1>2, LenTyped DEF len
  <2>4. pc'[p] = "record" => pos'[p] <= len(p)' + 1
    BY <1>2, <2>1, <2>2, <2>3
  <2> QED BY <1>2, <1>3, <1>5, <2>4 DEF Cursor, Parsing
<1>7. pc'[p] \in Places
  BY <1>3 DEF Places, Parsing
<1> QED BY <1>1, <1>5, <1>6, <1>7 DEF SkipName, TypeOK, Typed

LEMMA RecordTyped ==
  ASSUME TypeInv, NEW p \in Process, Record(p)
  PROVE  Typed(p)
<1>1. Shape /\ TypeOK /\ Cursor(p)
  BY DEF TypeInv, AskInv
<1>2. Whole(got[p]) /\ got' = got /\ pos[p] \in Nat /\ pos[p] >= Header /\ an[p] \in Nat
  BY <1>1 DEF Record, Cursor, Parsing, TypeOK
<1>3. \/ pc'[p] = "undefined" /\ pos'[p] = pos[p] /\ an'[p] = an[p]
      \/ /\ pos[p] + 10 <= len(p) /\ pc'[p] \in {"owner", "exit0"}
         /\ pos'[p] = pos[p] + 10 + Word(p, (pos[p] + 10) - 2) /\ an'[p] = an[p] + 1
  BY <1>1 DEF Record, Goto, Shape, NextAnswer
<1>4. pos[p] + 10 <= len(p) => Word(p, (pos[p] + 10) - 2) \in Nat
  <2> SUFFICES ASSUME pos[p] + 10 <= len(p) PROVE Word(p, (pos[p] + 10) - 2) \in Nat
    OBVIOUS
  <2> DEFINE x == (pos[p] + 10) - 2
  <2>1. /\ x \in Nat /\ x >= Header /\ x < len(p)
        /\ x + 1 \in Nat /\ x + 1 >= Header /\ x + 1 < len(p)
    BY <1>2, LenTyped DEF Header
  <2> HIDE DEF x
  <2>2. Byte(p, x) \in Nat /\ Byte(p, x + 1) \in Nat
    BY <1>2, <2>1, BytesRead
  <2>3. Word(p, x) \in Nat
    BY <2>2 DEF Word
  <2> QED BY <2>3 DEF x
<1>5. pos'[p] \in Nat /\ pos'[p] >= Header /\ an'[p] \in Nat
  BY <1>2, <1>3, <1>4 DEF Header
<1>6. Cursor(p)' /\ pc'[p] \in Places
  <2>1. len(p)' = len(p) /\ pc[p] = "record"
    BY <1>2 DEF len, Record
  <2> QED BY <1>1, <1>2, <1>3, <1>5, <2>1 DEF Cursor, Parsing, Places
<1> QED BY <1>1, <1>5, <1>6 DEF Record, TypeOK, Typed

(* What a process shows is enough, for it leaves the others alone.         *)
LEMMA TypesKept ==
  ASSUME TypeInv, AskInv', NEW p \in Process, Main(p), Typed(p)
  PROVE  TypeInv'
<1>1. Shape /\ TypeOK
  BY DEF TypeInv, AskInv
<1>2. (\A q \in Process : q # p => Same(q)) /\ Shape'
  BY <1>1, Framed
<1>3. net' = net
  BY DEF Main, Usage, Build, Socket, Send, Recv, Timeout, ParseHeader, SkipName, Record
<1>4. \A q \in Process : q # p => port'[q] = port[q]
  BY <1>1 DEF Main, Usage, Build, Socket, Send, Recv, Timeout, ParseHeader, SkipName, Record,
              Shape, locals
<1>5. \A q \in Process : Cursor(q)'
  BY <1>2 DEF TypeInv, Cursor, Same, Typed, len
<1>6. /\ \A q \in Process : /\ pc'[q] \in Places /\ domain'[q] \in Domain \cup {None}
                            /\ port'[q] \in Port \cup {None} /\ pos'[q] \in Nat /\ an'[q] \in Nat
      /\ \A q, r \in Process : port'[q] = port'[r] /\ port'[q] # None => q = r
  <2>1. /\ \A q \in Process : /\ pc[q] \in Places /\ domain[q] \in Domain \cup {None}
                              /\ port[q] \in Port \cup {None} /\ pos[q] \in Nat /\ an[q] \in Nat
        /\ \A q, r \in Process : port[q] = port[r] /\ port[q] # None => q = r
    BY <1>1 DEF TypeOK
  <2>2. /\ pc'[p] \in Places /\ domain'[p] \in Domain \cup {None}
        /\ pos'[p] \in Nat /\ an'[p] \in Nat
        /\ \/ port'[p] = None \/ port'[p] = port[p]
           \/ port'[p] \in Port /\ \A q \in Process : port'[p] # port[q]
    BY DEF Typed
  <2>3. ASSUME NEW q \in Process
        PROVE  /\ pc'[q] \in Places /\ domain'[q] \in Domain \cup {None}
               /\ port'[q] \in Port \cup {None} /\ pos'[q] \in Nat /\ an'[q] \in Nat
    BY <1>2, <1>4, <2>1, <2>2 DEF Same
  <2>4. ASSUME NEW q \in Process, NEW r \in Process, port'[q] = port'[r], port'[q] # None
        PROVE  q = r
    BY <1>4, <2>1, <2>2, <2>4
  <2> QED BY <2>3, <2>4
<1>7. /\ pc' = [q \in Process |-> pc'[q]] /\ domain' = [q \in Process |-> domain'[q]]
      /\ port' = [q \in Process |-> port'[q]] /\ pos' = [q \in Process |-> pos'[q]]
      /\ an' = [q \in Process |-> an'[q]]
  BY <1>1 DEF Main, Usage, Build, Socket, Send, Recv, Timeout, ParseHeader, SkipName, Record,
              TypeOK, Goto, locals
<1>8. TypeOK'
  BY <1>6, <1>7 DEF TypeOK
<1> QED BY <1>3, <1>5, <1>8 DEF TypeInv

(* The types and the bounds of the cursor are inductive.                   *)
LEMMA TypeInductive == Spec => []TypeInv
<1>1. ASSUME Init, AskInv PROVE TypeInv
  <2>1. TypeOK
    BY <1>1 DEF Init, TypeOK, Places
  <2>2. \A m \in net : Arrives(m)
    BY <1>1 DEF Init, Arrives
  <2>3. \A q \in Process : Cursor(q)
    BY <1>1 DEF Init, Cursor, Parsing
  <2> QED BY <1>1, <2>1, <2>2, <2>3 DEF TypeInv
<1>2. ASSUME TypeInv, AskInv', NEW p \in Process, Main(p) PROVE TypeInv'
  <2>1. Typed(p)
    BY <1>2, SetupTyped, RecvTyped, HeaderTyped, SkipTyped, RecordTyped DEF Main
  <2> QED BY <1>2, <2>1, TypesKept
<1>3. ASSUME TypeInv, AskInv', NEW q \in asked, Answer(q) PROVE TypeInv'
  <2>1. \A m \in net' : m \in net \/ Sent(m)
    BY <1>3, AnswerSent DEF TypeInv
  <2>2. TypeOK' /\ \A p \in Process : Cursor(p)'
    BY <1>3 DEF TypeInv, TypeOK, Cursor, Answer, locals, len
  <2> QED BY <1>3, <2>1, <2>2 DEF TypeInv, Arrives
<1>4. ASSUME TypeInv, AskInv', UNCHANGED vars PROVE TypeInv'
  BY <1>4 DEF TypeInv, TypeOK, Cursor, vars, locals, len
<1>5. TypeInv /\ AskInv' /\ [Next]_vars => TypeInv'
  BY <1>2, <1>3, <1>4 DEF Next, Over
<1> QED BY <1>1, <1>5, AskInductive, PTL DEF Spec

(* The variables have their types: two sockets never share a port, and the *)
(* cursor of parse_response stays a number whatever datagram is parsed, a  *)
(* foreign one with the identifier of the process included (main.c         *)
(* 132-189).                                                               *)
THEOREM TypeCorrect == Spec => []TypeOK
<1>1. TypeInv => TypeOK
  BY DEF TypeInv
<1> QED BY <1>1, TypeInductive, PTL

-----------------------------------------------------------------------------
(* The walk of a process.                                                  *)

(* An intact message is empty or has its sections.                         *)
LEMMA IntactLayout ==
  ASSUME NEW m, Arrives(m), Intact(m)
  PROVE  Empty(m) \/ \E d, off, at : Sections(m, d, off, at)
<1>1. m.rrs \in Seq(RR)
  BY StrayAssumption DEF Arrives, Sent
<1>2. ASSUME m.ancount = Len(m.rrs), m.len = Header + Len(m.bytes), NEW d \in Domain,
             \A k \in DOMAIN d : d[k] \in 1 .. MAX_LABEL_SEGMENT, m.bytes = Response(d, m.rrs)
      PROVE  \E off, at : Sections(m, d, off, at)
  <2>1. d \in Seq(Nat)
    BY NameAssumption
  <2>2. \A y \in 1 .. MAX_LABEL_SEGMENT : y \in 1 .. 191
    BY NameAssumption
  <2>3. ASSUME NEW k \in 1 .. Len(d) PROVE d[k] \in 1 .. 191
    <3>1. k \in DOMAIN d
      BY <2>1
    <3>2. d[k] \in 1 .. MAX_LABEL_SEGMENT
      BY <1>2, <3>1, Zenon
    <3> QED BY <2>2, <3>2, Zenon
  <2> QED BY <1>1, <1>2, <2>1, <2>3, ResponseLayout
<1> QED BY <1>2 DEF Intact, Empty

(* Nothing printed is the beginning of any answer.                         *)
LEMMA NothingPrinted ==
  ASSUME NEW rrs \in Seq(RR)
  PROVE  IsPrefix(<<>>, Addresses(rrs)) /\ (rrs = <<>> => <<>> = Addresses(rrs))
<1>1. PICK cnt : Counts(cnt, rrs)
  BY CountsExist
<1>2. cnt[0 + 1] = 0 /\ 0 <= Len(rrs)
  BY <1>1 DEF Counts
<1>3. Outputs(<<>>, rrs, cnt[0 + 1])
  BY <1>2 DEF Outputs
<1> QED BY <1>1, <1>2, <1>3, AllPassed

Fresh == {"start", "socket", "send", "wait", "exit1"}

\* What holds of process q at place c, with datagram g, position x, i records
\* passed, out printed and name d.
Local(q, c, g, x, i, out, d) ==
  /\ c \in Fresh => g = None /\ i = 0 /\ out = <<>>
  /\ c = "header" => i = 0 /\ out = <<>> /\ Arrives(g)
  /\ c = "question" =>
       /\ i = 0 /\ out = <<>> /\ g.id = Id(q) /\ Arrives(g)
       /\ Intact(g) => Empty(g) \/ Walks(c, g, x, i, out)
  /\ c \in {"owner", "record"} =>
       g.id = Id(q) /\ Arrives(g) /\ (Intact(g) => Walks(c, g, x, i, out))
  /\ out # <<>> => g.id = Id(q) /\ Arrives(g)
  /\ g # None /\ Intact(g) => IsPrefix(out, Addresses(g.rrs))
  /\ c = "exit0" /\ Intact(g) /\ g.id = Id(q) /\ g.len <= RespSize => out = Addresses(g.rrs)
  /\ c = "undefined" => Overruns(d) \/ ~ Intact(g) \/ g.len > RespSize

\* The bytes of g that are in resp.
Received(g) == IF g.len <= RespSize THEN g.len ELSE RespSize

(* parse_response looks at the header.                                     *)
LEMMA LocalHeader ==
  ASSUME NEW q \in Process, NEW g, NEW x, NEW i, NEW out, NEW d,
         Local(q, "header", g, x, i, out, d)
  PROVE  /\ Received(g) < Header \/ g.id # Id(q) => Local(q, "exit0", g, x, i, out, d)
         /\ Received(g) >= Header /\ g.id = Id(q) => Local(q, "question", g, Header, i, out, d)
<1>1. /\ i = 0 /\ out = <<>> /\ Arrives(g)
      /\ g # None /\ Intact(g) => IsPrefix(out, Addresses(g.rrs))
  BY DEF Local
<1>2. ASSUME Intact(g) PROVE Empty(g) \/ \E dd, off, at : Sections(g, dd, off, at)
  BY <1>1, <1>2, IntactLayout
<1>3. ASSUME Empty(g) PROVE out = Addresses(g.rrs)
  <2>1. <<>> \in Seq(RR)
    OBVIOUS
  <2> QED BY <1>1, <1>3, <2>1, NothingPrinted DEF Empty
<1>4. ASSUME Received(g) < Header, NEW dd, NEW off, NEW at, Sections(g, dd, off, at)
      PROVE  FALSE
  BY <1>4, SizeAssumption DEF Received, Sections, Header
<1>5. Received(g) < Header \/ g.id # Id(q) => Local(q, "exit0", g, x, i, out, d)
  BY <1>1, <1>2, <1>3, <1>4 DEF Local, Fresh
<1>6. ASSUME g.id = Id(q) PROVE Local(q, "question", g, Header, i, out, d)
  <2>1. Intact(g) => Empty(g) \/ Walks("question", g, Header, i, out)
    BY <1>1, <1>2, WalkBegins
  <2> QED BY <1>1, <1>6, <2>1 DEF Local, Fresh
<1> QED BY <1>5, <1>6

\* Where skip_name goes from position x with length byte v.
After(x, v) == CASE v = 0 -> x + 1 [] v >= 192 -> x + 2 [] OTHER -> x + 1 + v

(* A round of skip_name on the question.                                   *)
LEMMA LocalQuestion ==
  ASSUME NEW q \in Process, NEW g, NEW x, NEW i, NEW out, NEW d,
         Local(q, "question", g, x, i, out, d)
  PROVE  LET v == g.bytes[x - Header + 1]
             over == v = 0 \/ v >= 192
         IN /\ x >= Received(g) => Local(q, "exit0", g, x, i, out, d)
            /\ x < Received(g) /\ ~ over => Local(q, "question", g, After(x, v), i, out, d)
            /\ x < Received(g) /\ over =>
                 Local(q, IF 0 < g.ancount THEN "owner" ELSE "exit0",
                       g, After(x, v) + 4, i, out, d)
<1> DEFINE v == g.bytes[x - Header + 1]
           over == v = 0 \/ v >= 192
<1>1. /\ i = 0 /\ out = <<>> /\ g.id = Id(q) /\ Arrives(g)
      /\ g # None /\ Intact(g) => IsPrefix(out, Addresses(g.rrs))
      /\ Intact(g) => Empty(g) \/ Walks("question", g, x, i, out)
  BY DEF Local
<1>2. CASE Empty(g)
  <2>1. out = Addresses(g.rrs) /\ g.ancount = 0
    <3>1. <<>> \in Seq(RR)
      OBVIOUS
    <3> QED BY <1>1, <1>2, <3>1, NothingPrinted DEF Empty
  <2>2. ASSUME NEW y PROVE Local(q, "exit0", g, y, i, out, d) /\ Local(q, "question", g, y, i, out, d)
    BY <1>1, <1>2, <2>1 DEF Local, Fresh
  <2>3. ~ (0 < g.ancount)
    BY <2>1
  <2> HIDE DEF v
  <2> QED BY <2>2, <2>3 DEF v
<1>3. CASE Walks("question", g, x, i, out)
  <2>1. /\ x \in Nat /\ g.len \in Nat /\ x < g.len
        /\ \/ v \in 1 .. 191 /\ Walks("question", g, x + 1 + v, i, out)
           \/ /\ v = 0 /\ IsPrefix(out, Addresses(g.rrs))
              /\ IF 0 < g.ancount THEN Walks("owner", g, x + 1 + 4, i, out)
                 ELSE out = Addresses(g.rrs)
    BY <1>3, WalkQuestion
  <2> HIDE DEF v
  <2>2. x >= Received(g) => Local(q, "exit0", g, x, i, out, d)
    <3>1. x >= Received(g) => ~ (g.len <= RespSize)
      BY <2>1 DEF Received
    <3> QED BY <1>1, <3>1 DEF Local, Fresh
  <2>3. CASE v \in 1 .. 191 /\ Walks("question", g, x + 1 + v, i, out)
    <3>1. ~ over /\ After(x, v) = x + 1 + v
      BY <2>3 DEF After
    <3>2. Local(q, "question", g, x + 1 + v, i, out, d)
      BY <1>1, <1>3, <2>3 DEF Local, Fresh
    <3> QED BY <2>2, <3>1, <3>2 DEF v
  <2>4. CASE /\ v = 0
             /\ IF 0 < g.ancount THEN Walks("owner", g, x + 1 + 4, i, out)
                ELSE out = Addresses(g.rrs)
    <3>1. over /\ After(x, v) = x + 1
      BY <2>4 DEF After
    <3>2. Local(q, IF 0 < g.ancount THEN "owner" ELSE "exit0", g, x + 1 + 4, i, out, d)
      BY <1>1, <1>3, <2>4 DEF Local, Fresh
    <3> QED BY <2>2, <3>1, <3>2 DEF v
  <2> QED BY <2>1, <2>3, <2>4
<1>4. CASE ~ Intact(g)
  <2>1. ASSUME NEW y, NEW c \in {"question", "owner", "exit0"}
        PROVE  Local(q, c, g, y, i, out, d)
    BY <1>1, <1>4 DEF Local, Fresh
  <2> HIDE DEF v
  <2> QED BY <2>1 DEF v
<1> QED BY <1>1, <1>2, <1>3, <1>4

(* A round of skip_name on an owner.                                       *)
LEMMA LocalOwner ==
  ASSUME NEW q \in Process, NEW g, NEW x, NEW i, NEW out, NEW d,
         Local(q, "owner", g, x, i, out, d)
  PROVE  LET v == g.bytes[x - Header + 1]
             over == v = 0 \/ v >= 192
         IN /\ x >= Received(g) => Local(q, "exit0", g, x, i, out, d)
            /\ x < Received(g) /\ ~ over => Local(q, "owner", g, After(x, v), i, out, d)
            /\ x < Received(g) /\ over => Local(q, "record", g, After(x, v), i, out, d)
<1> DEFINE v == g.bytes[x - Header + 1]
           over == v = 0 \/ v >= 192
<1>1. /\ g.id = Id(q) /\ Arrives(g) /\ (Intact(g) => Walks("owner", g, x, i, out))
      /\ g # None /\ Intact(g) => IsPrefix(out, Addresses(g.rrs))
  BY DEF Local
<1>2. CASE ~ Intact(g)
  <2>1. ASSUME NEW y, NEW c \in {"owner", "record", "exit0"}
        PROVE  Local(q, c, g, y, i, out, d)
    BY <1>1, <1>2 DEF Local, Fresh
  <2> HIDE DEF v
  <2> QED BY <2>1 DEF v
<1>3. CASE Intact(g)
  <2>1. /\ g.id = Id(q) /\ Arrives(g) /\ (g # None => IsPrefix(out, Addresses(g.rrs)))
        /\ Walks("owner", g, x, i, out)
    BY <1>1, <1>3
  <2>2. /\ x \in Nat /\ g.len \in Nat /\ x < g.len
        /\ \/ v \in 1 .. 191 /\ Walks("owner", g, x + 1 + v, i, out)
           \/ v = 0 /\ Walks("record", g, x + 1, i, out)
           \/ v = 192 /\ Walks("record", g, x + 2, i, out)
    BY <2>1, WalkOwner
  <2> HIDE DEF v
  <2>3. x >= Received(g) => Local(q, "exit0", g, x, i, out, d)
    <3>1. x >= Received(g) => ~ (g.len <= RespSize)
      BY <2>2 DEF Received
    <3> QED BY <2>1, <3>1 DEF Local, Fresh
  <2>4. ASSUME NEW y, NEW c \in {"owner", "record"}, Walks(c, g, y, i, out)
        PROVE  Local(q, c, g, y, i, out, d)
    BY <2>1, <2>4 DEF Local, Fresh
  <2>5. CASE v \in 1 .. 191 /\ Walks("owner", g, x + 1 + v, i, out)
    <3>1. ~ over /\ After(x, v) = x + 1 + v
      BY <2>5 DEF After
    <3> QED BY <2>3, <2>4, <2>5, <3>1 DEF v
  <2>6. CASE v = 0 /\ Walks("record", g, x + 1, i, out)
    <3>1. over /\ After(x, v) = x + 1
      BY <2>6 DEF After
    <3> QED BY <2>3, <2>4, <2>6, <3>1 DEF v
  <2>7. CASE v = 192 /\ Walks("record", g, x + 2, i, out)
    <3>1. over /\ After(x, v) = x + 2
      BY <2>7 DEF After
    <3> QED BY <2>3, <2>4, <2>7, <3>1 DEF v
  <2> QED BY <2>2, <2>5, <2>6, <2>7
<1> QED BY <1>2, <1>3

\* The two bytes of g at position x.
WordAt(g, x) == 256 * g.bytes[x - Header + 1] + g.bytes[(x + 1) - Header + 1]

(* The rest of a record.                                                   *)
LEMMA LocalRecord ==
  ASSUME NEW q \in Process, NEW g, NEW x, NEW i, NEW out, NEW d,
         Local(q, "record", g, x, i, out, d)
  PROVE  LET isA == WordAt(g, x) = DNS_TYPE_A /\ WordAt(g, x + 8) = 4
             end == Received(g)
             adr == [k \in 1 .. 4 |-> g.bytes[(x + 10 + k - 1) - Header + 1]]
         IN /\ ~ (x + 10 <= end) \/ (isA /\ ~ (x + 10 + 4 <= end)) =>
                 Local(q, "undefined", g, x, i, out, d)
            /\ x + 10 <= end =>
                 Local(q, IF i + 1 < g.ancount THEN "owner" ELSE "exit0", g,
                       x + 10 + WordAt(g, x + 8), i + 1,
                       IF isA THEN Append(out, adr) ELSE out, d)
<1> DEFINE isA == WordAt(g, x) = DNS_TYPE_A /\ WordAt(g, x + 8) = 4
           adr == [k \in 1 .. 4 |-> g.bytes[(x + 10 + k - 1) - Header + 1]]
           r == g.rrs[i + 1]
           n == Len(r.rdata)
           new == IF IsA(r) THEN Append(out, r.rdata) ELSE out
<1>1. /\ g.id = Id(q) /\ Arrives(g) /\ (Intact(g) => Walks("record", g, x, i, out))
      /\ g # None /\ Intact(g) => IsPrefix(out, Addresses(g.rrs))
  BY DEF Local
<1>2. CASE ~ Intact(g)
  <2>1. ASSUME NEW y, NEW c \in {"owner", "exit0", "undefined"}, NEW j, NEW o
        PROVE  Local(q, c, g, y, j, o, d)
    BY <1>1, <1>2 DEF Local, Fresh
  <2> HIDE DEF isA, adr
  <2> QED BY <2>1 DEF isA, adr
<1>3. CASE Intact(g)
  <2>1. /\ g.id = Id(q) /\ Arrives(g) /\ (g # None => IsPrefix(out, Addresses(g.rrs)))
        /\ Walks("record", g, x, i, out)
    BY <1>1, <1>3
  <2>2. /\ x \in Nat /\ g.len \in Nat /\ r.rdata \in Seq(Nat) /\ n \in Nat /\ x + 10 + n <= g.len
        /\ IsPrefix(new, Addresses(g.rrs))
        /\ IF i + 1 < g.ancount THEN Walks("owner", g, x + 10 + n, i + 1, new)
           ELSE new = Addresses(g.rrs)
    BY <2>1, WalkRecord
  <2>3. WordAt(g, x) = r.type
    BY <2>1, WalkRecord DEF WordAt
  <2>4. WordAt(g, x + 8) = n
    BY <2>1, WalkRecord DEF WordAt
  <2>5. \A j \in 1 .. n : g.bytes[(x + 10 + j - 1) - Header + 1] = r.rdata[j]
    BY <2>1, WalkRecord
  <2>6. isA <=> IsA(r)
    BY <2>3, <2>4 DEF IsA
  <2>7. ASSUME isA PROVE adr = r.rdata
    <3>1. n = 4
      BY <2>4, <2>7
    <3>2. r.rdata = [k \in 1 .. 4 |-> r.rdata[k]]
      <4>1. r.rdata \in [1 .. n -> Nat]
        BY <2>2
      <4> QED BY <3>1, <4>1
    <3>3. \A k \in 1 .. 4 : g.bytes[(x + 10 + k - 1) - Header + 1] = r.rdata[k]
      BY <2>5, <3>1
    <3> QED BY <3>2, <3>3
  <2>8. (IF isA THEN Append(out, adr) ELSE out) = new
    <3> HIDE DEF isA, adr, r
    <3> QED BY <2>6, <2>7
  <2>9. ~ (x + 10 <= Received(g)) \/ (isA /\ ~ (x + 10 + 4 <= Received(g))) => ~ (g.len <= RespSize)
    <3>1. isA => n = 4
      BY <2>4
    <3>2. x \in Nat /\ g.len \in Nat /\ n \in Nat /\ x + 10 + n <= g.len
      BY <2>2
    <3> HIDE DEF n, isA
    <3> QED BY <3>1, <3>2 DEF Received
  <2> HIDE DEF isA, adr, r, n, new
  <2>10. ~ (g.len <= RespSize) => Local(q, "undefined", g, x, i, out, d)
    <3>1. ~ (g.len <= RespSize) => g.len > RespSize
      BY <2>2, SizeAssumption
    <3> QED BY <2>1, <3>1 DEF Local, Fresh
  <2>11. Local(q, IF i + 1 < g.ancount THEN "owner" ELSE "exit0", g, x + 10 + n, i + 1, new, d)
    <3>1. CASE i + 1 < g.ancount
      <4>1. Local(q, "owner", g, x + 10 + n, i + 1, new, d)
        BY <2>1, <2>2, <3>1 DEF Local, Fresh
      <4> QED BY <3>1, <4>1
    <3>2. CASE ~ (i + 1 < g.ancount)
      <4>1. Local(q, "exit0", g, x + 10 + n, i + 1, new, d)
        BY <2>1, <2>2, <3>2 DEF Local, Fresh
      <4> QED BY <3>2, <4>1
    <3> QED BY <3>1, <3>2
  <2>12. ~ (x + 10 <= Received(g)) \/ (isA /\ ~ (x + 10 + 4 <= Received(g))) =>
           Local(q, "undefined", g, x, i, out, d)
    BY <2>9, <2>10
  <2>13. Local(q, IF i + 1 < g.ancount THEN "owner" ELSE "exit0", g,
               x + 10 + WordAt(g, x + 8), i + 1, IF isA THEN Append(out, adr) ELSE out, d)
    BY <2>4, <2>8, <2>11
  <2> QED BY <2>12, <2>13 DEF isA, adr
<1> QED BY <1>2, <1>3

(* A process that has got nothing yet.                                     *)
LEMMA LocalFresh ==
  ASSUME NEW q, NEW c \in Fresh, NEW g, NEW x, NEW i, NEW out, NEW d,
         Local(q, c, g, x, i, out, d)
  PROVE  /\ \A e \in Fresh : \A f : Local(q, e, g, x, i, out, f)
         /\ \A f : Overruns(f) => Local(q, "undefined", g, x, i, out, f)
         /\ \A m : Arrives(m) => Local(q, "header", m, x, i, out, d)
<1>1. g = None /\ i = 0 /\ out = <<>>
  BY DEF Local
<1>2. \A e \in Fresh : \A f : Local(q, e, g, x, i, out, f)
  BY <1>1 DEF Local, Fresh
<1>3. \A f : Overruns(f) => Local(q, "undefined", g, x, i, out, f)
  BY <1>1 DEF Local, Fresh
<1>4. ASSUME NEW m, Arrives(m) PROVE Local(q, "header", m, x, i, out, d)
  <2>1. m.rrs \in Seq(RR)
    BY <1>4, StrayAssumption DEF Arrives, Sent
  <2>2. IsPrefix(<<>>, Addresses(m.rrs))
    BY <2>1, NothingPrinted
  <2> QED BY <1>1, <1>4, <2>2 DEF Local, Fresh
<1> QED BY <1>2, <1>3, <1>4

At(q) == Local(q, pc[q], got[q], pos[q], an[q], printed[q], domain[q])

AnswerInv ==
  /\ AskInv
  /\ \A m \in net : Arrives(m)
  /\ \A q \in Process : At(q)

(* Every step of a process keeps what holds of it, one action at a time.   *)
LEMMA SetupKeeps ==
  ASSUME AnswerInv, NEW p \in Process,
         Usage(p) \/ (\E d \in Domain : Build(p, d)) \/ Socket(p) \/ Send(p) \/ Timeout(p)
  PROVE  At(p)'
<1>1. Shape /\ Local(p, pc[p], got[p], pos[p], an[p], printed[p], domain[p])
  BY DEF AnswerInv, AskInv, At
<1>2. /\ pc[p] \in Fresh /\ got'[p] = got[p] /\ pos'[p] = pos[p] /\ an'[p] = an[p]
      /\ printed'[p] = printed[p] /\ (pc'[p] \in Fresh \/ (pc'[p] = "undefined" /\ Overruns(domain'[p])))
  <2> USE <1>1 DEF Shape, Goto, locals, Fresh
  <2>1. CASE Usage(p)
    BY <2>1 DEF Usage
  <2>2. CASE \E d \in Domain : Build(p, d)
    BY <2>2 DEF Build
  <2>3. CASE Socket(p)
    BY <2>3 DEF Socket
  <2>4. CASE Send(p)
    BY <2>4 DEF Send
  <2>5. CASE Timeout(p)
    BY <2>5 DEF Timeout
  <2> QED BY <2>1, <2>2, <2>3, <2>4, <2>5
<1>3. Local(p, pc'[p], got[p], pos[p], an[p], printed[p], domain'[p])
  <2>1. /\ \A e \in Fresh : \A f : Local(p, e, got[p], pos[p], an[p], printed[p], f)
        /\ \A f : Overruns(f) => Local(p, "undefined", got[p], pos[p], an[p], printed[p], f)
    <3>1. pc[p] \in Fresh
      BY <1>2
    <3> QED BY <1>1, <3>1, LocalFresh
  <2> QED BY <1>2, <2>1
<1> QED BY <1>2, <1>3 DEF At

LEMMA RecvKeeps ==
  ASSUME AnswerInv, NEW p \in Process, Recv(p)
  PROVE  At(p)'
<1>1. Shape /\ Local(p, pc[p], got[p], pos[p], an[p], printed[p], domain[p])
  BY DEF AnswerInv, AskInv, At
<1>2. PICK m \in net : got' = [got EXCEPT ![p] = m]
  BY DEF Recv
<1>3. /\ pc[p] \in Fresh /\ got'[p] = m /\ pos'[p] = pos[p] /\ an'[p] = an[p]
      /\ printed'[p] = printed[p] /\ pc'[p] = "header" /\ domain'[p] = domain[p]
  BY <1>1, <1>2 DEF Recv, Shape, Goto, Fresh
<1>4. Arrives(m)
  BY DEF AnswerInv
<1>5. Local(p, "header", m, pos[p], an[p], printed[p], domain[p])
  BY <1>1, <1>3, <1>4, LocalFresh
<1> QED BY <1>3, <1>5 DEF At

LEMMA HeaderKeeps ==
  ASSUME AnswerInv, NEW p \in Process, ParseHeader(p)
  PROVE  At(p)'
<1>1. Shape /\ Local(p, pc[p], got[p], pos[p], an[p], printed[p], domain[p])
  BY DEF AnswerInv, AskInv, At
<1>2. /\ pc[p] = "header" /\ got'[p] = got[p] /\ an'[p] = an[p]
      /\ printed'[p] = printed[p] /\ domain'[p] = domain[p]
  BY DEF ParseHeader
<1>3. \/ /\ Received(got[p]) < Header \/ got[p].id # Id(p)
         /\ pc'[p] = "exit0" /\ pos'[p] = pos[p]
      \/ /\ Received(got[p]) >= Header /\ got[p].id = Id(p)
         /\ pc'[p] = "question" /\ pos'[p] = Header
  BY <1>1 DEF ParseHeader, Goto, Shape, len, Received
<1>4. Local(p, pc'[p], got[p], pos'[p], an[p], printed[p], domain[p])
  BY <1>1, <1>2, <1>3, LocalHeader
<1> QED BY <1>2, <1>4 DEF At

LEMMA SkipKeeps ==
  ASSUME AnswerInv, NEW p \in Process, SkipName(p)
  PROVE  At(p)'
<1> DEFINE g == got[p]
           x == pos[p]
           v == g.bytes[x - Header + 1]
           over == v = 0 \/ v >= 192
<1>1. Shape /\ Local(p, pc[p], g, x, an[p], printed[p], domain[p])
  BY DEF AnswerInv, AskInv, At
<1>2. /\ pc[p] \in {"question", "owner"} /\ got'[p] = got[p] /\ an'[p] = an[p]
      /\ printed'[p] = printed[p] /\ domain'[p] = domain[p]
  BY DEF SkipName
<1>3. AfterName(p) = After(x, v) /\ len(p) = Received(g) /\ Byte(p, pos[p]) = v
  BY DEF AfterName, After, len, Received, Byte
<1> HIDE DEF v
<1>4. \/ x >= Received(g) /\ pc'[p] = "exit0" /\ pos'[p] = x
      \/ x < Received(g) /\ ~ over /\ pc'[p] = pc[p] /\ pos'[p] = After(x, v)
      \/ /\ x < Received(g) /\ over /\ pc[p] = "question" /\ pos'[p] = After(x, v) + 4
         /\ pc'[p] = IF 0 < g.ancount THEN "owner" ELSE "exit0"
      \/ /\ x < Received(g) /\ over /\ pc[p] = "owner" /\ pos'[p] = After(x, v)
         /\ pc'[p] = "record"
  BY <1>1, <1>3 DEF SkipName, Goto, Shape, NextAnswer
<1>5. CASE pc[p] = "question"
  <2>1. Local(p, "question", g, x, an[p], printed[p], domain[p])
    BY <1>1, <1>5
  <2>2. /\ x >= Received(g) => Local(p, "exit0", g, x, an[p], printed[p], domain[p])
        /\ x < Received(g) /\ ~ over =>
             Local(p, "question", g, After(x, v), an[p], printed[p], domain[p])
        /\ x < Received(g) /\ over =>
             Local(p, IF 0 < g.ancount THEN "owner" ELSE "exit0",
                   g, After(x, v) + 4, an[p], printed[p], domain[p])
    BY <2>1, LocalQuestion DEF v
  <2>3. Local(p, pc'[p], g, pos'[p], an[p], printed[p], domain[p])
    <3> HIDE DEF g, x, over
    <3> QED BY <1>4, <1>5, <2>2
  <2> QED BY <1>2, <2>3 DEF At
<1>6. CASE pc[p] = "owner"
  <2>1. Local(p, "owner", g, x, an[p], printed[p], domain[p])
    BY <1>1, <1>6
  <2>2. /\ x >= Received(g) => Local(p, "exit0", g, x, an[p], printed[p], domain[p])
        /\ x < Received(g) /\ ~ over =>
             Local(p, "owner", g, After(x, v), an[p], printed[p], domain[p])
        /\ x < Received(g) /\ over =>
             Local(p, "record", g, After(x, v), an[p], printed[p], domain[p])
    BY <2>1, LocalOwner DEF v
  <2>3. Local(p, pc'[p], g, pos'[p], an[p], printed[p], domain[p])
    <3> HIDE DEF g, x, over
    <3> QED BY <1>4, <1>6, <2>2
  <2> QED BY <1>2, <2>3 DEF At
<1> QED BY <1>2, <1>5, <1>6

LEMMA RecordKeeps ==
  ASSUME AnswerInv, TypeOK, NEW p \in Process, Record(p)
  PROVE  At(p)'
<1> DEFINE g == got[p]
           x == pos[p]
           end == Received(g)
           isA == WordAt(g, x) = DNS_TYPE_A /\ WordAt(g, x + 8) = 4
           adr == [k \in 1 .. 4 |-> g.bytes[(x + 10 + k - 1) - Header + 1]]
           new == [k \in 1 .. 4 |-> Byte(p, x + 10 + k - 1)]
<1>1. Shape /\ Local(p, "record", g, x, an[p], printed[p], domain[p])
  BY DEF AnswerInv, AskInv, At, Record
<1>2. got'[p] = g /\ domain'[p] = domain[p]
  BY DEF Record
<1>3. /\ ~ (x + 10 <= end) \/ (isA /\ ~ (x + 10 + 4 <= end)) =>
           Local(p, "undefined", g, x, an[p], printed[p], domain[p])
      /\ x + 10 <= end =>
           Local(p, IF an[p] + 1 < g.ancount THEN "owner" ELSE "exit0", g,
                 x + 10 + WordAt(g, x + 8), an[p] + 1,
                 IF isA THEN Append(printed[p], adr) ELSE printed[p], domain[p])
  BY <1>1, LocalRecord
<1>4. x \in Nat
  BY DEF TypeOK
<1>5. /\ len(p) = end /\ (IsAddress(p) <=> isA)
      /\ Word(p, (x + 10) - 2) = WordAt(g, x + 8) /\ new = adr
  <2>1. (x + 10) - 2 = x + 8
    BY <1>4
  <2> QED BY <2>1 DEF len, Received, IsAddress, Word, Byte, WordAt
<1>6. \/ /\ ~ (x + 10 <= end) \/ (isA /\ ~ (x + 10 + 4 <= end))
         /\ pc'[p] = "undefined" /\ pos'[p] = x /\ an'[p] = an[p] /\ printed'[p] = printed[p]
      \/ /\ x + 10 <= end
         /\ pc'[p] = IF an[p] + 1 < g.ancount THEN "owner" ELSE "exit0"
         /\ pos'[p] = x + 10 + WordAt(g, x + 8) /\ an'[p] = an[p] + 1
         /\ printed'[p] = IF isA THEN Append(printed[p], adr) ELSE printed[p]
  <2>1. \/ /\ ~ (x + 10 <= len(p)) \/ (IsAddress(p) /\ ~ (x + 10 + 4 <= len(p)))
           /\ pc' = [pc EXCEPT ![p] = "undefined"]
           /\ pos' = pos /\ an' = an /\ printed' = printed
        \/ /\ x + 10 <= len(p)
           /\ printed' = IF ~ IsAddress(p) THEN printed
                         ELSE [printed EXCEPT ![p] = Append(printed[p], new)]
           /\ pos' = [pos EXCEPT ![p] = x + 10 + Word(p, (x + 10) - 2)]
           /\ an' = [an EXCEPT ![p] = an[p] + 1]
           /\ pc' = [pc EXCEPT ![p] = IF an[p] + 1 < g.ancount THEN "owner" ELSE "exit0"]
    BY DEF Record, Goto, NextAnswer
  <2>2. /\ p \in DOMAIN pc /\ p \in DOMAIN pos /\ p \in DOMAIN an /\ p \in DOMAIN printed
    BY <1>1 DEF Shape
  <2> HIDE DEF end, isA, adr, new
  <2> QED BY <1>5, <2>1, <2>2
<1> HIDE DEF end, isA, adr, g, x
<1>7. Local(p, pc'[p], g, pos'[p], an'[p], printed'[p], domain[p])
  BY <1>3, <1>6
<1> QED BY <1>2, <1>7 DEF At

(* The invariant of the answers is inductive.                              *)
LEMMA AnswerInductive == Spec => []AnswerInv
<1>1. ASSUME Init, AskInv PROVE AnswerInv
  <2>1. \A m \in net : Arrives(m)
    BY <1>1 DEF Init, Arrives
  <2>2. \A q \in Process : Local(q, "start", None, 0, 0, <<>>, None)
    BY DEF Local, Fresh
  <2>3. \A q \in Process : At(q)
    BY <1>1, <2>2 DEF Init, At
  <2> QED BY <1>1, <2>1, <2>3 DEF AnswerInv
<1>2. ASSUME AnswerInv, TypeOK, AskInv', NEW p \in Process, Main(p) PROVE AnswerInv'
  <2>1. \A q \in Process : q # p => Same(q)
    BY <1>2, Framed DEF AnswerInv, AskInv
  <2>2. net' = net
    BY <1>2 DEF Main, Usage, Build, Socket, Send, Recv, Timeout, ParseHeader, SkipName, Record
  <2>3. At(p)'
    BY <1>2, SetupKeeps, RecvKeeps, HeaderKeeps, SkipKeeps, RecordKeeps DEF Main
  <2>4. ASSUME NEW q \in Process, q # p PROVE At(q)'
    BY <1>2, <2>1, <2>4 DEF AnswerInv, At, Same
  <2> QED BY <1>2, <2>2, <2>3, <2>4 DEF AnswerInv
<1>3. ASSUME AnswerInv, AskInv', NEW q \in asked, Answer(q) PROVE AnswerInv'
  <2>1. \A m \in net' : m \in net \/ Sent(m)
    BY <1>3, AnswerSent DEF AnswerInv
  <2>2. ASSUME NEW p \in Process PROVE At(p)'
    BY <1>3 DEF AnswerInv, At, Answer, locals
  <2> QED BY <1>3, <2>1, <2>2 DEF AnswerInv, Arrives
<1>4. ASSUME AnswerInv, AskInv', UNCHANGED vars PROVE AnswerInv'
  BY <1>4 DEF AnswerInv, At, vars, locals
<1>5. AnswerInv /\ TypeOK /\ AskInv' /\ [Next]_vars => AnswerInv'
  BY <1>2, <1>3, <1>4 DEF Next, Over
<1> QED BY <1>1, <1>5, AskInductive, TypeCorrect, PTL DEF Spec

(* What a process prints answers its own query, never a late answer to an  *)
(* one of another process, for any number of processes that have got       *)
(* different identifiers; a foreign datagram is only taken for the answer  *)
(* if it has the identifier of the process (main.c 153-156).               *)
THEOREM PrintsOwnAnswer == DistinctIds => (Spec => []OwnAnswer)
<1> SUFFICES ASSUME DistinctIds PROVE Spec => []OwnAnswer
  OBVIOUS
<1>1. ASSUME AnswerInv PROVE OwnAnswer
  <2> SUFFICES ASSUME NEW p \in Process, pc[p] \in {"owner", "record"} \/ printed[p] # <<>>
               PROVE  got[p].of = p \/ (got[p].of = None /\ got[p].id = Id(p))
    BY DEF OwnAnswer
  <2>1. got[p].id = Id(p) /\ Arrives(got[p])
    BY <1>1 DEF AnswerInv, At, Local
  <2>2. CASE got[p] \in Stray
    BY <2>1, <2>2, StrayAssumption
  <2>3. CASE Sent(got[p])
    BY <2>1, <2>3 DEF Sent, DistinctIds
  <2> QED BY <2>1, <2>2, <2>3 DEF Arrives
<1> QED BY <1>1, AnswerInductive, PTL

(* The walk over an intact response prints the addresses of its answer     *)
(* section, in order and, if it fits resp, all of them, whatever the names *)
(* and the records are (main.c 112-188).                                   *)
THEOREM PrintsTheAddresses == Spec => []PrintsAnswer
<1>1. ASSUME AnswerInv PROVE PrintsAnswer
  BY <1>1 DEF AnswerInv, At, Local, PrintsAnswer
<1> QED BY <1>1, AnswerInductive, PTL

(* Whatever datagram arrives, however malformed, the fields and the data   *)
(* of a record are read from at most one byte beyond len, so to at most 15 *)
(* beyond; an intact response that fits resp is read within len; and only  *)
(* a name that is too long leaves an array (main.c 45, 51, 121-130,        *)
(* 172-183).                                                               *)
THEOREM StaysInBounds == Spec => []InBounds
<1>1. ASSUME AnswerInv, TypeInv PROVE InBounds
  <2>1. ASSUME NEW p \in Process, pc[p] \in {"record", "undefined"}, got[p] # None
        PROVE  pos[p] <= len(p) + 1
    BY <1>1, <2>1 DEF TypeInv, Cursor
  <2>2. ASSUME NEW p \in Process, pc[p] = "undefined"
        PROVE  Overruns(domain[p]) \/ ~ Intact(got[p]) \/ got[p].len > RespSize
    BY <1>1, <2>2 DEF AnswerInv, At, Local
  <2> QED BY <2>1, <2>2 DEF InBounds
<1> QED BY <1>1, AnswerInductive, TypeInductive, PTL

=============================================================================
