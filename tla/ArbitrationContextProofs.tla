---- MODULE ArbitrationContextProofs ----
(***************************************************************************)
(* Machine-checked proofs about ArbitrationContext, for any numbers of     *)
(* applications, primitives, entries and calls.  TypeOK and ArbInvariant   *)
(* are inductive together.  The proof has four parts: what the walks over  *)
(* the requests return; the requests of one entry, a matter of that entry  *)
(* alone; the life of the entries, by what a step does to the set of       *)
(* holders of each; and the walk of EsifArbMgr_RemoveApp over the table.   *)
(***************************************************************************)
EXTENDS ArbitrationContext, TLAPS, FiniteSetTheorems, WellFoundedInduction

----------------------------------------------------------------------------
(* Sequences, and functions defined by recursion over a number *)

(* Every nonempty set of natural numbers has a least element. *)
LEMMA LeastExists ==
    ASSUME NEW S \in SUBSET Nat, S # {}
    PROVE  \E x \in S : \A y \in S : x <= y
<1> DEFINE R == OpToRel(<, Nat)
<1>1. IsWellFoundedOn(R, Nat)
  BY NatLessThanWellFounded
<1>2. ASSUME NEW y \in Nat, NEW x \in Nat, y < x PROVE <<y, x>> \in R
  BY <1>2 DEF OpToRel
<1> HIDE DEF R
<1>3. PICK x \in S : \A y \in S : ~ (<<y, x>> \in R)
  BY <1>1, WFMin
<1>4. \A y \in S : ~ (y < x)
  BY <1>2, <1>3
<1>5. QED
  BY <1>3, <1>4

(* A set of numbers up to N that has 0 and with a number the next one has all: the form *)
(* in which induction is used below.                                                   *)
LEMMA AllUpTo ==
    ASSUME NEW N \in Nat, NEW G \in SUBSET (0 .. N), 0 \in G,
           \A n \in 1 .. N : n - 1 \in G => n \in G
    PROVE  G = 0 .. N
<1> SUFFICES ASSUME (0 .. N) \ G # {} PROVE FALSE
  OBVIOUS
<1> DEFINE S == (0 .. N) \ G
<1>1. S \in SUBSET Nat /\ S # {}
  OBVIOUS
<1> HIDE DEF S
<1>2. PICK x \in S : \A y \in S : x <= y
  BY <1>1, LeastExists
<1>3. x \in 0 .. N /\ x \notin G /\ x # 0
  BY <1>2 DEF S
<1>4. x - 1 \in 0 .. N /\ x \in 1 .. N
  BY <1>3
<1>5. x - 1 \in G
  <2>1. CASE x - 1 \in S
    BY <1>2, <1>3, <1>4, <2>1
  <2>2. CASE x - 1 \notin S
    BY <1>4, <2>2 DEF S
  <2>3. QED
    BY <2>1, <2>2
<1>6. QED
  BY <1>3, <1>4, <1>5

HasIterate(V, base, N, step) ==
    \E f \in [0 .. N -> V] : f[0] = base /\ \A n \in 1 .. N : f[n] = step[n][f[n - 1]]

(* A value and a step for each number define a function by recursion. *)
LEMMA Iterated ==
    ASSUME NEW V, NEW base \in V, NEW N \in Nat, NEW step \in [1 .. N -> [V -> V]]
    PROVE  HasIterate(V, base, N, step)
<1> DEFINE Good(f, m) == f[0] = base /\ \A n \in 1 .. m : f[n] = step[n][f[n - 1]]
           G == {m \in 0 .. N : \E f \in [0 .. N -> V] : Good(f, m)}
<1>1. 0 \in G
  <2> DEFINE g == [i \in 0 .. N |-> base]
  <2>1. g \in [0 .. N -> V] /\ g[0] = base /\ 1 .. 0 = {} /\ 0 \in 0 .. N
    OBVIOUS
  <2> HIDE DEF g
  <2>2. Good(g, 0)
    BY <2>1
  <2>3. QED
    BY <2>1, <2>2
<1>2. ASSUME NEW m \in 1 .. N, m - 1 \in G PROVE m \in G
  <2>1. PICK f \in [0 .. N -> V] : Good(f, m - 1)
    BY <1>2
  <2> DEFINE g == [i \in 0 .. N |-> IF i = m THEN step[m][f[m - 1]] ELSE f[i]]
  <2>2. m - 1 \in 0 .. N /\ step[m] \in [V -> V] /\ f[m - 1] \in V
    OBVIOUS
  <2>3. g \in [0 .. N -> V]
    BY <2>2
  <2>4. g[0] = base
    BY <2>1
  <2>5. ASSUME NEW n \in 1 .. m PROVE g[n] = step[n][g[n - 1]]
    <3>1. n \in 0 .. N /\ n - 1 \in 0 .. N /\ n - 1 # m
      OBVIOUS
    <3>2. g[n - 1] = f[n - 1]
      BY <3>1
    <3>3. CASE n = m
      BY <3>1, <3>2, <3>3
    <3>4. CASE n # m
      <4>1. n \in 1 .. (m - 1) /\ g[n] = f[n]
        BY <3>1, <3>4
      <4>2. QED
        BY <2>1, <3>2, <4>1
    <3>5. QED
      BY <3>3, <3>4
  <2> HIDE DEF g
  <2>6. Good(g, m)
    BY <2>4, <2>5
  <2>7. QED
    BY <2>3, <2>6
<1>3. N \in G
  <2>1. G \in SUBSET (0 .. N) /\ \A n \in 1 .. N : n - 1 \in G => n \in G
    BY <1>2
  <2> HIDE DEF G
  <2>2. G = 0 .. N
    BY <1>1, <2>1, AllUpTo
  <2>3. QED
    BY <2>2
<1>4. QED
  BY <1>3 DEF HasIterate

(* The length and the domain of a sequence. *)
LEMMA SeqShape ==
    ASSUME NEW S, NEW s \in Seq(S)
    PROVE  /\ Len(s) \in Nat /\ DOMAIN s = 1 .. Len(s) /\ (s = <<>> <=> Len(s) = 0)
           /\ \A i \in 1 .. Len(s) : s[i] \in S
           /\ s # <<>> => 1 \in 1 .. Len(s) /\ Head(s) = s[1]
  OBVIOUS

(* Appending to a sequence. *)
LEMMA Appended ==
    ASSUME NEW S, NEW s \in Seq(S), NEW x \in S
    PROVE  /\ Append(s, x) \in Seq(S) /\ Len(Append(s, x)) = Len(s) + 1
           /\ \A i \in 1 .. Len(s) : Append(s, x)[i] = s[i]
           /\ Append(s, x)[Len(s) + 1] = x
  OBVIOUS

(* Joining two sequences. *)
LEMMA Joined ==
    ASSUME NEW S, NEW s \in Seq(S), NEW t \in Seq(S)
    PROVE  /\ s \o t \in Seq(S) /\ Len(s \o t) = Len(s) + Len(t)
           /\ \A i \in 1 .. Len(s) + Len(t) :
                  (s \o t)[i] = IF i <= Len(s) THEN s[i] ELSE t[i - Len(s)]
  OBVIOUS

(* Inserting into a sequence. *)
LEMMA Inserted ==
    ASSUME NEW S, NEW s \in Seq(S), NEW x \in S, NEW p \in 1 .. Len(s) + 1
    PROVE  /\ InsertAt(s, p, x) \in Seq(S) /\ Len(InsertAt(s, p, x)) = Len(s) + 1
           /\ \A i \in 1 .. Len(s) + 1 : InsertAt(s, p, x)[i] =
                  IF i < p THEN s[i] ELSE IF i = p THEN x ELSE s[i - 1]
<1>1. Len(s) \in Nat /\ p \in Nat
  OBVIOUS
<1> DEFINE l == SubSeq(s, 1, p - 1)
           r == SubSeq(s, p, Len(s))
<1>2. /\ l \in Seq(S) /\ Len(l) = p - 1 /\ \A i \in 1 .. p - 1 : l[i] = s[i]
  BY <1>1
<1>3. /\ r \in Seq(S) /\ Len(r) = Len(s) - p + 1 
      /\ \A i \in 1 .. Len(s) - p + 1 : r[i] = s[p + i - 1]
  BY <1>1
<1>4. InsertAt(s, p, x) = l \o <<x>> \o r
  BY DEF InsertAt
<1> HIDE DEF l, r
<1> DEFINE lx == l \o <<x>>
<1>5. lx \in Seq(S) /\ Len(lx) = p /\ (\A i \in 1 .. p - 1 : lx[i] = s[i]) /\ lx[p] = x
  BY <1>1, <1>2
<1>6. InsertAt(s, p, x) = lx \o r
  BY <1>4
<1> HIDE DEF lx
<1>7. /\ lx \o r \in Seq(S) /\ Len(lx \o r) = Len(s) + 1
      /\ \A i \in 1 .. Len(s) + 1 : (lx \o r)[i] = IF i <= p THEN lx[i] ELSE r[i - p]
  <2>1. Len(lx) + Len(r) = Len(s) + 1
    BY <1>1, <1>3, <1>5
  <2>2. /\ lx \o r \in Seq(S) /\ Len(lx \o r) = Len(lx) + Len(r)
        /\ \A i \in 1 .. Len(lx) + Len(r) :
               (lx \o r)[i] = IF i <= Len(lx) THEN lx[i] ELSE r[i - Len(lx)]
    BY <1>3, <1>5, Joined
  <2>3. QED
    BY <1>5, <2>1, <2>2
<1>8. ASSUME NEW i \in 1 .. Len(s) + 1
      PROVE  (lx \o r)[i] = IF i < p THEN s[i] ELSE IF i = p THEN x ELSE s[i - 1]
  <2>1. CASE i > p
    <3>1. i - p \in 1 .. Len(s) - p + 1 /\ p + (i - p) - 1 = i - 1
      BY <1>1, <2>1
    <3>2. (lx \o r)[i] = r[i - p] /\ ~(i < p) /\ i # p
      BY <1>1, <1>7, <2>1
    <3>3. r[i - p] = s[i - 1]
      BY <1>3, <3>1
    <3>4. QED
      BY <3>2, <3>3
  <2>2. CASE i <= p
    <3>1. (lx \o r)[i] = lx[i]
      BY <1>7, <2>2
    <3>2. i \in 1 .. p - 1 \/ i = p
      BY <1>1, <2>2
    <3>3. QED
      BY <1>1, <1>5, <3>1, <3>2
  <2>3. i > p \/ i <= p
    BY <1>1
  <2>4. QED
    BY <2>1, <2>2, <2>3
<1>9. QED
  BY <1>6, <1>7, <1>8

(* Removing from a sequence. *)
LEMMA Removed ==
    ASSUME NEW S, NEW s \in Seq(S), NEW p \in 1 .. Len(s)
    PROVE  /\ RemoveAt(s, p) \in Seq(S) /\ Len(RemoveAt(s, p)) = Len(s) - 1
           /\ \A i \in 1 .. Len(s) - 1 : RemoveAt(s, p)[i] = IF i < p THEN s[i] ELSE s[i + 1]
<1>1. Len(s) \in Nat /\ p \in Nat
  OBVIOUS
<1> DEFINE l == SubSeq(s, 1, p - 1)
           r == SubSeq(s, p + 1, Len(s))
<1>2. /\ l \in Seq(S) /\ Len(l) = p - 1 /\ \A i \in 1 .. p - 1 : l[i] = s[i]
  BY <1>1
<1>3. /\ r \in Seq(S) /\ Len(r) = Len(s) - p
      /\ \A i \in 1 .. Len(s) - p : r[i] = s[p + i]
  BY <1>1
<1>4. RemoveAt(s, p) = l \o r
  BY DEF RemoveAt
<1> HIDE DEF l, r
<1>5. /\ l \o r \in Seq(S) /\ Len(l \o r) = Len(s) - 1
      /\ \A i \in 1 .. Len(s) - 1 : (l \o r)[i] = IF i <= p - 1 THEN l[i] ELSE r[i - (p - 1)]
  <2>1. Len(l) + Len(r) = Len(s) - 1
    BY <1>1, <1>2, <1>3
  <2>2. /\ l \o r \in Seq(S) /\ Len(l \o r) = Len(l) + Len(r)
        /\ \A i \in 1 .. Len(l) + Len(r) :
               (l \o r)[i] = IF i <= Len(l) THEN l[i] ELSE r[i - Len(l)]
    BY <1>2, <1>3, Joined
  <2>3. QED
    BY <1>2, <2>1, <2>2
<1>6. ASSUME NEW i \in 1 .. Len(s) - 1
      PROVE  (l \o r)[i] = IF i < p THEN s[i] ELSE s[i + 1]
  <2>1. CASE i >= p
    <3>1. i - (p - 1) \in 1 .. Len(s) - p /\ p + (i - (p - 1)) = i + 1
      BY <1>1, <2>1
    <3>2. (l \o r)[i] = r[i - (p - 1)] /\ ~(i < p)
      BY <1>1, <1>5, <2>1
    <3>3. r[i - (p - 1)] = s[i + 1]
      BY <1>3, <3>1
    <3>4. QED
      BY <3>2, <3>3
  <2>2. CASE i < p
    <3>1. (l \o r)[i] = l[i] /\ i \in 1 .. p - 1
      BY <1>1, <1>5, <2>2
    <3>2. QED
      BY <1>2, <2>2, <3>1
  <2>3. i >= p \/ i < p
    BY <1>1
  <2>4. QED
    BY <2>1, <2>2, <2>3
<1>7. QED
  BY <1>4, <1>5, <1>6

----------------------------------------------------------------------------
(* The walks over the requests of an entry *)

(* k is list without the requests of a, in the same order. *)
IsWithout(k, list, a) ==
    /\ k \in Seq(Request)
    /\ \A i \in 1 .. Len(k) : k[i].app # a
    /\ \A j \in 1 .. Len(list) : list[j].app # a => \E i \in 1 .. Len(k) : k[i] = list[j]
    /\ \E f \in [1 .. Len(k) -> 1 .. Len(list)] :
           /\ \A i \in 1 .. Len(k) : k[i] = list[f[i]]
           /\ \A i, j \in 1 .. Len(k) : i < j => f[i] < f[j]

(* The recursion of WithoutApp, as equations. *)
LEMMA WithoutAppEquations ==
    ASSUME NEW list \in Seq(Request), NEW a
    PROVE  \E left \in [0 .. Len(list) -> Seq(Request)] :
               /\ left[0] = <<>>
               /\ \A n \in 1 .. Len(list) : left[n] = IF list[n].app = a THEN left[n - 1]
                                                      ELSE Append(left[n - 1], list[n])
               /\ WithoutApp(list, a) = left[Len(list)]
<1> DEFINE N == Len(list)
           Step(n, v) == IF list[n].app = a THEN v ELSE Append(v, list[n])
           Body(f) == [n \in 0 .. N |-> IF n = 0 THEN <<>>
                                        ELSE IF list[n].app = a THEN f[n - 1]
                                        ELSE Append(f[n - 1], list[n])]
           left == CHOOSE f : f = Body(f)
           step == [n \in 1 .. N |-> [v \in Seq(Request) |-> Step(n, v)]]
<1>1. N \in Nat /\ \A n \in 1 .. N : list[n] \in Request
  OBVIOUS
<1>2. WithoutApp(list, a) = left[N]
  BY DEF WithoutApp
<1>3. <<>> \in Seq(Request)
  OBVIOUS
<1>4. ASSUME NEW n \in 1 .. N, NEW v \in Seq(Request) PROVE Step(n, v) \in Seq(Request)
  <2> HIDE DEF N
  <2>1. list[n] \in Request
    BY <1>1
  <2> HIDE <1>1 
  <2> QED
    BY <2>1, Appended
<1> HIDE DEF Step, N
<1>5. step \in [1 .. N -> [Seq(Request) -> Seq(Request)]]
  BY <1>4
<1>6. PICK g \in [0 .. N -> Seq(Request)] :
          g[0] = <<>> /\ \A n \in 1 .. N : g[n] = step[n][g[n - 1]]
  <2> DEFINE V == Seq(Request)
             none == <<>>
  <2>1. none \in V /\ step \in [1 .. N -> [V -> V]]
    BY <1>3, <1>5
  <2> HIDE DEF V, none, step
  <2>2. HasIterate(V, none, N, step)
    BY <1>1, <2>1, Iterated
  <2>3. QED
    BY <2>2 DEF V, none, HasIterate
<1>7. ASSUME NEW n \in 1 .. N PROVE n - 1 \in 0 .. N /\ g[n] = Step(n, g[n - 1])
  <2>1. n - 1 \in 0 .. N
    BY <1>1
  <2>2. g[n - 1] \in Seq(Request)
    BY <2>1
  <2> HIDE DEF Body, left
  <2>3. step[n][g[n - 1]] = Step(n, g[n - 1])
    BY <2>2
  <2>4. QED
    BY <1>6, <2>1, <2>3
<1>8. g = Body(g)
  <2>1. ASSUME NEW n \in 0 .. N PROVE g[n] = Body(g)[n]
    <3>1. CASE n = 0
      BY <1>6, <3>1
    <3>2. CASE n # 0
      <4>1. n \in 1 .. N
        BY <1>1, <3>2
      <4>2. QED
        BY <1>7, <3>2, <4>1 DEF Step
    <3>3. QED
      BY <3>1, <3>2
  <2> HIDE DEF Body
  <2>2. Body(g) = [n \in 0 .. N |-> Body(g)[n]]
    BY DEF Body
  <2>3. QED
    BY <2>1, <2>2
<1>9. left = Body(left)
  <2> HIDE DEF Body
  <2> QED
    BY <1>8
<1> HIDE DEF left
<1>10. left[0] = <<>>
  BY <1>1, <1>9
<1>11. ASSUME NEW n \in 1 .. N PROVE left[n] = Step(n, left[n - 1])
  <2>1. n \in 0 .. N /\ n # 0
    BY <1>1
  <2>2. left[n] = Body(left)[n]
    BY <1>9
  <2>3. QED
    BY <2>1, <2>2 DEF Step
<1>12. left \in [0 .. N -> Seq(Request)]
  <2> DEFINE G == {n \in 0 .. N : left[n] \in Seq(Request)}
  <2>1. 0 \in G
    <3>1. 0 \in 0 .. N
      BY <1>1
    <3>2. QED
      BY <1>3, <1>10, <3>1
  <2>2. ASSUME NEW n \in 1 .. N, n - 1 \in G PROVE n \in G
    BY <1>1, <1>4, <1>11, <2>2
  <2>3. G = 0 .. N
    <3>1. G \in SUBSET (0 .. N)
      OBVIOUS
    <3> HIDE DEF G
    <3>2. QED
      BY <1>1, <2>1, <2>2, <3>1, AllUpTo
  <2>4. DOMAIN left = 0 .. N /\ left = [n \in 0 .. N |-> left[n]]
    <3>1. Body(left) = [n \in 0 .. N |-> Body(left)[n]]
      OBVIOUS
    <3> HIDE DEF Body
    <3> QED
      BY <1>9, <3>1
  <2>5. QED
    BY <2>3, <2>4
<1>13. QED
  BY <1>2, <1>10, <1>11, <1>12 DEF N, Step

(* WithoutApp drops the application's requests and keeps the others in their order. *)
LEMMA WithoutAppIs ==
    ASSUME NEW list \in Seq(Request), NEW a
    PROVE  IsWithout(WithoutApp(list, a), list, a)
<1> DEFINE N == Len(list)
           Part(k, n) ==
               /\ k \in Seq(Request)
               /\ \A i \in 1 .. Len(k) : k[i].app # a
               /\ \A j \in 1 .. n : list[j].app # a => \E i \in 1 .. Len(k) : k[i] = list[j]
               /\ \E f \in [1 .. Len(k) -> 1 .. n] :
                      /\ \A i \in 1 .. Len(k) : k[i] = list[f[i]]
                      /\ \A i, j \in 1 .. Len(k) : i < j => f[i] < f[j]
<1>1. N \in Nat /\ \A n \in 1 .. N : list[n] \in Request
  OBVIOUS
<1>2. PICK left \in [0 .. N -> Seq(Request)] :
          /\ left[0] = <<>>
          /\ \A n \in 1 .. N : left[n] = IF list[n].app = a THEN left[n - 1]
                                         ELSE Append(left[n - 1], list[n])
          /\ WithoutApp(list, a) = left[N]
  BY WithoutAppEquations
<1> HIDE DEF N
<1> DEFINE G == {n \in 0 .. N : Part(left[n], n)}
<1>3. 0 \in G
  <2>1. Len(left[0]) = 0 /\ 1 .. 0 = {} /\ left[0] \in Seq(Request) /\ 0 \in 0 .. N
    BY <1>1, <1>2
  <2>2. [i \in {} |-> 0] \in [1 .. 0 -> 1 .. 0]
    BY <2>1
  <2>3. QED
    BY <2>1, <2>2
<1>4. ASSUME NEW n \in 1 .. N, n - 1 \in G PROVE n \in G
  <2> DEFINE k == left[n - 1]
             m == Len(k)
  <2>1. n \in 0 .. N /\ n \in Nat /\ n - 1 \in Nat /\ n - 1 \in 0 .. N
    BY <1>1
  <2>2. Part(k, n - 1)
    BY <1>4
  <2>3. k \in Seq(Request) /\ m \in Nat /\ list[n] \in Request
    BY <1>1, <2>2
  <2>4. PICK f \in [1 .. m -> 1 .. n - 1] :
            /\ \A i \in 1 .. m : k[i] = list[f[i]]
            /\ \A i, j \in 1 .. m : i < j => f[i] < f[j]
    BY <2>2
  <2>5. CASE list[n].app = a
    <3>1. left[n] = k
      BY <1>2, <2>5
    <3> HIDE DEF k, m
    <3>2. f \in [1 .. m -> 1 .. n]
      BY <2>1, <2>3
    <3>3. \A j \in 1 .. n : list[j].app # a => \E i \in 1 .. m : k[i] = list[j]
      <4>1. \A j \in 1 .. n : j = n \/ j \in 1 .. n - 1
        BY <2>1
      <4>2. QED
        BY <2>2, <2>5, <4>1 DEF m
    <3>4. Part(k, n)
      BY <2>2, <2>4, <3>2, <3>3 DEF m
    <3>5. QED
      BY <2>1, <3>1, <3>4
  <2>6. CASE list[n].app # a
    <3> DEFINE h == Append(k, list[n])
               g == [i \in 1 .. m + 1 |-> IF i = m + 1 THEN n ELSE f[i]]
    <3>1. left[n] = h
      BY <1>2, <2>6
    <3>2. /\ h \in Seq(Request) /\ Len(h) = m + 1 /\ h[m + 1] = list[n]
          /\ \A i \in 1 .. m : h[i] = k[i]
      <4> HIDE DEF k
      <4> QED
        BY <2>3, Appended
    <3> HIDE DEF h, k, m
    <3>3. \A i \in 1 .. m + 1 : i = m + 1 \/ i \in 1 .. m
      BY <2>3
    <3>4. \A i \in 1 .. m : i \in 1 .. m + 1 /\ i # m + 1 /\ f[i] \in 1 .. n - 1
      BY <2>3
    <3>5. m + 1 \in 1 .. m + 1 /\ \A j \in 1 .. n - 1 : j \in 1 .. n /\ j < n
      BY <2>1, <2>3
    <3>6. g \in [1 .. m + 1 -> 1 .. n]
      BY <2>1, <3>3, <3>4, <3>5
    <3>7. g[m + 1] = n /\ \A i \in 1 .. m : g[i] = f[i]
      BY <3>4, <3>5
    <3> HIDE DEF g
    <3>8. \A i \in 1 .. m + 1 : h[i] = list[g[i]]
      BY <2>4, <3>2, <3>3, <3>7
    <3>9. \A i, j \in 1 .. m + 1 : i < j => g[i] < g[j]
      <4> SUFFICES ASSUME NEW i \in 1 .. m + 1, NEW j \in 1 .. m + 1, i < j PROVE g[i] < g[j]
        OBVIOUS
      <4>1. i \in 1 .. m
        BY <2>3, <3>3
      <4>2. CASE j = m + 1
        BY <3>4, <3>5, <3>7, <4>1, <4>2
      <4>3. CASE j \in 1 .. m
        BY <2>4, <3>7, <4>1, <4>3
      <4>4. QED
        BY <3>3, <4>2, <4>3
    <3>10. \A i \in 1 .. m + 1 : h[i].app # a
      BY <2>2, <2>6, <3>2, <3>3 DEF m
    <3>11. ASSUME NEW j \in 1 .. n, list[j].app # a PROVE \E i \in 1 .. m + 1 : h[i] = list[j]
      <4>1. CASE j = n
        BY <3>2, <3>5, <4>1
      <4>2. CASE j \in 1 .. n - 1
        BY <2>2, <3>2, <3>4, <3>11, <4>2 DEF m
      <4>3. QED
        BY <2>1, <4>1, <4>2
    <3>12. Part(h, n)
      BY <3>2, <3>6, <3>8, <3>9, <3>10, <3>11
    <3>13. QED
      BY <2>1, <3>1, <3>12
  <2>7. QED
    BY <2>5, <2>6
<1>5. N \in G
  <2>1. G \in SUBSET (0 .. N)
    OBVIOUS
  <2> HIDE DEF G
  <2>2. G = 0 .. N
    BY <1>1, <1>3, <1>4, <2>1, AllUpTo
  <2>3. QED
    BY <1>1, <2>2
<1>6. Part(left[N], N)
  BY <1>5
<1>7. QED
  BY <1>2, <1>6 DEF IsWithout, N

(* Every request of k that is not of the application a is one of list. *)
From(k, list, a) ==
    \A i \in 1 .. Len(k) : k[i].app # a => \E j \in 1 .. Len(list) : k[i] = list[j]

LEMMA PrecedesTransitive ==
    ASSUME NEW type \in ArbType, NEW x \in Value \cup {Short}, NEW y \in Value \cup {Short},
           NEW z \in Value \cup {Short}, Precedes(type, x, y), Precedes(type, y, z)
    PROVE  Precedes(type, x, z)
  BY ArbAssumption DEF Precedes, Value, ArbType

(* A shorter list in the same order is arranged as well. *)
LEMMA WithoutArranged ==
    ASSUME NEW list \in Seq(Request), NEW a, NEW type, NEW k, IsWithout(k, list, a),
           Arranged(list, type)
    PROVE  Arranged(k, type)
<1>1. PICK f \in [1 .. Len(k) -> 1 .. Len(list)] :
          /\ \A i \in 1 .. Len(k) : k[i] = list[f[i]]
          /\ \A i, j \in 1 .. Len(k) : i < j => f[i] < f[j]
  BY DEF IsWithout
<1> SUFFICES ASSUME NEW i \in 1 .. Len(k), NEW j \in 1 .. Len(k), i < j
             PROVE  k[i].app # k[j].app /\ ~Precedes(type, k[j].val, k[i].val)
  BY DEF Arranged
<1>2. f[i] \in 1 .. Len(list) /\ f[j] \in 1 .. Len(list) /\ f[i] < f[j]
  BY <1>1
<1>3. k[i] = list[f[i]] /\ k[j] = list[f[j]]
  BY <1>1
<1>4. QED
  BY <1>2, <1>3 DEF Arranged

(* ArbitrateRequest puts the request in its place and keeps the order. *)
LEMMA ArbitrateIs ==
    ASSUME NEW list \in Seq(Request), NEW type \in ArbType, NEW req \in Request,
           Arranged(list, type)
    PROVE  /\ ArbitrateRequest(list, type, req) \in Seq(Request)
           /\ Arranged(ArbitrateRequest(list, type, req), type)
           /\ From(ArbitrateRequest(list, type, req), list, req.app)
           /\ \A i \in 1 .. Len(ArbitrateRequest(list, type, req)) :
                  ArbitrateRequest(list, type, req)[i].app = req.app
                      => ArbitrateRequest(list, type, req)[i] = req
<1> DEFINE k     == WithoutApp(list, req.app)
           worse == {i \in DOMAIN k : Precedes(type, req.val, k[i].val)}
           place == IF worse = {} THEN Len(k) + 1
                    ELSE CHOOSE i \in worse : \A j \in worse : i <= j
           new   == InsertAt(k, place, req)
<1>1. ArbitrateRequest(list, type, req) = new
  BY DEF ArbitrateRequest
<1>2. IsWithout(k, list, req.app)
  BY WithoutAppIs
<1> HIDE DEF k
<1>3. k \in Seq(Request) /\ Arranged(k, type)
  BY <1>2, WithoutArranged DEF IsWithout
<1>4. Len(k) \in Nat /\ DOMAIN k = 1 .. Len(k) /\ \A i \in 1 .. Len(k) : k[i] \in Request
  BY <1>3, SeqShape
<1>5. /\ place \in 1 .. Len(k) + 1
      /\ \A i \in 1 .. Len(k) : i < place => ~Precedes(type, req.val, k[i].val)
      /\ place # Len(k) + 1 => place \in 1 .. Len(k) /\ Precedes(type, req.val, k[place].val)
  <2>1. CASE worse = {}
    BY <1>4, <2>1
  <2>2. CASE worse # {}
    <3>1. worse \in SUBSET Nat
      BY <1>4
    <3>2. \E x \in worse : \A y \in worse : x <= y
      BY <2>2, <3>1, LeastExists
    <3>3. place \in worse /\ \A y \in worse : place <= y
      BY <2>2, <3>2
    <3> HIDE DEF place
    <3>4. place \in 1 .. Len(k) /\ Precedes(type, req.val, k[place].val)
      BY <1>4, <3>3
    <3>5. ASSUME NEW i \in 1 .. Len(k), i < place, Precedes(type, req.val, k[i].val) PROVE FALSE
      <4>1. i \in worse
        BY <1>4, <3>5
      <4>2. QED
        BY <1>4, <3>3, <3>4, <3>5, <4>1
    <3>6. QED
      BY <1>4, <3>4, <3>5
  <2>3. QED
    BY <2>1, <2>2
<1> HIDE DEF place, worse
<1>6. /\ new \in Seq(Request) /\ Len(new) = Len(k) + 1
      /\ \A i \in 1 .. Len(k) + 1 : new[i] = IF i < place THEN k[i] ELSE IF i = place THEN req
                                              ELSE k[i - 1]
  BY <1>3, <1>5, Inserted
<1> HIDE DEF new
<1>7. \A i \in 1 .. Len(k) : k[i].app # req.app /\ k[i].val \in Value \cup {Short}
  <2>1. \A i \in 1 .. Len(k) : k[i].app # req.app
    BY <1>2 DEF IsWithout
  <2>2. \A r \in Request : r.val \in Value \cup {Short}
    BY DEF Request
  <2>3. QED
    BY <1>4, <2>1, <2>2
<1>8. /\ \A i \in 1 .. Len(k) + 1 : i < place => i \in 1 .. Len(k) /\ new[i] = k[i]
      /\ new[place] = req
      /\ \A i \in 1 .. Len(k) + 1 : i > place => i - 1 \in 1 .. Len(k) /\ new[i] = k[i - 1]
                                                /\ place <= i - 1
  BY <1>4, <1>5, <1>6
<1>9. ASSUME NEW i \in 1 .. Len(new), NEW j \in 1 .. Len(new), i < j
      PROVE  new[i].app # new[j].app /\ ~Precedes(type, new[j].val, new[i].val)
  <2>1. i \in 1 .. Len(k) + 1 /\ j \in 1 .. Len(k) + 1
    BY <1>6
  <2>2. CASE j < place
    <3>1. i < place
      BY <1>4, <1>5, <1>9, <2>1, <2>2
    <3>2. QED
      BY <1>3, <1>8, <1>9, <2>1, <2>2, <3>1 DEF Arranged
  <2>3. CASE j = place
    BY <1>5, <1>7, <1>8, <1>9, <2>1, <2>3
  <2>4. CASE j > place /\ i < place
    <3>1. i < j - 1 /\ i \in 1 .. Len(k) /\ j - 1 \in 1 .. Len(k) /\ new[i] = k[i] /\ new[j] = k[j - 1]
      BY <1>4, <1>5, <1>8, <2>1, <2>4
    <3>2. QED
      BY <1>3, <3>1 DEF Arranged
  <2>5. CASE i > place
    <3>1. j > place /\ i - 1 < j - 1
      BY <1>4, <1>5, <1>9, <2>1, <2>5
    <3>2. i - 1 \in 1 .. Len(k) /\ j - 1 \in 1 .. Len(k) /\ new[i] = k[i - 1] /\ new[j] = k[j - 1]
      BY <1>8, <2>1, <2>5, <3>1
    <3>3. QED
      BY <1>3, <3>1, <3>2 DEF Arranged
  <2>6. CASE j > place /\ i = place
    <3> DEFINE n == j - 1
    <3>1. n \in 1 .. Len(k) /\ new[j] = k[n] /\ place <= n /\ new[i] = req
      BY <1>8, <2>1, <2>6
    <3>2. place \in 1 .. Len(k) /\ Precedes(type, req.val, k[place].val)
      BY <1>4, <1>5, <3>1
    <3> HIDE DEF n
    <3>3. new[i].app # new[j].app
      BY <1>7, <3>1
    <3>4. ASSUME Precedes(type, k[n].val, req.val) PROVE FALSE
      <4>1. req.val \in Value \cup {Short}
        BY DEF Request
      <4>2. Precedes(type, k[n].val, k[place].val)
        BY <1>7, <3>1, <3>2, <3>4, <4>1, PrecedesTransitive
      <4>3. CASE n = place
        <5>1. ~Precedes(type, k[n].val, k[n].val)
          BY <1>7, <3>1, ArbAssumption DEF Precedes, Value
        <5>2. QED
          BY <4>2, <4>3, <5>1
      <4>4. CASE n # place
        <5>1. place < n
          BY <1>4, <3>1, <3>2, <4>4
        <5>2. QED
          BY <1>3, <3>1, <3>2, <4>2, <5>1 DEF Arranged
      <4>5. QED
        BY <4>3, <4>4
    <3>5. QED
      BY <3>1, <3>3, <3>4
  <2>7. j < place \/ j = place \/ (j > place /\ i < place) \/ i > place \/ (j > place /\ i = place)
    BY <1>4, <1>5, <1>9, <2>1
  <2>8. QED
    BY <2>2, <2>3, <2>4, <2>5, <2>6, <2>7
<1>10. ASSUME NEW i \in 1 .. Len(new)
       PROVE  new[i] = req \/ \E j \in 1 .. Len(k) : new[i] = k[j]
  <2>1. i \in 1 .. Len(k) + 1 /\ (i < place \/ i = place \/ i > place)
    BY <1>4, <1>5, <1>6
  <2>2. QED
    BY <1>8, <2>1
<1>11. \A j \in 1 .. Len(k) : \E m \in 1 .. Len(list) : k[j] = list[m]
  <2>1. PICK f \in [1 .. Len(k) -> 1 .. Len(list)] : \A i \in 1 .. Len(k) : k[i] = list[f[i]]
    BY <1>2 DEF IsWithout
  <2>2. QED
    BY <2>1
<1>12. Arranged(new, type)
  BY <1>9 DEF Arranged
<1>13. From(new, list, req.app)
  BY <1>10, <1>11 DEF From
<1>14. \A i \in 1 .. Len(new) : new[i].app = req.app => new[i] = req
  BY <1>7, <1>10
<1>15. QED
  BY <1>1, <1>6, <1>12, <1>13, <1>14

(* RearbitrateRequests arranges the same requests for the new function. *)
LEMMA RearbitrateIs ==
    ASSUME NEW list \in Seq(Request), NEW type \in ArbType
    PROVE  /\ RearbitrateRequests(list, type) \in Seq(Request)
           /\ Arranged(RearbitrateRequests(list, type), type)
           /\ From(RearbitrateRequests(list, type), list, None)
           /\ list = <<>> => RearbitrateRequests(list, type) = <<>>
<1> DEFINE N == Len(list)
           V == {s \in Seq(Request) : Arranged(s, type)}
           Step(n, v) == ArbitrateRequest(v, type, list[n])
           Body(f) == [n \in 0 .. N |-> IF n = 0 THEN <<>>
                                        ELSE ArbitrateRequest(f[n - 1], type, list[n])]
           again == CHOOSE f : f = Body(f)
           step == [n \in 1 .. N |-> [v \in V |-> Step(n, v)]]
           none == <<>>
<1>1. N \in Nat /\ (\A n \in 1 .. N : list[n] \in Request) /\ (list = <<>> => N = 0)
  OBVIOUS
<1>2. RearbitrateRequests(list, type) = again[N]
  BY DEF RearbitrateRequests
<1>3. none \in V
  <2>1. none \in Seq(Request) /\ Len(none) = 0
    OBVIOUS
  <2>2. Arranged(none, type)
    BY <2>1 DEF Arranged
  <2>3. QED
    BY <2>1, <2>2
<1>4. ASSUME NEW n \in 1 .. N, NEW v \in V
      PROVE  /\ Step(n, v) \in V /\ From(Step(n, v), v, list[n].app)
             /\ \A i \in 1 .. Len(Step(n, v)) : Step(n, v)[i].app = list[n].app => Step(n, v)[i] = list[n]
  <2>1. list[n] \in Request /\ v \in Seq(Request) /\ Arranged(v, type)
    BY <1>1
  <2>2. QED
    BY <2>1, ArbitrateIs
<1> HIDE DEF N
<1>5. none \in V /\ step \in [1 .. N -> [V -> V]]
  <2> HIDE DEF Step, V
  <2> QED
    BY <1>3, <1>4
<1>6. HasIterate(V, none, N, step)
  <2> HIDE DEF V, none, step
  <2> QED
    BY <1>1, <1>5, Iterated
<1>7. PICK g \in [0 .. N -> V] : g[0] = none /\ \A n \in 1 .. N : g[n] = step[n][g[n - 1]]
  <2> HIDE DEF V, none, step
  <2> QED
    BY <1>6 DEF HasIterate
<1> HIDE DEF V
<1>8. ASSUME NEW n \in 1 .. N PROVE n - 1 \in 0 .. N /\ g[n] = Step(n, g[n - 1])
  <2>1. n - 1 \in 0 .. N
    BY <1>1
  <2>2. g[n - 1] \in V
    BY <2>1
  <2> HIDE DEF Body, again, Step
  <2>3. step[n][g[n - 1]] = Step(n, g[n - 1])
    BY <2>2
  <2>4. QED
    BY <1>7, <2>1, <2>3
<1>9. g = Body(g)
  <2>1. ASSUME NEW n \in 0 .. N PROVE g[n] = Body(g)[n]
    <3>1. CASE n = 0
      BY <1>7, <3>1
    <3>2. CASE n # 0
      <4>1. n \in 1 .. N
        BY <1>1, <3>2
      <4>2. QED
        BY <1>8, <3>2, <4>1
    <3>3. QED
      BY <3>1, <3>2
  <2> HIDE DEF Body
  <2>2. Body(g) = [n \in 0 .. N |-> Body(g)[n]]
    BY DEF Body
  <2>3. QED
    BY <2>1, <2>2
<1>10. again = Body(again)
  <2> HIDE DEF Body
  <2> QED
    BY <1>9
<1> HIDE DEF again
<1>11. again[0] = none /\ 0 \in 0 .. N
  BY <1>1, <1>10
<1>12. ASSUME NEW n \in 1 .. N PROVE n \in 0 .. N /\ again[n] = Step(n, again[n - 1])
  <2>1. n \in 0 .. N /\ n # 0
    BY <1>1
  <2>2. again[n] = Body(again)[n]
    BY <1>10
  <2>3. QED
    BY <2>1, <2>2
<1> HIDE DEF Step
<1> DEFINE G == {n \in 0 .. N : again[n] \in V /\ From(again[n], list, None)}
<1>13. 0 \in G
  <2>1. Len(none) = 0
    OBVIOUS
  <2>2. From(none, list, None)
    BY <2>1 DEF From
  <2> HIDE DEF none
  <2>3. QED
    BY <1>3, <1>11, <2>2
<1>14. ASSUME NEW n \in 1 .. N, n - 1 \in G PROVE n \in G
  <2> DEFINE v == again[n - 1]
             w == again[n]
  <2>1. v \in V /\ From(v, list, None)
    BY <1>14
  <2>2. /\ w \in V /\ From(w, v, list[n].app) /\ n \in 0 .. N
        /\ \A i \in 1 .. Len(w) : w[i].app = list[n].app => w[i] = list[n]
    BY <1>4, <1>12, <2>1
  <2>3. ASSUME NEW i \in 1 .. Len(w), w[i].app # None
        PROVE  \E j \in 1 .. Len(list) : w[i] = list[j]
    <3> HIDE DEF v, w
    <3>1. CASE w[i].app = list[n].app
      BY <2>2, <3>1 DEF N
    <3>2. CASE w[i].app # list[n].app
      <4>1. PICK j \in 1 .. Len(v) : w[i] = v[j]
        BY <2>2, <3>2 DEF From
      <4>2. QED
        BY <2>1, <2>3, <4>1 DEF From
    <3>3. QED
      BY <3>1, <3>2
  <2>4. From(w, list, None)
    BY <2>3 DEF From
  <2>5. QED
    BY <2>2, <2>4
<1>15. N \in G
  <2>1. G \in SUBSET (0 .. N)
    OBVIOUS
  <2> HIDE DEF G
  <2>2. G = 0 .. N
    BY <1>1, <1>13, <1>14, <2>1, AllUpTo
  <2>3. QED
    BY <1>1, <2>2
<1>16. CASE list = <<>>
  <2>1. N = 0
    BY <1>1, <1>16
  <2>2. QED
    BY <1>2, <1>11, <1>15, <2>1 DEF V
<1>17. CASE list # <<>>
  BY <1>2, <1>15, <1>17 DEF V
<1>18. QED
  BY <1>16, <1>17

(* If the winner has not changed it is the same request as before. *)
LEMMA SameWinner ==
    ASSUME NEW list \in Seq(Request), NEW type, Arranged(list, type), NEW k \in Seq(Request),
           NEW a, From(k, list, a), ~WinnerChanged(list, k, a), k # <<>>
    PROVE  list # <<>> /\ Head(k) = Head(list)
<1>1. list # <<>> /\ Head(list).app = Head(k).app /\ Head(k).app # a
  BY DEF WinnerChanged
<1>2. 1 \in 1 .. Len(k) /\ Head(k) = k[1] /\ 1 \in 1 .. Len(list) /\ Head(list) = list[1]
  BY <1>1, SeqShape
<1>3. PICK j \in 1 .. Len(list) : k[1] = list[j]
  BY <1>1, <1>2 DEF From
<1>4. CASE j = 1
  BY <1>1, <1>2, <1>3, <1>4
<1>5. CASE j # 1
  <2>1. 1 < j
    BY <1>5
  <2>2. list[1].app # list[j].app
    BY <1>2, <2>1 DEF Arranged
  <2>3. QED
    BY <1>1, <1>2, <1>3, <2>2
<1>6. QED
  BY <1>4, <1>5

----------------------------------------------------------------------------
(* The requests of the entries *)

(* RequestsOrdered and WinnerCommanded for one entry and the value last queued for it. *)
EntryOK(en, value) ==
    /\ Arranged(en.reqs, en.type)
    /\ ~en.enabled => en.reqs = <<>>
    /\ en.state = "live" /\ en.reqs # <<>> => value = Limited(en, Head(en.reqs).val)

(* A step that leaves the requests of an entry, and what they are subject to, alone. *)
SameReqs(e) ==
    /\ entry'[e].reqs = entry[e].reqs /\ entry'[e].type = entry[e].type
    /\ entry'[e].upper = entry[e].upper /\ entry'[e].lower = entry[e].lower
    /\ entry'[e].enabled = entry[e].enabled
    /\ entry'[e].state = "live" => entry[e].state = "live"
    /\ commanded'[e] = commanded[e]

(* The requests are a matter of each entry alone. *)
LEMMA ReqsPreserved ==
    ASSUME RequestsOrdered, WinnerCommanded,
           \A e \in Entries : SameReqs(e) \/ EntryOK(entry'[e], commanded'[e])
    PROVE  RequestsOrdered' /\ WinnerCommanded'
<1> SUFFICES ASSUME NEW e \in Entries PROVE EntryOK(entry'[e], commanded'[e])
  BY DEF RequestsOrdered, WinnerCommanded, EntryOK
<1>1. CASE SameReqs(e)
  <2>1. EntryOK(entry[e], commanded[e])
    BY DEF RequestsOrdered, WinnerCommanded, EntryOK
  <2>2. \A v : Limited(entry'[e], v) = Limited(entry[e], v)
    BY <1>1 DEF SameReqs, Limited
  <2>3. QED
    BY <1>1, <2>1, <2>2 DEF SameReqs, EntryOK
<1>2. QED
  BY <1>1

----------------------------------------------------------------------------
(* The life of the entries *)

SameLife(e) ==
    /\ entry'[e].state = entry[e].state /\ entry'[e].ref = entry[e].ref
    /\ entry'[e].marked = entry[e].marked /\ entry'[e].deleteEvent = entry[e].deleteEvent

(* A step of the thread t: the others stay where they are. *)
StepOf(t) ==
    \A u \in Threads \ {t} : pc'[u] = pc[u] /\ ptr'[u] = ptr[u] /\ arg'[u] = arg[u]
                            /\ index'[u] = index[u]

LEMMA HoldersOthers ==
    ASSUME NEW t \in Threads, StepOf(t), NEW e
    PROVE  Holders(e)' = (Holders(e) \ {t})
                             \cup (IF ptr'[t] = e /\ pc'[t] \in Counted THEN {t} ELSE {})
  BY DEF Holders, StepOf, Counted

(* One more reference to an unmarked entry. *)
LEMMA AccountedTake ==
    ASSUME NEW en, NEW new, NEW H, NEW t, t \notin H, Accounted(en, H), en.state = "live", ~en.marked,
           new.ref = en.ref + 1, ~new.marked, new.deleteEvent = en.deleteEvent
    PROVE  Accounted(new, H \cup {t})
<1>1. IsFiniteSet(H) /\ en.ref = Cardinality(H) + 1 /\ ~en.deleteEvent
  BY DEF Accounted
<1>2. IsFiniteSet(H \cup {t}) /\ Cardinality(H \cup {t}) = Cardinality(H) + 1 /\ Cardinality(H) \in Nat
  BY <1>1, FS_AddElement, FS_CardinalityType
<1>3. new.ref = Cardinality(H \cup {t}) + 1
  BY <1>1, <1>2
<1>4. QED
  BY <1>1, <1>2, <1>3 DEF Accounted

(* One reference less; the last one to a marked entry sets its delete event. *)
LEMMA AccountedGive ==
    ASSUME NEW en \in EntryType, NEW H, NEW t \in H, Accounted(en, H), en.state = "live"
    PROVE  Accounted(PutRef(en), H \ {t})
<1> DEFINE new == PutRef(en)
           last == en.ref = 1 /\ en.marked
<1>1. /\ new.state = en.state /\ new.ref = en.ref - 1 /\ new.marked = en.marked
      /\ new.deleteEvent <=> en.deleteEvent \/ last
  BY DEF PutRef, EntryType
<1>2. /\ IsFiniteSet(H) /\ en.ref = Cardinality(H) + (IF en.marked THEN 0 ELSE 1)
      /\ ~en.deleteEvent
  BY DEF Accounted
<1>3. /\ IsFiniteSet(H \ {t}) /\ Cardinality(H \ {t}) = Cardinality(H) - 1 /\ Cardinality(H) \in Nat
      /\ Cardinality(H \ {t}) = 0 <=> H \ {t} = {}
  BY <1>2, FS_RemoveElement, FS_CardinalityType, FS_EmptySet
<1> HIDE DEF new
<1>4. new.ref = Cardinality(H \ {t}) + (IF new.marked THEN 0 ELSE 1)
  BY <1>1, <1>2, <1>3
<1>5. last <=> en.marked /\ Cardinality(H \ {t}) = 0
  BY <1>2, <1>3
<1>6. new.deleteEvent <=> new.marked /\ H \ {t} = {}
  BY <1>1, <1>2, <1>3, <1>5
<1>7. Accounted(new, H \ {t})
  BY <1>3, <1>4, <1>6 DEF Accounted
<1>8. QED
  BY <1>7 DEF new

(* EsifArbEntry_Destroy gives up the table's reference. *)
LEMMA AccountedDestroy ==
    ASSUME NEW en \in EntryType, NEW H, Accounted(en, H), en.state = "live", ~en.marked
    PROVE  Accounted(PutRef([en EXCEPT !.marked = TRUE]), H)
<1> DEFINE new == PutRef([en EXCEPT !.marked = TRUE])
<1>1. /\ new.state = en.state /\ new.ref = en.ref - 1 /\ new.marked
      /\ new.deleteEvent <=> en.deleteEvent \/ en.ref = 1
  BY DEF PutRef, EntryType
<1>2. IsFiniteSet(H) /\ en.ref = Cardinality(H) + 1 /\ ~en.deleteEvent
  BY DEF Accounted
<1>3. Cardinality(H) \in Nat /\ (Cardinality(H) = 0 <=> H = {})
  BY <1>2, FS_CardinalityType, FS_EmptySet
<1> HIDE DEF new
<1>4. new.ref = Cardinality(H) /\ (new.deleteEvent <=> H = {})
  BY <1>1, <1>2, <1>3
<1>5. Accounted(new, H)
  BY <1>1, <1>2, <1>3, <1>4 DEF Accounted
<1>6. QED
  BY <1>5 DEF new

(* A new entry has the table's reference. *)
LEMMA AccountedNew ==
    ASSUME NEW en, en.ref = 1, ~en.marked, ~en.deleteEvent
    PROVE  Accounted(en, {})
  BY FS_EmptySet DEF Accounted

LEMMA LifeUnmoved ==
    ASSUME LifeOK, NEW t \in Threads, StepOf(t), ptr'[t] = ptr[t], 
           ptr[t] # None => (pc'[t] \in Counted <=> pc[t] \in Counted), None \notin Entries,
           ptr \in [Threads -> Entries \cup {None}], \A e \in Entries : SameLife(e)
    PROVE  LifeOK'
<1>1. ASSUME NEW e \in Entries PROVE Holders(e)' = Holders(e)
  BY HoldersOthers DEF Holders
<1>2. ASSUME NEW e \in Entries PROVE Accounted(entry[e], Holders(e))'
  <2>1. Accounted(entry[e], Holders(e)) /\ SameLife(e)
    BY DEF LifeOK
  <2>2. QED
    BY <1>1, <2>1 DEF Accounted, SameLife
<1>3. ASSUME NEW u \in Threads, ptr'[u] # None PROVE entry'[ptr'[u]].state = "live"
  <2>1. ptr'[u] = ptr[u] /\ ptr[u] \in Entries
    BY <1>3 DEF StepOf
  <2>2. QED
    BY <1>3, <2>1 DEF LifeOK, SameLife
<1>4. QED
  BY <1>2, <1>3 DEF LifeOK

LEMMA LifeTaken ==
    ASSUME LifeOK, NEW t \in Threads, StepOf(t), NEW e \in Entries,
           ptr[t] = None, ptr'[t] = e, pc'[t] \in Counted, None \notin Entries,
           ptr \in [Threads -> Entries \cup {None}],
           entry[e].state = "live", ~entry[e].marked,
           entry'[e].state = "live", ~entry'[e].marked, entry'[e].ref = entry[e].ref + 1,
           entry'[e].deleteEvent = entry[e].deleteEvent,
           \A x \in Entries \ {e} : SameLife(x)
    PROVE  LifeOK'
<1>1. ASSUME NEW x \in Entries PROVE Holders(x)' = IF x = e THEN Holders(e) \cup {t} ELSE Holders(x)
  BY HoldersOthers DEF Holders
<1>2. ASSUME NEW x \in Entries PROVE Accounted(entry[x], Holders(x))'
  <2>1. Accounted(entry[x], Holders(x))
    BY DEF LifeOK
  <2>2. CASE x = e
    <3>1. t \notin Holders(e)
      BY DEF Holders
    <3>2. Accounted(entry'[e], Holders(e) \cup {t})
      BY <2>1, <2>2, <3>1, AccountedTake
    <3>3. QED
      BY <1>1, <2>2, <3>2 DEF Accounted
  <2>3. CASE x # e
    BY <1>1, <2>1, <2>3 DEF Accounted, SameLife
  <2>4. QED
    BY <2>2, <2>3
<1>3. ASSUME NEW u \in Threads, ptr'[u] # None PROVE entry'[ptr'[u]].state = "live"
  <2>1. CASE u = t
    BY <2>1
  <2>2. CASE u # t
    <3>1. ptr'[u] = ptr[u] /\ ptr[u] \in Entries
      BY <1>3, <2>2 DEF StepOf
    <3>2. QED
      BY <1>3, <3>1 DEF LifeOK, SameLife
  <2>3. QED
    BY <2>1, <2>2
<1>4. QED
  BY <1>2, <1>3 DEF LifeOK

LEMMA LifeGiven ==
    ASSUME TypeOK, LifeOK, NEW t \in Threads, StepOf(t), ptr[t] # None,
           pc[t] \in Counted, pc'[t] \notin Counted, ptr'[t] \in {None, ptr[t]},
           entry' = [entry EXCEPT ![ptr[t]] = PutRef(@)]
    PROVE  LifeOK'
<1> DEFINE e == ptr[t]
<1>1. e \in Entries /\ entry[e] \in EntryType /\ entry \in [Entries -> EntryType]
  BY DEF TypeOK
<1>2. entry'[e] = PutRef(entry[e]) /\ \A x \in Entries \ {e} : entry'[x] = entry[x]
  BY <1>1
<1>3. entry[e].state = "live" /\ entry'[e].state = "live"
  <2>1. entry[e].state = "live"
    BY DEF LifeOK
  <2>2. QED
    BY <1>1, <1>2, <2>1 DEF PutRef, EntryType
<1>4. ASSUME NEW x \in Entries PROVE Holders(x)' = IF x = e THEN Holders(e) \ {t} ELSE Holders(x)
  BY HoldersOthers DEF Holders
<1>5. t \in Holders(e)
  BY DEF Holders
<1> HIDE DEF e
<1>6. ASSUME NEW x \in Entries PROVE Accounted(entry[x], Holders(x))'
  <2>1. Accounted(entry[x], Holders(x))
    BY DEF LifeOK
  <2>2. CASE x = e
    <3>1. Accounted(PutRef(entry[e]), Holders(e) \ {t})
      BY <1>1, <1>3, <1>5, <2>1, <2>2, AccountedGive
    <3>2. QED
      BY <1>2, <1>4, <2>2, <3>1 DEF Accounted
  <2>3. CASE x # e
    BY <1>2, <1>4, <2>1, <2>3 DEF Accounted
  <2>4. QED
    BY <2>2, <2>3
<1>7. ASSUME NEW u \in Threads, ptr'[u] # None PROVE entry'[ptr'[u]].state = "live"
  <2>1. CASE ptr'[u] = e
    BY <1>3, <2>1
  <2>2. CASE ptr'[u] # e
    <3>1. ptr'[u] = ptr[u] /\ ptr[u] \in Entries
      BY <1>7, <2>2 DEF StepOf, e, TypeOK
    <3>2. QED
      BY <1>2, <1>7, <2>2, <3>1 DEF LifeOK
  <2>3. QED
    BY <2>1, <2>2
<1>8. QED
  BY <1>6, <1>7 DEF LifeOK

----------------------------------------------------------------------------
(* The calls, the table and the walk over it *)

(* The threads of the system are different. *)
LEMMA ThreadNames ==
    /\ Shell \in Threads /\ Remover \in Threads /\ Shell # Remover
    /\ Shell \notin Apps /\ Remover \notin Apps /\ Apps \subseteq Threads
    /\ None \notin Entries /\ None \notin Apps /\ None \notin Prims
  BY ArbAssumption DEF Threads

LEMMA CallsStep ==
    ASSUME CallsOK, NEW t \in Threads, StepOf(t), CallOK(t)', context => context',
           gone \subseteq gone', \A a \in gone' \ gone : pc'[a] = "idle"
    PROVE  CallsOK'
<1> SUFFICES ASSUME NEW u \in Threads PROVE CallOK(u)'
  BY DEF CallsOK
<1>1. CASE u = t
  BY <1>1
<1>2. CASE u # t
  <2>1. pc'[u] = pc[u] /\ ptr'[u] = ptr[u] /\ arg'[u] = arg[u] /\ CallOK(u)
    BY <1>2 DEF StepOf, CallsOK
  <2>2. pc[u] # "idle" /\ u \notin gone => u \notin gone'
    BY <2>1
  <2>3. QED
    BY <2>1, <2>2 DEF CallOK
<1>3. QED
  BY <1>1, <1>2

(* What a thread with a call is like: the application, the shell and the removal. *)
LEMMA CallFacts ==
    ASSUME TypeOK, CallsOK, NEW t \in Threads
    PROVE  /\ CallOK(t)
           /\ ptr[t] # None => ptr[t] \in Entries
           /\ pc[t] \in {"ctxInst", "ctxCreated", "put"} => t # Remover
           /\ pc[t] = "putDirect" => t \in Apps
           /\ t \in Apps \/ t = Shell \/ t = Remover
  BY ThreadNames DEF CallsOK, CallOK, TypeOK, Threads

(* The table stays as it is, and so does whatever it has to do with. *)
LEMMA TablePreserved ==
    ASSUME TypeOK, TableOK, CallOK(Shell)', context' = context, table' = table,
           ~context => entry' = entry,
           \A e \in Entries : entry'[e].marked = entry[e].marked,
           \A e \in Range(table) : entry'[e].state = entry[e].state,
           \/ ptr'[Shell] = None
           \/ /\ ptr'[Shell] = ptr[Shell] /\ ptr[Shell] \in Entries
              /\ pc'[Shell] = "wait" <=> pc[Shell] = "wait"
              /\ pc'[Shell] \in {"release", "destroy"} => pc[Shell] \in {"release", "destroy"}
           \/ /\ ptr'[Shell] \in Entries /\ ~entry[ptr'[Shell]].marked
              /\ pc'[Shell] \notin {"release", "destroy", "wait"}
    PROVE  TableOK'
<1>1. Range(table) \subseteq Entries
  BY DEF TypeOK, Range
<1>2. ~context' => table' = <<>> /\ \A e \in Entries : entry'[e] = Unused
  BY DEF TableOK
<1>3. \A i, j \in DOMAIN table' : table'[i] = table'[j] => i = j
  BY DEF TableOK
<1>4. \A e \in Range(table') : entry'[e].state = "live" /\ ~entry'[e].marked
  BY <1>1 DEF TableOK
<1>5. /\ pc'[Shell] \in {"release", "destroy", "wait"} => ptr'[Shell] \notin Range(table')
      /\ ptr'[Shell] # None => (entry'[ptr'[Shell]].marked <=> pc'[Shell] = "wait")
  <2>1. CASE ptr'[Shell] = None
    BY <2>1 DEF CallOK, Counted
  <2>2. CASE /\ ptr'[Shell] = ptr[Shell] /\ ptr[Shell] \in Entries
             /\ pc'[Shell] = "wait" <=> pc[Shell] = "wait"
             /\ pc'[Shell] \in {"release", "destroy"} => pc[Shell] \in {"release", "destroy"}
    <3>1. ptr[Shell] # None
      BY <2>2, ThreadNames
    <3>2. QED
      BY <2>2, <3>1 DEF TableOK
  <2>3. CASE /\ ptr'[Shell] \in Entries /\ ~entry[ptr'[Shell]].marked
             /\ pc'[Shell] \notin {"release", "destroy", "wait"}
    BY <2>3
  <2>4. QED
    BY <2>1, <2>2, <2>3
<1>6. QED
  BY <1>2, <1>3, <1>4, <1>5 DEF TableOK

(* The removal of an application is not disturbed by a step that gives no request to an *)
(* application that has gone, and adds to the table only at the end.                    *)
LEMMA RemovalPreserved ==
    ASSUME TypeOK, TypeOK', CallsOK, RemovalOK, GoneAppHasNoRequest,
           shifted' = shifted, gone' = gone,
           pc'[Remover] = pc[Remover], arg'[Remover] = arg[Remover],
           ptr'[Remover] = ptr[Remover], index'[Remover] = index[Remover],
           Len(table) <= Len(table'), \A i \in 1 .. Len(table) : table'[i] = table[i],
           \A i \in 1 .. Len(table') : \A a \in gone :
               HasRequest(entry'[table'[i]], a) => i \in 1 .. Len(table) /\ HasRequest(entry[table[i]], a)
    PROVE  RemovalOK' /\ GoneAppHasNoRequest'
<1>1. /\ DOMAIN table = 1 .. Len(table) /\ DOMAIN table' = 1 .. Len(table')
      /\ Len(table) \in Nat /\ Len(table') \in Nat
  BY DEF TypeOK
<1>2. \A i \in 1 .. Len(table) : i \in 1 .. Len(table')
  BY <1>1
<1>3. CallOK(Remover)
  BY ThreadNames DEF CallsOK
<1>4. RemovalOK'
  <2> SUFFICES ASSUME ~shifted
               PROVE  /\ pc[Remover] \in {"visit", "iterPut"} =>
                             index[Remover] \in DOMAIN table' /\ ptr[Remover] = table'[index[Remover]]
                      /\ pc[Remover] # "idle" =>
                             \A i \in DOMAIN table' :
                                 i < index[Remover] \/ (i = index[Remover] /\ pc[Remover] = "iterPut")
                                     => ~HasRequest(entry'[table'[i]], arg[Remover])
    BY DEF RemovalOK
  <2>1. pc[Remover] \in {"visit", "iterPut"} =>
            index[Remover] \in DOMAIN table' /\ ptr[Remover] = table'[index[Remover]]
    BY <1>1, <1>2 DEF RemovalOK
  <2>2. ASSUME pc[Remover] # "idle", NEW i \in 1 .. Len(table'),
               i < index[Remover] \/ (i = index[Remover] /\ pc[Remover] = "iterPut"),
               HasRequest(entry'[table'[i]], arg[Remover])
        PROVE  FALSE
    <3>1. arg[Remover] \in gone
      BY <1>3, <2>2 DEF CallOK
    <3>2. i \in 1 .. Len(table) /\ HasRequest(entry[table[i]], arg[Remover])
      BY <2>2, <3>1
    <3>3. QED
      BY <1>1, <2>2, <3>2 DEF RemovalOK
  <2>3. QED
    BY <1>1, <2>1, <2>2
<1>5. GoneAppHasNoRequest'
  <2> SUFFICES ASSUME NEW a \in gone, ~shifted, arg[Remover] # a, NEW i \in 1 .. Len(table'),
                      HasRequest(entry'[table'[i]], a)
               PROVE  FALSE
    BY <1>1 DEF GoneAppHasNoRequest, Range
  <2>1. i \in 1 .. Len(table) /\ HasRequest(entry[table[i]], a)
    OBVIOUS
  <2>2. table[i] \in Range(table)
    BY <1>1, <2>1 DEF Range
  <2>3. QED
    BY <2>1, <2>2 DEF GoneAppHasNoRequest
<1>6. QED
  BY <1>4, <1>5

(* A step that gets and loses no reference and leaves the table as it is. *)
LEMMA ChangeCore ==
    ASSUME TypeOK, ArbInvariant, NEW t \in Threads, StepOf(t), CallOK(t)',
           UNCHANGED <<table, context>>, ptr'[t] = ptr[t],
           gone \subseteq gone', \A a \in gone' \ gone : pc'[a] = "idle",
           ptr[t] # None => pc[t] \in Counted \ {"release"} /\ pc'[t] \in Counted \ {"release"},
           ~context => entry' = entry,
           \A e \in Entries : SameLife(e) /\ (SameReqs(e) \/ EntryOK(entry'[e], commanded'[e]))
    PROVE  CallsOK' /\ TableOK' /\ LifeOK' /\ RequestsOrdered' /\ WinnerCommanded'
<1> USE DEF ArbInvariant
<1>1. CallsOK'
  BY CallsStep
<1>2. TableOK'
  <2>1. \/ ptr'[Shell] = None
        \/ /\ ptr'[Shell] = ptr[Shell] /\ ptr[Shell] \in Entries
           /\ pc'[Shell] = "wait" <=> pc[Shell] = "wait"
           /\ pc'[Shell] \in {"release", "destroy"} => pc[Shell] \in {"release", "destroy"}
    <3>1. ptr[Shell] \in Entries \cup {None}
      BY ThreadNames DEF TypeOK
    <3>2. CASE t = Shell
      BY <3>1, <3>2 DEF Counted
    <3>3. CASE t # Shell
      BY <3>1, <3>3, ThreadNames DEF StepOf
    <3>4. QED
      BY <3>2, <3>3
  <2>2. Range(table) \subseteq Entries /\ CallOK(Shell)'
    BY <1>1, ThreadNames DEF TypeOK, Range, CallsOK
  <2>3. \A e \in Entries : entry'[e].marked = entry[e].marked
    BY DEF SameLife
  <2>4. \A e \in Range(table) : entry'[e].state = entry[e].state
    BY <2>2 DEF SameLife
  <2>5. QED
    BY <2>1, <2>2, <2>3, <2>4, TablePreserved
<1>3. LifeOK'
  <2>1. ptr[t] # None => (pc'[t] \in Counted <=> pc[t] \in Counted)
    OBVIOUS
  <2>2. ptr \in [Threads -> Entries \cup {None}]
    BY DEF TypeOK
  <2>3. QED
    BY <2>1, <2>2, LifeUnmoved, ThreadNames
<1>4. RequestsOrdered' /\ WinnerCommanded'
  BY ReqsPreserved
<1>5. QED
  BY <1>1, <1>2, <1>3, <1>4

(* The removal is not disturbed by other threads if the table stays as it is. *)
LEMMA RemovalSame ==
    ASSUME TypeOK, TypeOK', ArbInvariant, NEW t \in Threads, t # Remover, StepOf(t),
           UNCHANGED <<table, gone, shifted>>,
           \A e \in Entries : \A a \in gone : HasRequest(entry'[e], a) => HasRequest(entry[e], a)
    PROVE  RemovalOK' /\ GoneAppHasNoRequest'
<1>1. /\ Len(table) <= Len(table') /\ \A i \in 1 .. Len(table) : table'[i] = table[i]
      /\ \A i \in 1 .. Len(table) : table[i] \in Entries
  BY DEF TypeOK
<1>2. ASSUME NEW i \in 1 .. Len(table'), NEW a \in gone, HasRequest(entry'[table'[i]], a)
      PROVE  i \in 1 .. Len(table) /\ HasRequest(entry[table[i]], a)
  <2>1. i \in 1 .. Len(table) /\ table'[i] = table[i] /\ table[i] \in Entries
    BY <1>1, <1>2
  <2>2. QED
    BY <1>2, <2>1
<1>3. /\ pc'[Remover] = pc[Remover] /\ arg'[Remover] = arg[Remover]
      /\ ptr'[Remover] = ptr[Remover] /\ index'[Remover] = index[Remover]
  BY ThreadNames DEF StepOf
<1>4. QED
  BY <1>1, <1>2, <1>3, RemovalPreserved DEF ArbInvariant

(* A step of an application or of the shell that gets and loses no reference. *)
LEMMA ChangeStep ==
    ASSUME TypeOK, ArbInvariant, TypeOK', NEW t \in Threads, t # Remover, StepOf(t), CallOK(t)',
           UNCHANGED <<table, context, gone, shifted>>, ptr'[t] = ptr[t],
           ptr[t] # None => pc[t] \in Counted \ {"release"} /\ pc'[t] \in Counted \ {"release"},
           ~context => entry' = entry,
           \A e \in Entries : SameLife(e) /\ (SameReqs(e) \/ EntryOK(entry'[e], commanded'[e])),
           \A e \in Entries : \A a \in gone : HasRequest(entry'[e], a) => HasRequest(entry[e], a)
    PROVE  ArbInvariant'
<1>1. CallsOK' /\ TableOK' /\ LifeOK' /\ RequestsOrdered' /\ WinnerCommanded'
  BY ChangeCore
<1>2. RemovalOK' /\ GoneAppHasNoRequest'
  BY RemovalSame
<1>3. QED
  BY <1>1, <1>2 DEF ArbInvariant

(* The same, when the entries are not touched at all. *)
LEMMA QuietStep ==
    ASSUME TypeOK, ArbInvariant, TypeOK', NEW t \in Threads, t # Remover, StepOf(t), CallOK(t)',
           UNCHANGED <<table, entry, commanded, context, gone, shifted>>, ptr'[t] = ptr[t],
           ptr[t] # None => pc[t] \in Counted \ {"release"} /\ pc'[t] \in Counted \ {"release"}
    PROVE  ArbInvariant'
<1>1. \A e \in Entries : SameLife(e) /\ SameReqs(e)
  BY DEF SameLife, SameReqs
<1>2. \A e \in Entries : \A a \in gone : HasRequest(entry'[e], a) => HasRequest(entry[e], a)
  BY DEF HasRequest
<1>3. QED
  BY <1>1, <1>2, ChangeStep

----------------------------------------------------------------------------
(* The actions that leave the entries alone *)

Places ==
    {"idle", "ctxInst", "ctxCreated", "lookup", "entry", "put", "putDirect", "direct",
     "setManager", "purge", "command", "next", "visit", "iterPut", "remove", "release",
     "destroy", "wait"}

(* What Goto and an assignment to the argument of the same thread do. *)
LEMMA Moves ==
    ASSUME TypeOK, NEW t \in Threads, NEW p \in Places, Goto(t, p)
    PROVE  /\ pc' \in [Threads -> Places] /\ pc'[t] = p
           /\ \A u \in Threads \ {t} : pc'[u] = pc[u]
  BY DEF TypeOK, Goto, Places

LEMMA Finished ==
    ASSUME TypeOK, NEW t \in Threads, Done(t)
    PROVE  /\ pc' \in [Threads -> Places] /\ pc'[t] = "idle" /\ arg'[t] = None
           /\ arg' \in [Threads -> AppCall \cup ShellCommands \cup Apps \cup {None}]
           /\ \A u \in Threads \ {t} : pc'[u] = pc[u] /\ arg'[u] = arg[u]
<1>1. "idle" \in Places /\ Goto(t, "idle")
  BY DEF Places, Done
<1>2. /\ arg'[t] = None /\ arg' \in [Threads -> AppCall \cup ShellCommands \cup Apps \cup {None}]
      /\ \A u \in Threads \ {t} : arg'[u] = arg[u]
  BY DEF TypeOK, Done
<1>3. QED
  BY <1>1, <1>2, Moves

(* A thread without a call holds no entry, and what it is to do next is nothing. *)
LEMMA IdleCall ==
    ASSUME NEW t \in Threads, pc'[t] = "idle", ptr'[t] = None, arg'[t] = None
    PROVE  CallOK(t)'
  BY DEF CallOK, Counted

LEMMA CtxInstStep ==
    ASSUME TypeOK, ArbInvariant, NEW t \in Threads, CtxInst(t, AfterCtx(t))
    PROVE  TypeOK' /\ ArbInvariant'
<1>1. CallOK(t) /\ t # Remover /\ pc[t] = "ctxInst" /\ (t \in Apps \/ t = Shell)
  BY CallFacts DEF ArbInvariant, CtxInst
<1> DEFINE p == IF context THEN AfterCtx(t) ELSE "ctxCreated"
<1>2. /\ p \in Places /\ Goto(t, p)
      /\ UNCHANGED <<mgrEnabled, ctxEnabled, context, table, entry, commanded, arg, ptr, index,
                     gone, shifted, calls>>
  BY DEF CtxInst, AfterCtx, Places, KeepFlags, KeepEntries, KeepRemoval
<1>3. pc' \in [Threads -> Places] /\ pc'[t] = p /\ \A u \in Threads \ {t} : pc'[u] = pc[u]
  BY <1>2, Moves
<1>4. TypeOK'
  BY <1>2, <1>3 DEF TypeOK, Places
<1>5. StepOf(t) /\ ptr[t] = None
  BY <1>1, <1>2, <1>3 DEF StepOf, CallOK, Counted
<1>6. CallOK(t)'
  BY <1>1, <1>2, <1>3, ThreadNames DEF CallOK, Counted, AfterCtx
<1>7. QED
  BY <1>1, <1>2, <1>4, <1>5, <1>6, QuietStep

LEMMA ExecutePrimitiveStep ==
    ASSUME TypeOK, ArbInvariant, NEW a \in Apps, NEW p \in Prims, NEW v \in Value \cup {Short},
           ExecutePrimitive(a, p, v)
    PROVE  TypeOK' /\ ArbInvariant'
<1> DEFINE where == IF mgrEnabled THEN "ctxInst" ELSE "direct"
           call  == [prim |-> p, val |-> v]
<1>1. CallOK(a) /\ a # Remover /\ pc[a] = "idle" /\ a \in Threads /\ a # Shell /\ a \notin gone
  BY CallFacts, ThreadNames DEF ArbInvariant, ExecutePrimitive, Start
<1>2. /\ where \in Places /\ Goto(a, where) /\ call \in AppCall
      /\ arg' = [arg EXCEPT ![a] = call] /\ calls' = calls + 1
      /\ UNCHANGED <<mgrEnabled, ctxEnabled, context, table, entry, commanded, ptr, index,
                     gone, shifted>>
  BY DEF ExecutePrimitive, Start, Places, AppCall, KeepFlags, KeepEntries, KeepRemoval
<1>3. pc' \in [Threads -> Places] /\ pc'[a] = where /\ \A u \in Threads \ {a} : pc'[u] = pc[u]
  BY <1>1, <1>2, Moves
<1> HIDE DEF call
<1>4. /\ arg' \in [Threads -> AppCall \cup ShellCommands \cup Apps \cup {None}]
      /\ arg'[a] = call /\ \A u \in Threads \ {a} : arg'[u] = arg[u]
  BY <1>1, <1>2 DEF TypeOK
<1>5. TypeOK'
  BY <1>2, <1>3, <1>4 DEF TypeOK, Places
<1>6. StepOf(a) /\ ptr[a] = None
  BY <1>1, <1>2, <1>3, <1>4 DEF StepOf, CallOK, Counted
<1>7. CallOK(a)'
  BY <1>1, <1>2, <1>3, <1>4, <1>6 DEF CallOK, Counted
<1>8. QED
  BY <1>1, <1>2, <1>5, <1>6, <1>7, QuietStep

LEMMA DirectStep ==
    ASSUME TypeOK, ArbInvariant, NEW a \in Apps, Direct(a)
    PROVE  TypeOK' /\ ArbInvariant'
<1>1. CallOK(a) /\ a # Remover /\ pc[a] = "direct" /\ a \in Threads
  BY CallFacts, ThreadNames DEF ArbInvariant, Direct
<1>2. /\ Done(a)
      /\ UNCHANGED <<mgrEnabled, ctxEnabled, context, table, entry, commanded, ptr, index,
                     gone, shifted, calls>>
  BY DEF Direct, Done, KeepFlags, KeepEntries, KeepRemoval
<1>3. /\ pc' \in [Threads -> Places] /\ pc'[a] = "idle" /\ arg'[a] = None
      /\ arg' \in [Threads -> AppCall \cup ShellCommands \cup Apps \cup {None}]
      /\ \A u \in Threads \ {a} : pc'[u] = pc[u] /\ arg'[u] = arg[u]
  BY <1>1, <1>2, Finished
<1>4. TypeOK'
  BY <1>2, <1>3 DEF TypeOK, Places
<1>5. StepOf(a) /\ ptr[a] = None
  BY <1>1, <1>2, <1>3 DEF StepOf, CallOK, Counted
<1>6. CallOK(a)'
  BY <1>1, <1>2, <1>3, <1>5, IdleCall
<1>7. QED
  BY <1>1, <1>2, <1>4, <1>5, <1>6, QuietStep

LEMMA CommandStep ==
    ASSUME TypeOK, ArbInvariant, NEW op \in ShellCommands, Command(op)
    PROVE  TypeOK' /\ ArbInvariant'
<1> DEFINE where == IF op.level = "manager" THEN "setManager" ELSE "ctxInst"
<1>1. CallOK(Shell) /\ Shell # Remover /\ pc[Shell] = "idle" /\ Shell \in Threads /\ Shell \notin Apps
  BY CallFacts, ThreadNames DEF ArbInvariant, Command, Start
<1>2. /\ where \in Places /\ Goto(Shell, where)
      /\ arg' = [arg EXCEPT ![Shell] = op] /\ calls' = calls + 1
      /\ index' = [index EXCEPT ![Shell] = 1]
      /\ UNCHANGED <<mgrEnabled, ctxEnabled, context, table, entry, commanded, ptr,
                     gone, shifted>>
  BY DEF Command, Start, Places, KeepFlags, KeepEntries
<1>3. pc' \in [Threads -> Places] /\ pc'[Shell] = where /\ \A u \in Threads \ {Shell} : pc'[u] = pc[u]
  BY <1>1, <1>2, Moves
<1>4. /\ arg' \in [Threads -> AppCall \cup ShellCommands \cup Apps \cup {None}]
      /\ arg'[Shell] = op /\ \A u \in Threads \ {Shell} : arg'[u] = arg[u]
      /\ index' \in [Threads -> Nat] /\ \A u \in Threads \ {Shell} : index'[u] = index[u]
  <2> HIDE DEF where
  <2> QED
    BY <1>1, <1>2 DEF TypeOK
<1>5. TypeOK'
  BY <1>2, <1>3, <1>4 DEF TypeOK, Places
<1>6. StepOf(Shell) /\ ptr[Shell] = None
  BY <1>1, <1>2, <1>3, <1>4 DEF StepOf, CallOK, Counted
<1>7. CallOK(Shell)'
  BY <1>1, <1>2, <1>3, <1>4, <1>6 DEF CallOK, Counted
<1>8. QED
  BY <1>1, <1>2, <1>5, <1>6, <1>7, QuietStep

LEMMA SetManagerStateStep ==
    ASSUME TypeOK, ArbInvariant, SetManagerState
    PROVE  TypeOK' /\ ArbInvariant'
<1>1. CallOK(Shell) /\ Shell # Remover /\ pc[Shell] = "setManager" /\ Shell \in Threads /\ Shell \notin Apps
  BY CallFacts, ThreadNames DEF ArbInvariant, SetManagerState
<1>2. arg[Shell] \in ShellCommands /\ arg[Shell].level = "manager" /\ arg[Shell].on \in BOOLEAN
  BY <1>1 DEF CallOK, ShellCommands
<1>3. /\ IF arg[Shell].on THEN Done(Shell) ELSE Goto(Shell, "purge") /\ UNCHANGED arg
      /\ mgrEnabled' = arg[Shell].on
      /\ UNCHANGED <<ctxEnabled, context, table, entry, commanded, ptr, index, gone, shifted, calls>>
  BY DEF SetManagerState, KeepEntries, KeepRemoval
<1>4. ptr[Shell] = None
  BY <1>1 DEF CallOK, Counted
<1>5. /\ pc' \in [Threads -> Places]
      /\ arg' \in [Threads -> AppCall \cup ShellCommands \cup Apps \cup {None}]
      /\ \A u \in Threads \ {Shell} : pc'[u] = pc[u] /\ arg'[u] = arg[u]
      /\ CallOK(Shell)'
  <2>1. CASE arg[Shell].on
    BY <1>1, <1>3, <1>4, <2>1, Finished, IdleCall
  <2>2. CASE ~arg[Shell].on
    <3>1. "purge" \in Places /\ Goto(Shell, "purge") /\ arg' = arg
      BY <1>3, <2>2 DEF Places
    <3>2. pc' \in [Threads -> Places] /\ pc'[Shell] = "purge" /\ \A u \in Threads \ {Shell} : pc'[u] = pc[u]
      BY <1>1, <3>1, Moves
    <3>3. CallOK(Shell)'
      BY <1>1, <1>2, <1>3, <1>4, <3>1, <3>2 DEF CallOK, Counted
    <3>4. QED
      BY <3>1, <3>2, <3>3 DEF TypeOK
  <2>3. QED
    BY <2>1, <2>2
<1>6. TypeOK'
  BY <1>2, <1>3, <1>5 DEF TypeOK, Places
<1>7. StepOf(Shell)
  BY <1>3, <1>5 DEF StepOf
<1>8. QED
  BY <1>1, <1>3, <1>4, <1>5, <1>6, <1>7, QuietStep

LEMMA NoMemoryStep ==
    ASSUME TypeOK, ArbInvariant, NoMemory
    PROVE  TypeOK' /\ ArbInvariant'
<1>1. CallOK(Shell) /\ Shell # Remover /\ pc[Shell] = "command" /\ Shell \in Threads
  BY CallFacts, ThreadNames DEF ArbInvariant, NoMemory
<1>2. /\ Done(Shell)
      /\ UNCHANGED <<mgrEnabled, ctxEnabled, context, table, entry, commanded, ptr, index,
                     gone, shifted, calls>>
  BY DEF NoMemory, KeepFlags, KeepEntries, KeepRemoval
<1>3. /\ pc' \in [Threads -> Places] /\ pc'[Shell] = "idle" /\ arg'[Shell] = None
      /\ arg' \in [Threads -> AppCall \cup ShellCommands \cup Apps \cup {None}]
      /\ \A u \in Threads \ {Shell} : pc'[u] = pc[u] /\ arg'[u] = arg[u]
  BY <1>1, <1>2, Finished
<1>4. TypeOK'
  BY <1>2, <1>3 DEF TypeOK, Places
<1>5. StepOf(Shell) /\ ptr[Shell] = None
  BY <1>1, <1>2, <1>3 DEF StepOf, CallOK, Counted
<1>6. CallOK(Shell)'
  BY <1>1, <1>2, <1>3, <1>5, IdleCall
<1>7. QED
  BY <1>1, <1>2, <1>4, <1>5, <1>6, QuietStep

LEMMA StopVisitStep ==
    ASSUME TypeOK, ArbInvariant, StopVisit
    PROVE  TypeOK' /\ ArbInvariant'
<1> DEFINE p == IF entry[ptr[Shell]].prim = arg[Shell].prim THEN "remove" ELSE "iterPut"
<1>1. CallOK(Shell) /\ Shell # Remover /\ pc[Shell] = "visit" /\ Shell \in Threads /\ Shell \notin Apps
  BY CallFacts, ThreadNames DEF ArbInvariant, StopVisit
<1>2. /\ p \in Places /\ Goto(Shell, p)
      /\ UNCHANGED <<mgrEnabled, ctxEnabled, context, table, entry, commanded, arg, ptr, index,
                     gone, shifted, calls>>
  BY DEF StopVisit, Places, KeepFlags, KeepEntries, KeepRemoval
<1>3. pc' \in [Threads -> Places] /\ pc'[Shell] = p /\ \A u \in Threads \ {Shell} : pc'[u] = pc[u]
  BY <1>1, <1>2, Moves
<1>4. p \in {"remove", "iterPut"}
  OBVIOUS
<1> HIDE DEF p
<1>5. TypeOK'
  BY <1>2, <1>3 DEF TypeOK, Places
<1>6. StepOf(Shell)
  BY <1>2, <1>3 DEF StepOf
<1>7. CallOK(Shell)'
  BY <1>1, <1>2, <1>3, <1>4 DEF CallOK, Counted
<1>8. pc[Shell] \in Counted \ {"release"} /\ pc'[Shell] \in Counted \ {"release"}
  BY <1>1, <1>3, <1>4 DEF Counted
<1>9. QED
  BY <1>1, <1>2, <1>5, <1>6, <1>7, <1>8, QuietStep

----------------------------------------------------------------------------
(* The actions that change the requests of an entry, or take or release a reference *)

(* The parts of EntryType that the actions write. *)
LEMMA EntryFields ==
    ASSUME NEW en \in EntryType
    PROVE  /\ GetRef(en) \in EntryType /\ PutRef(en) \in EntryType
           /\ en.reqs \in Seq(Request) /\ en.type \in ArbType /\ en.enabled \in BOOLEAN
           /\ en.ref \in Int /\ en.upper \in Value /\ en.lower \in Value
           /\ en.marked \in BOOLEAN /\ en.deleteEvent \in BOOLEAN
           /\ \A r \in Seq(Request) : [en EXCEPT !.reqs = r] \in EntryType
<1>1. /\ en.reqs \in Seq(Request) /\ en.type \in ArbType /\ en.enabled \in BOOLEAN
      /\ en.ref \in Int /\ en.upper \in Value /\ en.lower \in Value
      /\ en.marked \in BOOLEAN /\ en.deleteEvent \in BOOLEAN
      /\ en.state \in {"unused", "live", "freed"} /\ en.prim \in Prims \cup {None}
      /\ \A r \in Seq(Request) : [en EXCEPT !.reqs = r] \in EntryType
  BY DEF EntryType
<1>2. GetRef(en) \in EntryType
  BY <1>1 DEF EntryType, GetRef
<1>3. PutRef(en) \in EntryType
  <2> DEFINE b == en.deleteEvent \/ (en.ref = 1 /\ en.marked)
  <2>1. PutRef(en) = [en EXCEPT !.ref = en.ref - 1, !.deleteEvent = b] /\ b \in BOOLEAN
    BY DEF PutRef, EntryType
  <2> HIDE DEF b
  <2> DEFINE one == [en EXCEPT !.ref = en.ref - 1]
  <2>2. one \in EntryType /\ PutRef(en) = [one EXCEPT !.deleteEvent = b]
    BY <1>1, <2>1 DEF EntryType
  <2> HIDE DEF one
  <2>3. QED
    BY <2>1, <2>2 DEF EntryType
<1>4. QED
  BY <1>1, <1>2, <1>3

LEMMA NewEntryType ==
    ASSUME NEW p \in Prims \cup {None}, NEW type \in ArbType
    PROVE  /\ NewEntry(p, type) \in EntryType
           /\ NewEntry(p, type).state = "live" /\ NewEntry(p, type).ref = 1
           /\ ~NewEntry(p, type).marked /\ ~NewEntry(p, type).deleteEvent
           /\ NewEntry(p, type).reqs = <<>> /\ NewEntry(p, type).enabled
           /\ NewEntry(p, type).type = type
<1>1. <<>> \in Seq(Request)
  OBVIOUS
<1>2. QED
  BY <1>1, ArbAssumption DEF NewEntry, EntryType, Value

(* An entry without requests is in order, and so is one whose requests go. *)
LEMMA EmptyEntry ==
    ASSUME NEW en, en.reqs = <<>>, NEW value
    PROVE  EntryOK(en, value) /\ \A a : ~HasRequest(en, a)
  BY DEF EntryOK, Arranged, HasRequest

(* A thread takes a reference to an entry of the table. *)
LEMMA TakeStep ==
    ASSUME TypeOK, ArbInvariant, NEW t \in Threads, StepOf(t), CallOK(t)',
           UNCHANGED <<table, context, gone, shifted>>, context, ptr[t] = None,
           NEW e \in Range(table), ptr'[t] = e, pc'[t] \in Counted \ {"release"},
           entry'[e].state = "live", entry'[e].marked = entry[e].marked,
           entry'[e].ref = entry[e].ref + 1,
           entry'[e].deleteEvent = entry[e].deleteEvent,
           \A x \in Entries \ {e} : entry'[x] = entry[x] /\ commanded'[x] = commanded[x],
           SameReqs(e) \/ EntryOK(entry'[e], commanded'[e])
    PROVE  CallsOK' /\ TableOK' /\ LifeOK' /\ RequestsOrdered' /\ WinnerCommanded'
<1> USE DEF ArbInvariant
<1>1. Range(table) \subseteq Entries /\ ptr \in [Threads -> Entries \cup {None}]
  BY DEF TypeOK, Range
<1>2. entry[e].state = "live" /\ ~entry[e].marked /\ e \in Entries
  BY <1>1 DEF TableOK
<1>3. CallsOK'
  BY CallsStep
<1>4. TableOK'
  <2>1. \/ ptr'[Shell] = None
        \/ /\ ptr'[Shell] = ptr[Shell] /\ ptr[Shell] \in Entries
           /\ pc'[Shell] = "wait" <=> pc[Shell] = "wait"
           /\ pc'[Shell] \in {"release", "destroy"} => pc[Shell] \in {"release", "destroy"}
        \/ /\ ptr'[Shell] \in Entries /\ ~entry[ptr'[Shell]].marked
           /\ pc'[Shell] \notin {"release", "destroy", "wait"}
    <3>1. CASE t = Shell
      BY <1>2, <3>1 DEF Counted
    <3>2. CASE t # Shell
      BY <1>1, <3>2, ThreadNames DEF StepOf
    <3>3. QED
      BY <3>1, <3>2
  <2>2. CallOK(Shell)'
    BY <1>3, ThreadNames DEF CallsOK
  <2>3. /\ \A x \in Entries : entry'[x].marked = entry[x].marked
        /\ \A x \in Range(table) : entry'[x].state = entry[x].state
    BY <1>1, <1>2
  <2>4. QED
    BY <2>1, <2>2, <2>3, TablePreserved
<1>5. LifeOK'
  <2>1. \A x \in Entries \ {e} : SameLife(x)
    BY DEF SameLife
  <2>2. QED
    BY <1>1, <1>2, <2>1, LifeTaken, ThreadNames
<1>6. RequestsOrdered' /\ WinnerCommanded'
  <2>1. \A x \in Entries \ {e} : SameReqs(x)
    BY DEF SameReqs
  <2>2. QED
    BY <2>1, ReqsPreserved
<1>7. QED
  BY <1>3, <1>4, <1>5, <1>6

(* A thread releases its entry. *)
LEMMA GiveStep ==
    ASSUME TypeOK, ArbInvariant, NEW t \in Threads, StepOf(t), CallOK(t)',
           UNCHANGED <<table, context, gone, shifted, commanded>>, ptr[t] # None,
           pc[t] \in Counted, pc'[t] \notin Counted,
           \/ ptr'[t] = None
           \/ ptr'[t] = ptr[t] /\ pc[t] = "release" /\ pc'[t] = "destroy",
           entry' = [entry EXCEPT ![ptr[t]] = PutRef(@)]
    PROVE  /\ CallsOK' /\ TableOK' /\ LifeOK' /\ RequestsOrdered' /\ WinnerCommanded'
           /\ entry' \in [Entries -> EntryType]
           /\ \A e \in Entries : \A a : HasRequest(entry'[e], a) => HasRequest(entry[e], a)
<1> USE DEF ArbInvariant
<1>1. Range(table) \subseteq Entries /\ ptr \in [Threads -> Entries \cup {None}]
  BY DEF TypeOK, Range
<1>2. entry \in [Entries -> EntryType] /\ ptr[t] \in Entries /\ entry[ptr[t]] \in EntryType
  BY DEF TypeOK
<1>3. /\ entry'[ptr[t]] = PutRef(entry[ptr[t]]) /\ \A x \in Entries \ {ptr[t]} : entry'[x] = entry[x]
      /\ entry' \in [Entries -> EntryType]
  BY <1>2, EntryFields
<1>4. ASSUME NEW x \in Entries
      PROVE  /\ entry'[x].state = entry[x].state /\ entry'[x].marked = entry[x].marked
             /\ entry'[x].reqs = entry[x].reqs /\ SameReqs(x)
  <2>1. CASE x = ptr[t]
    BY <1>2, <1>3, <2>1 DEF PutRef, EntryType, SameReqs
  <2>2. CASE x # ptr[t]
    BY <1>3, <2>2 DEF SameReqs
  <2>3. QED
    BY <2>1, <2>2
<1>5. CallsOK'
  BY CallsStep
<1>6. TableOK'
  <2>1. \/ ptr'[Shell] = None
        \/ /\ ptr'[Shell] = ptr[Shell] /\ ptr[Shell] \in Entries
           /\ pc'[Shell] = "wait" <=> pc[Shell] = "wait"
           /\ pc'[Shell] \in {"release", "destroy"} => pc[Shell] \in {"release", "destroy"}
    <3>1. CASE t = Shell
      BY <1>2, <3>1
    <3>2. CASE t # Shell
      BY <1>1, <3>2, ThreadNames DEF StepOf
    <3>3. QED
      BY <3>1, <3>2
  <2>2. CallOK(Shell)'
    BY <1>5, ThreadNames DEF CallsOK
  <2>3. /\ \A x \in Entries : entry'[x].marked = entry[x].marked
        /\ \A x \in Range(table) : entry'[x].state = entry[x].state
    BY <1>1, <1>4
  <2>4. context
    <3>1. CallOK(t)
      BY DEF CallsOK
    <3>2. QED
      BY <3>1 DEF CallOK, Counted
  <2>5. QED
    BY <2>1, <2>2, <2>3, <2>4, TablePreserved
<1>7. LifeOK'
  BY LifeGiven
<1>8. RequestsOrdered' /\ WinnerCommanded'
  BY <1>4, ReqsPreserved
<1>9. \A e \in Entries : \A a : HasRequest(entry'[e], a) => HasRequest(entry[e], a)
  BY <1>4 DEF HasRequest
<1>10. QED
  BY <1>3, <1>5, <1>6, <1>7, <1>8, <1>9

LEMMA CtxLookupStep ==
    ASSUME TypeOK, ArbInvariant, NEW a \in Apps, CtxLookup(a)
    PROVE  TypeOK' /\ ArbInvariant'
<1>1. CallOK(a) /\ a # Remover /\ pc[a] = "lookup" /\ a \in Threads /\ a # Shell
  BY CallFacts, ThreadNames DEF ArbInvariant, CtxLookup
<1>2. UNCHANGED <<mgrEnabled, ctxEnabled, context, table, commanded, arg, index, gone, shifted, calls>>
  BY DEF CtxLookup, KeepFlags, KeepRemoval
<1>3. ptr[a] = None /\ context
  BY <1>1 DEF CallOK, Counted
<1>4. CASE ctxEnabled /\ Lookup(arg[a].prim) # {}
  <2>1. PICK e \in Lookup(arg[a].prim) :
            /\ entry' = [entry EXCEPT ![e] = GetRef(@)]
            /\ ptr' = [ptr EXCEPT ![a] = e]
            /\ Goto(a, "entry")
    BY <1>4 DEF CtxLookup
  <2>2. e \in Range(table) /\ e \in Entries /\ entry[e] \in EntryType
    BY DEF Lookup, TypeOK, Range
  <2>3. pc' \in [Threads -> Places] /\ pc'[a] = "entry" /\ \A u \in Threads \ {a} : pc'[u] = pc[u]
    <3>1. "entry" \in Places
      BY DEF Places
    <3>2. QED
      BY <1>1, <2>1, <3>1, Moves
  <2>4. /\ entry' \in [Entries -> EntryType] /\ entry'[e] = GetRef(entry[e])
        /\ \A x \in Entries \ {e} : entry'[x] = entry[x]
        /\ ptr' \in [Threads -> Entries \cup {None}] /\ ptr'[a] = e
        /\ \A u \in Threads \ {a} : ptr'[u] = ptr[u]
    BY <1>1, <2>1, <2>2, EntryFields DEF TypeOK
  <2>5. TypeOK'
    BY <1>2, <2>3, <2>4 DEF TypeOK, Places
  <2>6. StepOf(a)
    BY <1>2, <2>3, <2>4 DEF StepOf
  <2>7. CallOK(a)'
    BY <1>1, <1>2, <2>2, <2>3, <2>4, ThreadNames DEF CallOK, Counted
  <2>8. entry[e].state = "live" /\ ~entry[e].marked
    BY <2>2 DEF ArbInvariant, TableOK
  <2>9. /\ entry'[e].state = "live" /\ entry'[e].marked = entry[e].marked
        /\ entry'[e].ref = entry[e].ref + 1
        /\ entry'[e].deleteEvent = entry[e].deleteEvent /\ SameReqs(e)
        /\ entry'[e].reqs = entry[e].reqs
    BY <1>2, <2>2, <2>4, <2>8 DEF GetRef, EntryType, SameReqs
  <2>10. pc'[a] \in Counted \ {"release"}
    BY <2>3 DEF Counted
  <2>11. CallsOK' /\ TableOK' /\ LifeOK' /\ RequestsOrdered' /\ WinnerCommanded'
    BY <1>1, <1>2, <1>3, <2>2, <2>4, <2>6, <2>7, <2>9, <2>10, TakeStep
  <2>12. \A x \in Entries : \A b \in gone : HasRequest(entry'[x], b) => HasRequest(entry[x], b)
    BY <2>4, <2>9 DEF HasRequest
  <2>13. RemovalOK' /\ GoneAppHasNoRequest'
    BY <1>1, <1>2, <2>5, <2>6, <2>12, RemovalSame
  <2>14. QED
    BY <2>5, <2>11, <2>13 DEF ArbInvariant
<1>5. CASE ~(ctxEnabled /\ Lookup(arg[a].prim) # {})
  <2>1. Goto(a, "direct") /\ UNCHANGED <<entry, ptr>> /\ "direct" \in Places
    BY <1>5 DEF CtxLookup, Places
  <2>2. pc' \in [Threads -> Places] /\ pc'[a] = "direct" /\ \A u \in Threads \ {a} : pc'[u] = pc[u]
    BY <1>1, <2>1, Moves
  <2>3. TypeOK'
    BY <1>2, <2>1, <2>2 DEF TypeOK, Places
  <2>4. StepOf(a)
    BY <1>2, <2>1, <2>2 DEF StepOf
  <2>5. CallOK(a)'
    BY <1>1, <1>2, <1>3, <2>1, <2>2 DEF CallOK, Counted
  <2>6. QED
    BY <1>1, <1>2, <1>3, <2>1, <2>3, <2>4, <2>5, QuietStep
<1>6. QED
  BY <1>4, <1>5

LEMMA PutStep ==
    ASSUME TypeOK, ArbInvariant, NEW t \in Threads, Put(t)
    PROVE  TypeOK' /\ ArbInvariant'
<1>1. CallOK(t) /\ pc[t] \in {"put", "putDirect"} /\ (pc[t] = "putDirect" => t \in Apps)
      /\ (ptr[t] # None => ptr[t] \in Entries)
  BY CallFacts, ThreadNames DEF ArbInvariant, Put
<1>2. /\ UNCHANGED <<mgrEnabled, ctxEnabled, context, table, commanded, index, gone, shifted, calls>>
      /\ entry' = [entry EXCEPT ![ptr[t]] = PutRef(@)] /\ ptr' = [ptr EXCEPT ![t] = None]
  BY DEF Put, KeepFlags, KeepRemoval
<1>3. ptr[t] # None /\ pc[t] \in Counted /\ t # Remover /\ ptr[t] \in Entries
  BY <1>1, CallFacts, ThreadNames DEF CallOK, Counted, ArbInvariant
<1>4. /\ ptr' \in [Threads -> Entries \cup {None}] /\ ptr'[t] = None
      /\ \A u \in Threads \ {t} : ptr'[u] = ptr[u]
  BY <1>2 DEF TypeOK
<1>5. /\ pc' \in [Threads -> Places] /\ pc'[t] \notin Counted
      /\ arg' \in [Threads -> AppCall \cup ShellCommands \cup Apps \cup {None}]
      /\ \A u \in Threads \ {t} : pc'[u] = pc[u] /\ arg'[u] = arg[u]
      /\ CallOK(t)'
  <2>1. CASE pc[t] = "putDirect"
    <3>1. Goto(t, "direct") /\ arg' = arg /\ "direct" \in Places
      BY <2>1 DEF Put, Places
    <3>2. pc' \in [Threads -> Places] /\ pc'[t] = "direct" /\ \A u \in Threads \ {t} : pc'[u] = pc[u]
      BY <3>1, Moves
    <3>3. CallOK(t)'
      BY <1>1, <1>2, <1>4, <2>1, <3>1, <3>2, ThreadNames DEF CallOK, Counted
    <3>4. QED
      BY <3>1, <3>2, <3>3 DEF TypeOK, Counted
  <2>2. CASE pc[t] # "putDirect"
    <3>1. Done(t)
      BY <2>2 DEF Put, Done
    <3>2. QED
      BY <1>4, <3>1, Finished, IdleCall DEF Counted
  <2>3. QED
    BY <2>1, <2>2
<1>6. StepOf(t)
  BY <1>2, <1>4, <1>5 DEF StepOf
<1>7. /\ CallsOK' /\ TableOK' /\ LifeOK' /\ RequestsOrdered' /\ WinnerCommanded'
      /\ entry' \in [Entries -> EntryType]
      /\ \A e \in Entries : \A a : HasRequest(entry'[e], a) => HasRequest(entry[e], a)
  BY <1>2, <1>3, <1>4, <1>5, <1>6, GiveStep
<1>8. TypeOK'
  BY <1>2, <1>4, <1>5, <1>7 DEF TypeOK, Places
<1>9. RemovalOK' /\ GoneAppHasNoRequest'
  BY <1>2, <1>3, <1>6, <1>7, <1>8, RemovalSame
<1>10. QED
  BY <1>7, <1>8, <1>9 DEF ArbInvariant

(* What is queued for execution is a value within the limits, or a short request. *)
LEMMA CommandedType ==
    ASSUME NEW en \in EntryType, NEW old \in Value \cup {Short, None}
    PROVE  Commanded(en, old) \in Value \cup {Short, None}
<1>1. CASE en.reqs = <<>>
  BY <1>1 DEF Commanded
<1>2. CASE en.reqs # <<>>
  <2>1. en.reqs \in Seq(Request) /\ en.lower \in Value /\ en.upper \in Value
    BY EntryFields
  <2>2. Head(en.reqs) \in Request
    BY <1>2, <2>1, SeqShape
  <2>3. Head(en.reqs).val \in Value \cup {Short}
    BY <2>2 DEF Request
  <2>4. QED
    BY <1>2, <2>1, <2>3 DEF Commanded, Limited
<1>3. QED
  BY <1>1, <1>2

(* The winner is queued whenever it is another request than before. *)
LEMMA WinnerQueued ==
    ASSUME NEW old \in EntryType, NEW new \in EntryType, NEW value, NEW a, EntryOK(old, value),
           old.state = "live", new.upper = old.upper, new.lower = old.lower,
           Arranged(new.reqs, new.type), From(new.reqs, old.reqs, a),
           ~new.enabled => new.reqs = <<>>
    PROVE  EntryOK(new, IF WinnerChanged(old.reqs, new.reqs, a) THEN Commanded(new, value)
                        ELSE value)
<1> DEFINE c == IF WinnerChanged(old.reqs, new.reqs, a) THEN Commanded(new, value) ELSE value
<1> SUFFICES ASSUME new.reqs # <<>> PROVE c = Limited(new, Head(new.reqs).val)
  BY DEF EntryOK
<1>1. CASE WinnerChanged(old.reqs, new.reqs, a)
  BY <1>1 DEF Commanded
<1>2. CASE ~WinnerChanged(old.reqs, new.reqs, a)
  <2>1. old.reqs \in Seq(Request) /\ new.reqs \in Seq(Request) /\ Arranged(old.reqs, old.type)
    BY EntryFields DEF EntryOK
  <2>2. old.reqs # <<>> /\ Head(new.reqs) = Head(old.reqs)
    BY <1>2, <2>1, SameWinner
  <2>3. Limited(new, Head(new.reqs).val) = Limited(old, Head(old.reqs).val)
    BY <2>2 DEF Limited
  <2>4. QED
    BY <1>2, <2>2, <2>3 DEF EntryOK
<1>3. QED
  BY <1>1, <1>2

(* One entry's part of RequestsOrdered and WinnerCommanded. *)
LEMMA EntryInOrder ==
    ASSUME ArbInvariant, NEW e \in Entries
    PROVE  EntryOK(entry[e], commanded[e])
  BY DEF ArbInvariant, RequestsOrdered, WinnerCommanded, EntryOK

LEMMA EntryExecuteStep ==
    ASSUME TypeOK, ArbInvariant, NEW a \in Apps, EntryExecute(a)
    PROVE  TypeOK' /\ ArbInvariant'
<1> DEFINE e   == ptr[a]
           old == entry[e]
           req == [app |-> a, val |-> arg[a].val]
           reqs == ArbitrateRequest(old.reqs, old.type, req)
           new == [old EXCEPT !.reqs = reqs]
           value == IF WinnerChanged(old.reqs, reqs, a) THEN Commanded(new, commanded[e])
                    ELSE commanded[e]
<1>1. CallOK(a) /\ a # Remover /\ pc[a] = "entry" /\ a \in Threads /\ a # Shell
  BY CallFacts, ThreadNames DEF ArbInvariant, EntryExecute
<1>2. UNCHANGED <<mgrEnabled, ctxEnabled, context, table, arg, ptr, index, gone, shifted, calls>>
  BY DEF EntryExecute, KeepFlags, KeepRemoval
<1>3. e \in Entries /\ e # None /\ a \notin gone /\ arg[a] \in AppCall /\ context
  BY <1>1 DEF CallOK, Counted, TypeOK
<1>4. old \in EntryType /\ old.reqs \in Seq(Request) /\ old.type \in ArbType
  BY <1>3, EntryFields DEF TypeOK
<1>5. req \in Request /\ req.app = a
  BY <1>3 DEF Request, AppCall
<1>6. EntryOK(old, commanded[e]) /\ old.state = "live" /\ Arranged(old.reqs, old.type)
  <2>1. EntryOK(old, commanded[e])
    BY <1>3, EntryInOrder
  <2>2. old.state = "live"
    BY <1>1, <1>3 DEF ArbInvariant, LifeOK
  <2>3. QED
    BY <2>1, <2>2 DEF EntryOK
<1>7. /\ reqs \in Seq(Request) /\ Arranged(reqs, old.type) /\ From(reqs, old.reqs, a)
  <2> HIDE DEF old, req
  <2> QED
    BY <1>4, <1>5, <1>6, ArbitrateIs
<1>8. CASE old.enabled
  <2>1. /\ entry' = [entry EXCEPT ![e] = new]
        /\ commanded' = [commanded EXCEPT ![e] = value]
        /\ Goto(a, "put") /\ "put" \in Places
    BY <1>8 DEF EntryExecute, Places
  <2> HIDE DEF reqs
  <2>2. /\ new \in EntryType /\ new.reqs = reqs /\ new.type = old.type /\ new.enabled
        /\ new.upper = old.upper /\ new.lower = old.lower /\ new.state = old.state
        /\ new.ref = old.ref /\ new.marked = old.marked /\ new.deleteEvent = old.deleteEvent
    BY <1>4, <1>7, <1>8 DEF EntryType
  <2> HIDE DEF new
  <2>3. /\ entry' \in [Entries -> EntryType] /\ entry'[e] = new
        /\ \A x \in Entries \ {e} : entry'[x] = entry[x]
    BY <1>3, <2>1, <2>2 DEF TypeOK
  <2>4. value \in Value \cup {Short, None}
    BY <1>3, <2>2, CommandedType DEF TypeOK
  <2>5. EntryOK(new, value)
    <3> HIDE DEF old
    <3> QED
      BY <1>4, <1>6, <1>7, <2>2, WinnerQueued
  <2> HIDE DEF value
  <2>6. /\ commanded' \in [Entries -> Value \cup {Short, None}] /\ commanded'[e] = value
        /\ \A x \in Entries \ {e} : commanded'[x] = commanded[x]
    BY <1>3, <2>1, <2>4 DEF TypeOK
  <2>7. pc' \in [Threads -> Places] /\ pc'[a] = "put" /\ \A u \in Threads \ {a} : pc'[u] = pc[u]
    BY <1>1, <2>1, Moves
  <2>8. TypeOK'
    BY <1>2, <2>3, <2>6, <2>7 DEF TypeOK, Places
  <2>9. StepOf(a)
    BY <1>2, <2>7 DEF StepOf
  <2>10. CallOK(a)'
    BY <1>1, <1>2, <1>3, <2>7 DEF CallOK, Counted
  <2>11. ASSUME NEW x \in Entries
         PROVE  SameLife(x) /\ (SameReqs(x) \/ EntryOK(entry'[x], commanded'[x]))
    <3>1. CASE x = e
      BY <2>2, <2>3, <2>5, <2>6, <3>1 DEF SameLife
    <3>2. CASE x # e
      BY <2>3, <2>6, <3>2 DEF SameLife, SameReqs
    <3>3. QED
      BY <3>1, <3>2
  <2>12. ASSUME NEW x \in Entries, NEW b \in gone, HasRequest(entry'[x], b)
         PROVE  HasRequest(entry[x], b)
    <3>1. CASE x = e
      <4>1. PICK i \in 1 .. Len(reqs) : reqs[i].app = b
        BY <2>2, <2>3, <2>12, <3>1 DEF HasRequest
      <4>2. PICK j \in 1 .. Len(old.reqs) : reqs[i] = old.reqs[j]
        BY <1>3, <1>7, <4>1 DEF From
      <4>3. QED
        BY <3>1, <4>1, <4>2 DEF HasRequest
    <3>2. CASE x # e
      BY <2>3, <2>12, <3>2
    <3>3. QED
      BY <3>1, <3>2
  <2>13. pc[a] \in Counted \ {"release"} /\ pc'[a] \in Counted \ {"release"}
    BY <1>1, <2>7 DEF Counted
  <2>14. QED
    BY <1>1, <1>2, <1>3, <2>8, <2>9, <2>10, <2>11, <2>12, <2>13, ChangeStep
<1>9. CASE ~old.enabled
  <2>1. Goto(a, "putDirect") /\ "putDirect" \in Places /\ UNCHANGED <<entry, commanded>>
    BY <1>9 DEF EntryExecute, Places
  <2>2. pc' \in [Threads -> Places] /\ pc'[a] = "putDirect" /\ \A u \in Threads \ {a} : pc'[u] = pc[u]
    BY <1>1, <2>1, Moves
  <2>3. TypeOK'
    BY <1>2, <2>1, <2>2 DEF TypeOK, Places
  <2>4. StepOf(a)
    BY <1>2, <2>2 DEF StepOf
  <2>5. CallOK(a)'
    BY <1>1, <1>2, <1>3, <2>2 DEF CallOK, Counted
  <2>6. pc[a] \in Counted \ {"release"} /\ pc'[a] \in Counted \ {"release"}
    BY <1>1, <2>2 DEF Counted
  <2>7. QED
    BY <1>1, <1>2, <2>1, <2>3, <2>4, <2>5, <2>6, QuietStep
<1>10. QED
  BY <1>8, <1>9

(* Purging leaves everything but the requests. *)
LEMMA PurgedFacts ==
    ASSUME TypeOK, ArbInvariant, NEW ents, entry' = Purged(ents), commanded' = commanded
    PROVE  /\ entry' \in [Entries -> EntryType]
           /\ \A e \in Entries : SameLife(e) /\ (SameReqs(e) \/ EntryOK(entry'[e], commanded'[e]))
           /\ \A e \in Entries : \A a : HasRequest(entry'[e], a) => HasRequest(entry[e], a)
<1>1. ASSUME NEW e \in Entries
      PROVE  /\ entry'[e] \in EntryType /\ SameLife(e) /\ (SameReqs(e) \/ EntryOK(entry'[e], commanded'[e]))
             /\ \A a : HasRequest(entry'[e], a) => HasRequest(entry[e], a)
  <2>1. entry[e] \in EntryType
    BY DEF TypeOK
  <2>2. CASE e \in ents
    <3>1. entry'[e] = [entry[e] EXCEPT !.reqs = <<>>]
      BY <2>2 DEF Purged
    <3>2. <<>> \in Seq(Request)
      OBVIOUS
    <3>3. entry'[e] \in EntryType /\ entry'[e].reqs = <<>> /\ SameLife(e)
      BY <2>1, <3>1, <3>2 DEF EntryType, SameLife
    <3>4. QED
      BY <3>3, EmptyEntry
  <2>3. CASE e \notin ents
    <3>1. entry'[e] = entry[e]
      BY <2>3 DEF Purged
    <3>2. QED
      BY <2>1, <3>1 DEF SameLife, SameReqs
  <2>4. QED
    BY <2>2, <2>3
<1>2. entry' = [e \in Entries |-> entry'[e]]
  BY DEF Purged
<1>3. QED
  BY <1>1, <1>2

LEMMA PurgeAllStep ==
    ASSUME TypeOK, ArbInvariant, PurgeAll
    PROVE  TypeOK' /\ ArbInvariant'
<1>1. CallOK(Shell) /\ Shell # Remover /\ pc[Shell] = "purge" /\ Shell \in Threads
  BY CallFacts, ThreadNames DEF ArbInvariant, PurgeAll
<1>2. /\ Done(Shell) /\ entry' = Purged(Range(table))
      /\ UNCHANGED <<mgrEnabled, ctxEnabled, context, table, commanded, ptr, index,
                     gone, shifted, calls>>
  BY DEF PurgeAll, KeepFlags, KeepRemoval
<1>3. /\ pc' \in [Threads -> Places] /\ pc'[Shell] = "idle" /\ arg'[Shell] = None
      /\ arg' \in [Threads -> AppCall \cup ShellCommands \cup Apps \cup {None}]
      /\ \A u \in Threads \ {Shell} : pc'[u] = pc[u] /\ arg'[u] = arg[u]
  BY <1>1, <1>2, Finished
<1>4. /\ entry' \in [Entries -> EntryType]
      /\ \A e \in Entries : SameLife(e) /\ (SameReqs(e) \/ EntryOK(entry'[e], commanded'[e]))
      /\ \A e \in Entries : \A a : HasRequest(entry'[e], a) => HasRequest(entry[e], a)
  BY <1>2, PurgedFacts
<1>5. TypeOK'
  BY <1>2, <1>3, <1>4 DEF TypeOK, Places
<1>6. StepOf(Shell) /\ ptr[Shell] = None
  BY <1>1, <1>2, <1>3 DEF StepOf, CallOK, Counted
<1>7. CallOK(Shell)'
  BY <1>1, <1>2, <1>3, <1>6, IdleCall
<1>8. ~context => entry' = entry
  <2>1. Range(<<>>) = {}
    BY DEF Range
  <2>2. ~context => Range(table) = {}
    BY <2>1 DEF ArbInvariant, TableOK
  <2>3. ~context => \A e \in Entries : entry'[e] = entry[e]
    BY <1>2, <2>2 DEF Purged
  <2>4. QED
    BY <1>4, <2>3 DEF TypeOK
<1>9. QED
  BY <1>1, <1>2, <1>4, <1>5, <1>6, <1>7, <1>8, ChangeStep

LEMMA SetContextStateStep ==
    ASSUME TypeOK, ArbInvariant, SetContextState
    PROVE  TypeOK' /\ ArbInvariant'
<1>1. CallOK(Shell) /\ Shell # Remover /\ pc[Shell] = "command" /\ Shell \in Threads
  BY CallFacts, ThreadNames DEF ArbInvariant, SetContextState
<1>2. /\ Done(Shell)
      /\ ctxEnabled' = arg[Shell].on /\ mgrEnabled' = (mgrEnabled \/ arg[Shell].on)
      /\ UNCHANGED <<context, table, commanded, ptr, index, gone, shifted, calls>>
  BY DEF SetContextState, KeepRemoval
<1>3. arg[Shell].on \in BOOLEAN /\ ptr[Shell] = None /\ context
  <2>1. arg[Shell] \in ShellCommands /\ arg[Shell].name = "state" /\ arg[Shell].level = "context"
    BY <1>1 DEF SetContextState, CallOK
  <2>2. QED
    BY <1>1, <2>1 DEF CallOK, ShellCommands, Counted
<1>4. /\ pc' \in [Threads -> Places] /\ pc'[Shell] = "idle" /\ arg'[Shell] = None
      /\ arg' \in [Threads -> AppCall \cup ShellCommands \cup Apps \cup {None}]
      /\ \A u \in Threads \ {Shell} : pc'[u] = pc[u] /\ arg'[u] = arg[u]
  BY <1>1, <1>2, Finished
<1>5. /\ entry' \in [Entries -> EntryType]
      /\ \A e \in Entries : SameLife(e) /\ (SameReqs(e) \/ EntryOK(entry'[e], commanded'[e]))
      /\ \A e \in Entries : \A a : HasRequest(entry'[e], a) => HasRequest(entry[e], a)
  <2>1. CASE arg[Shell].on
    <3>1. entry' = entry
      BY <2>1 DEF SetContextState
    <3>2. QED
      BY <1>2, <3>1 DEF SameLife, SameReqs, TypeOK
  <2>2. CASE ~arg[Shell].on
    <3>1. entry' = Purged(Range(table))
      BY <2>2 DEF SetContextState
    <3>2. QED
      BY <1>2, <3>1, PurgedFacts
  <2>3. QED
    BY <2>1, <2>2
<1>6. mgrEnabled' \in BOOLEAN /\ ctxEnabled' \in BOOLEAN
  BY <1>2, <1>3 DEF TypeOK
<1>7. TypeOK'
  BY <1>2, <1>4, <1>5, <1>6 DEF TypeOK, Places
<1>8. StepOf(Shell)
  BY <1>2, <1>4 DEF StepOf
<1>9. CallOK(Shell)'
  BY <1>1, <1>2, <1>3, <1>4, IdleCall
<1>10. QED
  BY <1>1, <1>2, <1>3, <1>5, <1>7, <1>8, <1>9, ChangeStep

LEMMA SetEntryStateStep ==
    ASSUME TypeOK, ArbInvariant, SetEntryState
    PROVE  TypeOK' /\ ArbInvariant'
<1>1. CallOK(Shell) /\ Shell # Remover /\ pc[Shell] = "command" /\ Shell \in Threads /\ Shell \notin Apps
  BY CallFacts, ThreadNames DEF ArbInvariant, SetEntryState
<1>2. UNCHANGED <<index, gone, shifted, calls>>
  BY DEF SetEntryState, KeepRemoval
<1>3. arg[Shell].on \in BOOLEAN /\ ptr[Shell] = None /\ context /\ arg[Shell].name = "state"
  <2>1. arg[Shell] \in ShellCommands /\ arg[Shell].name = "state" /\ arg[Shell].level = "entry"
    BY <1>1 DEF SetEntryState, CallOK
  <2>2. QED
    BY <1>1, <2>1 DEF CallOK, ShellCommands, Counted
<1>4. CASE Lookup(arg[Shell].prim) = {}
  <2>1. /\ Done(Shell)
        /\ UNCHANGED <<mgrEnabled, ctxEnabled, context, table, entry, commanded, ptr>>
    BY <1>4 DEF SetEntryState, KeepEntries, KeepFlags
  <2>2. /\ pc' \in [Threads -> Places] /\ pc'[Shell] = "idle" /\ arg'[Shell] = None
        /\ arg' \in [Threads -> AppCall \cup ShellCommands \cup Apps \cup {None}]
        /\ \A u \in Threads \ {Shell} : pc'[u] = pc[u] /\ arg'[u] = arg[u]
    BY <1>1, <2>1, Finished
  <2>3. TypeOK'
    BY <1>2, <2>1, <2>2 DEF TypeOK, Places
  <2>4. StepOf(Shell)
    BY <1>2, <2>1, <2>2 DEF StepOf
  <2>5. CallOK(Shell)'
    BY <1>1, <1>3, <2>1, <2>2, IdleCall
  <2>6. QED
    BY <1>1, <1>2, <1>3, <2>1, <2>3, <2>4, <2>5, QuietStep
<1>5. CASE Lookup(arg[Shell].prim) # {}
  <2> DEFINE on == arg[Shell].on
  <2>1. PICK e \in Lookup(arg[Shell].prim) :
            /\ entry' = [entry EXCEPT ![e] = GetRef(Switched(@, on))]
            /\ ptr' = [ptr EXCEPT ![Shell] = e]
            /\ ctxEnabled' = (ctxEnabled \/ on)
            /\ mgrEnabled' = (mgrEnabled \/ on)
            /\ Goto(Shell, "put")
            /\ UNCHANGED <<arg, table, commanded, context>>
    BY <1>5 DEF SetEntryState
  <2>2. e \in Range(table) /\ e \in Entries /\ entry[e] \in EntryType
    BY DEF Lookup, TypeOK, Range
  <2>3. pc' \in [Threads -> Places] /\ pc'[Shell] = "put" /\ \A u \in Threads \ {Shell} : pc'[u] = pc[u]
    <3>1. "put" \in Places
      BY DEF Places
    <3>2. QED
      BY <1>1, <2>1, <3>1, Moves
  <2> DEFINE old == entry[e]
             reqs == IF on THEN old.reqs ELSE <<>>
             new == GetRef(Switched(old, on))
  <2>4. /\ new \in EntryType /\ new.reqs = reqs /\ new.enabled = on /\ new.ref = old.ref + 1
        /\ new.state = old.state /\ new.type = old.type /\ new.upper = old.upper
        /\ new.lower = old.lower /\ new.marked = old.marked /\ new.deleteEvent = old.deleteEvent
    <3>1. on \in BOOLEAN /\ reqs \in Seq(Request) /\ old \in EntryType
      <4>1. <<>> \in Seq(Request)
        OBVIOUS
      <4>2. QED
        BY <1>3, <2>2, <4>1, EntryFields
    <3> DEFINE one == [old EXCEPT !.enabled = on]
               two == [one EXCEPT !.reqs = reqs]
    <3>2. new = GetRef(two)
      BY <3>1 DEF EntryType, Switched
    <3> HIDE DEF on, reqs, old, new
    <3>3. /\ one \in EntryType /\ one.enabled = on /\ one.ref = old.ref
          /\ one.state = old.state /\ one.type = old.type /\ one.upper = old.upper
          /\ one.lower = old.lower /\ one.marked = old.marked /\ one.deleteEvent = old.deleteEvent
      BY <3>1 DEF EntryType
    <3> HIDE DEF one
    <3>4. /\ two \in EntryType /\ two.enabled = on /\ two.ref = old.ref /\ two.reqs = reqs
          /\ two.state = old.state /\ two.type = old.type /\ two.upper = old.upper
          /\ two.lower = old.lower /\ two.marked = old.marked /\ two.deleteEvent = old.deleteEvent
      BY <3>1, <3>3 DEF EntryType
    <3> HIDE DEF two
    <3>5. new \in EntryType
      BY <3>2, <3>4, EntryFields
    <3>6. QED
      BY <3>2, <3>4, <3>5 DEF GetRef, EntryType
  <2>5. /\ entry' \in [Entries -> EntryType] /\ entry'[e] = new
        /\ \A x \in Entries \ {e} : entry'[x] = entry[x]
    <3>1. entry' = [entry EXCEPT ![e] = new]
      BY <2>1, <2>2 DEF TypeOK
    <3> HIDE DEF new
    <3>2. QED
      BY <2>2, <2>4, <3>1 DEF TypeOK
  <2>6. /\ ptr' \in [Threads -> Entries \cup {None}] /\ ptr'[Shell] = e
        /\ \A u \in Threads \ {Shell} : ptr'[u] = ptr[u]
    BY <1>1, <2>1, <2>2 DEF TypeOK
  <2> HIDE DEF new
  <2>7. TypeOK'
    <3>1. mgrEnabled' \in BOOLEAN /\ ctxEnabled' \in BOOLEAN
      BY <1>3, <2>1 DEF TypeOK
    <3>2. UNCHANGED <<arg, table, commanded, context>>
      BY <2>1
    <3>3. QED
      BY <1>2, <2>3, <2>5, <2>6, <3>1, <3>2 DEF TypeOK, Places
  <2>8. StepOf(Shell)
    BY <1>2, <2>1, <2>3, <2>6 DEF StepOf
  <2>9. CallOK(Shell)'
    <3>1. arg' = arg /\ context'
      BY <1>3, <2>1
    <3>2. QED
      BY <1>1, <1>3, <2>2, <2>3, <2>6, <3>1, ThreadNames DEF CallOK, Counted
  <2>10. old.state = "live" /\ ~old.marked /\ EntryOK(old, commanded[e])
    BY <2>2, EntryInOrder DEF ArbInvariant, TableOK
  <2>11. SameReqs(e) \/ EntryOK(entry'[e], commanded'[e])
    <3>1. CASE on
      <4>1. commanded' = commanded /\ reqs = old.reqs
        BY <2>1, <3>1
      <4>2. CASE old.enabled
        BY <1>3, <2>2, <2>4, <2>5, <2>10, <3>1, <4>1, <4>2, EntryFields DEF SameReqs
      <4>3. CASE ~old.enabled
        <5>1. entry'[e].reqs = <<>>
          BY <2>4, <2>5, <2>10, <4>1, <4>3 DEF EntryOK
        <5>2. QED
          BY <5>1, EmptyEntry
      <4>4. QED
        BY <4>2, <4>3
    <3>2. CASE ~on
      <4>1. entry'[e].reqs = <<>>
        BY <2>4, <2>5, <3>2
      <4>2. QED
        BY <4>1, EmptyEntry
    <3>3. QED
      BY <3>1, <3>2
  <2>12. /\ entry'[e].state = "live" /\ entry'[e].marked = entry[e].marked
         /\ entry'[e].ref = entry[e].ref + 1
         /\ entry'[e].deleteEvent = entry[e].deleteEvent
    BY <2>4, <2>5, <2>10
  <2>13. pc'[Shell] \in Counted \ {"release"}
    BY <2>3 DEF Counted
  <2>14. UNCHANGED <<table, context, gone, shifted, commanded>>
    BY <1>2, <2>1
  <2>15. \A x \in Entries \ {e} : entry'[x] = entry[x] /\ commanded'[x] = commanded[x]
    BY <2>5, <2>14
  <2>16. CallsOK' /\ TableOK' /\ LifeOK' /\ RequestsOrdered' /\ WinnerCommanded'
    BY <1>1, <1>3, <2>2, <2>6, <2>8, <2>9, <2>11, <2>12, <2>13, <2>14, <2>15, TakeStep
  <2>17. ASSUME NEW x \in Entries, NEW b \in gone, HasRequest(entry'[x], b)
         PROVE  HasRequest(entry[x], b)
    <3>1. CASE x = e
      <4>1. reqs # <<>>
        BY <2>4, <2>5, <2>17, <3>1 DEF HasRequest
      <4>2. entry'[x].reqs = entry[x].reqs
        BY <2>4, <2>5, <3>1, <4>1
      <4>3. QED
        BY <2>17, <4>2 DEF HasRequest
    <3>2. CASE x # e
      BY <2>5, <2>17, <3>2
    <3>3. QED
      BY <3>1, <3>2
  <2>18. RemovalOK' /\ GoneAppHasNoRequest'
    BY <1>1, <2>7, <2>8, <2>14, <2>17, RemovalSame
  <2>19. QED
    BY <2>7, <2>16, <2>18 DEF ArbInvariant
<1>6. QED
  BY <1>4, <1>5

----------------------------------------------------------------------------
(* The walks over the table *)

(* A step of EsifArbMgr_RemoveApp in its walk: what has to be shown of the walk itself. *)
LEMMA WalkStep ==
    ASSUME TypeOK, TypeOK', ArbInvariant, UNCHANGED <<table, gone, shifted>>,
           \A e \in Entries : \A a \in gone : HasRequest(entry'[e], a) => HasRequest(entry[e], a),
           arg'[Remover] = IF pc'[Remover] = "idle" THEN None ELSE arg[Remover],
           ~shifted /\ pc'[Remover] \in {"visit", "iterPut"} =>
               index'[Remover] \in 1 .. Len(table) /\ ptr'[Remover] = table[index'[Remover]],
           ~shifted => \A i \in 1 .. Len(table) :
               (pc'[Remover] = "idle" \/ i < index'[Remover]
                   \/ (i = index'[Remover] /\ pc'[Remover] = "iterPut"))
                   => ~HasRequest(entry'[table[i]], arg[Remover])
    PROVE  RemovalOK' /\ GoneAppHasNoRequest'
<1>1. /\ DOMAIN table = 1 .. Len(table) /\ DOMAIN table' = 1 .. Len(table)
      /\ \A i \in 1 .. Len(table) : table[i] \in Entries
  BY DEF TypeOK
<1>2. RemovalOK'
  <2> SUFFICES ASSUME ~shifted
               PROVE  /\ pc'[Remover] \in {"visit", "iterPut"} =>
                             index'[Remover] \in DOMAIN table' /\ ptr'[Remover] = table'[index'[Remover]]
                      /\ pc'[Remover] # "idle" =>
                             \A i \in DOMAIN table' :
                                 i < index'[Remover] \/ (i = index'[Remover] /\ pc'[Remover] = "iterPut")
                                     => ~HasRequest(entry'[table'[i]], arg'[Remover])
    BY DEF RemovalOK
  <2> QED
    BY <1>1
<1>3. GoneAppHasNoRequest'
  <2> SUFFICES ASSUME NEW a \in gone, ~shifted, arg'[Remover] # a, NEW i \in 1 .. Len(table),
                      HasRequest(entry'[table[i]], a)
               PROVE  FALSE
    BY <1>1 DEF GoneAppHasNoRequest, Range
  <2>1. HasRequest(entry[table[i]], a) /\ table[i] \in Range(table)
    BY <1>1 DEF Range
  <2>2. CASE arg[Remover] # a
    BY <2>1, <2>2 DEF ArbInvariant, GoneAppHasNoRequest
  <2>3. CASE arg[Remover] = a
    BY <2>3
  <2>4. QED
    BY <2>2, <2>3
<1>4. QED
  BY <1>2, <1>3

LEMMA IterNextStep ==
    ASSUME TypeOK, ArbInvariant, NEW t \in Threads, IterNext(t)
    PROVE  TypeOK' /\ ArbInvariant'
<1> DEFINE rest == {i \in DOMAIN table : i >= index[t] /\ CanGetRef(table[i])}
<1>1. CallOK(t) /\ pc[t] = "next" /\ (t = Shell \/ t = Remover) /\ t \notin Apps
  <2>1. CallOK(t) /\ pc[t] = "next" /\ (t \in Apps \/ t = Shell \/ t = Remover)
    BY CallFacts DEF ArbInvariant, IterNext
  <2>2. QED
    BY <2>1, ThreadNames DEF CallOK
<1>2. UNCHANGED <<mgrEnabled, ctxEnabled, context, table, commanded, gone, shifted, calls>>
  BY DEF IterNext, KeepFlags
<1>3. ptr[t] = None /\ context
  BY <1>1 DEF CallOK, Counted
<1>4. /\ DOMAIN table = 1 .. Len(table) /\ Len(table) \in Nat /\ index[t] \in Nat
      /\ \A i \in 1 .. Len(table) : table[i] \in Entries /\ table[i] \in Range(table)
  BY DEF TypeOK, Range
<1>5. \A i \in 1 .. Len(table) : i >= index[t] => i \in rest
  <2>1. ASSUME NEW i \in 1 .. Len(table) PROVE ~entry[table[i]].marked
    BY <1>4 DEF ArbInvariant, TableOK
  <2>2. QED
    BY <1>4, <2>1 DEF CanGetRef
<1>6. ~shifted /\ t = Remover => \A i \in 1 .. Len(table) :
          i < index[Remover] => ~HasRequest(entry[table[i]], arg[Remover])
  BY <1>1, <1>4 DEF ArbInvariant, RemovalOK
<1>7. CASE rest = {}
  <2>1. Done(t) /\ UNCHANGED <<index, ptr, entry>>
    BY <1>7 DEF IterNext
  <2>2. /\ pc' \in [Threads -> Places] /\ pc'[t] = "idle" /\ arg'[t] = None
        /\ arg' \in [Threads -> AppCall \cup ShellCommands \cup Apps \cup {None}]
        /\ \A u \in Threads \ {t} : pc'[u] = pc[u] /\ arg'[u] = arg[u]
    BY <2>1, Finished
  <2>3. TypeOK'
    BY <1>2, <2>1, <2>2 DEF TypeOK, Places
  <2>4. StepOf(t)
    BY <2>1, <2>2 DEF StepOf
  <2>5. CallOK(t)'
    BY <1>3, <2>1, <2>2, IdleCall
  <2>6. CASE t = Shell
    BY <1>2, <1>3, <2>1, <2>3, <2>4, <2>5, <2>6, QuietStep, ThreadNames
  <2>7. CASE t = Remover
    <3>1. \A e \in Entries : SameLife(e) /\ SameReqs(e)
      BY <1>2, <2>1 DEF SameLife, SameReqs
    <3>2. CallsOK' /\ TableOK' /\ LifeOK' /\ RequestsOrdered' /\ WinnerCommanded'
      BY <1>2, <1>3, <2>1, <2>4, <2>5, <3>1, ChangeCore
    <3>3. \A e \in Entries : \A a \in gone : HasRequest(entry'[e], a) => HasRequest(entry[e], a)
      BY <2>1
    <3>4. \A i \in 1 .. Len(table) : i < index[Remover]
      BY <1>4, <1>5, <1>7, <2>7
    <3>5. ~shifted => \A i \in 1 .. Len(table) : ~HasRequest(entry'[table[i]], arg[Remover])
      BY <1>6, <2>1, <2>7, <3>4
    <3>6. RemovalOK' /\ GoneAppHasNoRequest'
      BY <1>2, <2>2, <2>3, <2>7, <3>3, <3>5, WalkStep
    <3>7. QED
      BY <2>3, <3>2, <3>6 DEF ArbInvariant
  <2>8. QED
    BY <1>1, <2>6, <2>7
<1>8. CASE rest # {}
  <2> DEFINE i == CHOOSE k \in rest : \A j \in rest : k <= j
             e == table[i]
  <2>1. i \in rest /\ \A j \in rest : i <= j
    <3>1. rest \in SUBSET Nat
      BY <1>4
    <3>2. \E k \in rest : \A j \in rest : k <= j
      <4> HIDE DEF rest
      <4> QED
        BY <1>8, <3>1, LeastExists
    <3> HIDE DEF rest
    <3>3. QED
      BY <3>2
  <2>2. /\ index' = [index EXCEPT ![t] = i] /\ ptr' = [ptr EXCEPT ![t] = e]
        /\ entry' = [entry EXCEPT ![e] = GetRef(@)]
        /\ Goto(t, "visit") /\ UNCHANGED arg /\ "visit" \in Places
    BY <1>8 DEF IterNext, Places
  <2>3. i \in 1 .. Len(table) /\ i \in Nat
    BY <1>4, <2>1
  <2>4. \A j \in 1 .. Len(table) : j < i => j < index[t]
    BY <1>4, <1>5, <2>1, <2>3
  <2> HIDE DEF i, rest
  <2>5. e \in Range(table) /\ e \in Entries /\ entry[e] \in EntryType
    BY <1>4, <2>3 DEF TypeOK
  <2>6. pc' \in [Threads -> Places] /\ pc'[t] = "visit" /\ \A u \in Threads \ {t} : pc'[u] = pc[u]
    BY <2>2, Moves
  <2> HIDE DEF e
  <2>7. /\ entry' \in [Entries -> EntryType] /\ entry'[e] = GetRef(entry[e])
        /\ \A x \in Entries \ {e} : entry'[x] = entry[x]
    BY <2>2, <2>5, EntryFields DEF TypeOK
  <2>8. /\ ptr' \in [Threads -> Entries \cup {None}] /\ ptr'[t] = e
        /\ \A u \in Threads \ {t} : ptr'[u] = ptr[u]
        /\ index' \in [Threads -> Nat] /\ index'[t] = i
        /\ \A u \in Threads \ {t} : index'[u] = index[u]
    BY <2>2, <2>3, <2>5 DEF TypeOK
  <2>9. TypeOK'
    BY <1>2, <2>2, <2>6, <2>7, <2>8 DEF TypeOK, Places
  <2>10. StepOf(t)
    BY <2>2, <2>6, <2>8 DEF StepOf
  <2>11. CallOK(t)'
    BY <1>1, <1>2, <1>3, <2>2, <2>5, <2>6, <2>8, ThreadNames DEF CallOK, Counted
  <2>12. entry[e].state = "live" /\ ~entry[e].marked
    BY <2>5 DEF ArbInvariant, TableOK
  <2>13. /\ entry'[e].state = "live" /\ entry'[e].marked = entry[e].marked
         /\ entry'[e].ref = entry[e].ref + 1
         /\ entry'[e].deleteEvent = entry[e].deleteEvent /\ SameReqs(e)
         /\ entry'[e].reqs = entry[e].reqs
    BY <1>2, <2>5, <2>7, <2>12 DEF GetRef, EntryType, SameReqs
  <2>14. pc'[t] \in Counted \ {"release"}
    BY <2>6 DEF Counted
  <2>15. CallsOK' /\ TableOK' /\ LifeOK' /\ RequestsOrdered' /\ WinnerCommanded'
    BY <1>2, <1>3, <2>5, <2>7, <2>8, <2>10, <2>11, <2>13, <2>14, TakeStep
  <2>16. \A x \in Entries : \A b : HasRequest(entry'[x], b) => HasRequest(entry[x], b)
    BY <2>7, <2>13 DEF HasRequest
  <2>17. RemovalOK' /\ GoneAppHasNoRequest'
    <3>1. CASE t = Shell
      BY <1>2, <2>9, <2>10, <2>16, <3>1, RemovalSame, ThreadNames
    <3>2. CASE t = Remover
      <4>1. ~shifted => \A j \in 1 .. Len(table) :
                j < i => ~HasRequest(entry'[table[j]], arg[Remover])
        BY <1>4, <1>6, <2>4, <2>16, <3>2
      <4>2. QED
        BY <1>2, <2>2, <2>3, <2>6, <2>8, <2>9, <2>16, <3>2, <4>1, WalkStep DEF e
    <3>3. QED
      BY <1>1, <3>1, <3>2
  <2>18. QED
    BY <2>9, <2>15, <2>17 DEF ArbInvariant
<1>9. QED
  BY <1>7, <1>8

LEMMA IterPutStep ==
    ASSUME TypeOK, ArbInvariant, NEW t \in Threads, IterPut(t)
    PROVE  TypeOK' /\ ArbInvariant'
<1>1. CallOK(t) /\ pc[t] = "iterPut" /\ (t = Shell \/ t = Remover) /\ t \notin Apps
      /\ (ptr[t] # None => ptr[t] \in Entries)
  <2>1. CallOK(t) /\ pc[t] = "iterPut" /\ (t \in Apps \/ t = Shell \/ t = Remover)
        /\ (ptr[t] # None => ptr[t] \in Entries)
    BY CallFacts DEF ArbInvariant, IterPut
  <2>2. QED
    BY <2>1, ThreadNames DEF CallOK
<1>2. /\ UNCHANGED <<mgrEnabled, ctxEnabled, context, table, commanded, arg, gone, shifted, calls>>
      /\ entry' = [entry EXCEPT ![ptr[t]] = PutRef(@)] /\ ptr' = [ptr EXCEPT ![t] = None]
      /\ index' = [index EXCEPT ![t] = @ + 1] /\ Goto(t, "next") /\ "next" \in Places
  BY DEF IterPut, KeepFlags, Places
<1>3. ptr[t] # None /\ pc[t] \in Counted /\ ptr[t] \in Entries /\ context
  BY <1>1 DEF CallOK, Counted
<1>4. /\ ptr' \in [Threads -> Entries \cup {None}] /\ ptr'[t] = None
      /\ \A u \in Threads \ {t} : ptr'[u] = ptr[u]
      /\ index' \in [Threads -> Nat] /\ index[t] \in Nat /\ index'[t] = index[t] + 1
      /\ \A u \in Threads \ {t} : index'[u] = index[u]
  BY <1>2 DEF TypeOK
<1>5. pc' \in [Threads -> Places] /\ pc'[t] = "next" /\ \A u \in Threads \ {t} : pc'[u] = pc[u]
  BY <1>2, Moves
<1>6. StepOf(t) /\ pc'[t] \notin Counted
  BY <1>2, <1>4, <1>5 DEF StepOf, Counted
<1>7. CallOK(t)'
  BY <1>1, <1>2, <1>3, <1>4, <1>5, ThreadNames DEF CallOK, Counted
<1>8. /\ CallsOK' /\ TableOK' /\ LifeOK' /\ RequestsOrdered' /\ WinnerCommanded'
      /\ entry' \in [Entries -> EntryType]
      /\ \A e \in Entries : \A a : HasRequest(entry'[e], a) => HasRequest(entry[e], a)
  BY <1>2, <1>3, <1>4, <1>6, <1>7, GiveStep
<1>9. TypeOK'
  BY <1>2, <1>4, <1>5, <1>8 DEF TypeOK, Places
<1>10. RemovalOK' /\ GoneAppHasNoRequest'
  <2>1. CASE t = Shell
    BY <1>2, <1>6, <1>8, <1>9, <2>1, RemovalSame, ThreadNames
  <2>2. CASE t = Remover
    <3>1. /\ DOMAIN table = 1 .. Len(table)
          /\ \A i \in 1 .. Len(table) : table[i] \in Entries
      BY DEF TypeOK
    <3>2. ~shifted => \A i \in 1 .. Len(table) :
              i < index'[Remover] => ~HasRequest(entry[table[i]], arg[Remover])
      BY <1>1, <1>4, <2>2, <3>1 DEF ArbInvariant, RemovalOK
    <3>3. ~shifted => \A i \in 1 .. Len(table) :
              i < index'[Remover] => ~HasRequest(entry'[table[i]], arg[Remover])
      BY <1>8, <3>1, <3>2
    <3>4. QED
      BY <1>2, <1>5, <1>8, <1>9, <2>2, <3>3, WalkStep
  <2>3. QED
    BY <1>1, <2>1, <2>2
<1>11. QED
  BY <1>8, <1>9, <1>10 DEF ArbInvariant

----------------------------------------------------------------------------
(* EsifArbCtx_StopArbitration *)

LEMMA StopRemoveStep ==
    ASSUME TypeOK, ArbInvariant, StopRemove
    PROVE  TypeOK' /\ ArbInvariant'
<1> DEFINE e == ptr[Shell]
<1>1. CallOK(Shell) /\ Shell # Remover /\ pc[Shell] = "remove" /\ Shell \in Threads /\ Shell \notin Apps
  BY CallFacts, ThreadNames DEF ArbInvariant, StopRemove
<1>2. /\ UNCHANGED <<mgrEnabled, ctxEnabled, context, entry, commanded, arg, ptr, index, gone, calls>>
      /\ Goto(Shell, "release") /\ "release" \in Places
      /\ shifted' = (shifted \/ (pc[Remover] # "idle" /\ table' # table))
  BY DEF StopRemove, KeepFlags, Places
<1>3. e \in Entries /\ e # None /\ context
  BY <1>1 DEF CallOK, Counted, TypeOK
<1>4. pc' \in [Threads -> Places] /\ pc'[Shell] = "release" /\ \A u \in Threads \ {Shell} : pc'[u] = pc[u]
  BY <1>1, <1>2, Moves
<1>5. \A i, j \in 1 .. Len(table) : table[i] = table[j] => i = j
  BY DEF ArbInvariant, TableOK, TypeOK
<1>6. /\ table' \in Seq(Entries) /\ e \notin Range(table') /\ Range(table') \subseteq Range(table)
      /\ \A i, j \in DOMAIN table' : table'[i] = table'[j] => i = j
  <2>1. CASE e \notin Range(table)
    <3>1. table' = table
      BY <2>1 DEF StopRemove
    <3>2. QED
      BY <2>1, <3>1 DEF ArbInvariant, TableOK, TypeOK
  <2>2. CASE e \in Range(table)
    <3> DEFINE p == CHOOSE i \in DOMAIN table : table[i] = e
    <3>1. table' = RemoveAt(table, p)
      BY <2>2 DEF StopRemove
    <3>2. table \in Seq(Entries) /\ DOMAIN table = 1 .. Len(table) /\ Len(table) \in Nat
      BY DEF TypeOK
    <3>3. p \in 1 .. Len(table) /\ table[p] = e
      BY <2>2, <3>2 DEF Range
    <3> HIDE DEF p, e
    <3>4. /\ table' \in Seq(Entries) /\ Len(table') = Len(table) - 1
          /\ \A i \in 1 .. Len(table) - 1 : table'[i] = IF i < p THEN table[i] ELSE table[i + 1]
      BY <3>1, <3>2, <3>3, Removed
    <3>5. DOMAIN table' = 1 .. Len(table) - 1
      BY <3>4, SeqShape
    <3>6. ASSUME NEW i \in 1 .. Len(table) - 1, NEW j \in 1 .. Len(table) - 1, table'[i] = table'[j]
          PROVE  i = j
      <4> DEFINE Old(k) == IF k < p THEN k ELSE k + 1
      <4>1. /\ Old(i) \in 1 .. Len(table) /\ table'[i] = table[Old(i)]
            /\ Old(j) \in 1 .. Len(table) /\ table'[j] = table[Old(j)]
        BY <3>2, <3>3, <3>4
      <4>2. Old(i) = Old(j)
        <5> HIDE DEF Old
        <5> QED
          BY <1>5, <3>6, <4>1
      <4>3. QED
        BY <3>2, <3>3, <4>2
    <3>7. ASSUME NEW i \in 1 .. Len(table) - 1 PROVE table'[i] # e /\ table'[i] \in Range(table)
      <4> DEFINE k == IF i < p THEN i ELSE i + 1
      <4>1. k \in 1 .. Len(table) /\ table'[i] = table[k] /\ k # p
        BY <3>2, <3>3, <3>4
      <4> HIDE DEF k
      <4>2. table[k] # table[p]
        BY <1>5, <3>3, <4>1
      <4>3. QED
        BY <3>2, <3>3, <4>1, <4>2 DEF Range
    <3>8. QED
      BY <3>4, <3>5, <3>6, <3>7 DEF Range
  <2>3. QED
    BY <2>1, <2>2
<1>7. TypeOK'
  <2>1. shifted' \in BOOLEAN
    BY <1>2 DEF TypeOK
  <2>2. UNCHANGED <<mgrEnabled, ctxEnabled, context, entry, commanded, arg, ptr, index, gone, calls>>
    BY <1>2
  <2>3. QED
    BY <1>4, <1>6, <2>1, <2>2 DEF TypeOK, Places
<1>8. StepOf(Shell)
  BY <1>2, <1>4 DEF StepOf
<1>9. CallOK(Shell)'
  BY <1>1, <1>2, <1>3, <1>4 DEF CallOK, Counted
<1>10. CallsOK'
  BY <1>1, <1>2, <1>8, <1>9, CallsStep DEF ArbInvariant
<1>11. TableOK'
  <2>1. \A x \in Range(table') : entry'[x].state = "live" /\ ~entry'[x].marked
    BY <1>2, <1>6 DEF ArbInvariant, TableOK
  <2>2. ptr'[Shell] \notin Range(table') /\ ~entry'[ptr'[Shell]].marked
    BY <1>1, <1>2, <1>3, <1>6 DEF ArbInvariant, TableOK
  <2>3. QED
    BY <1>2, <1>3, <1>4, <1>6, <2>1, <2>2 DEF TableOK
<1>12. LifeOK'
  <2>1. \A x \in Entries : SameLife(x)
    BY <1>2 DEF SameLife
  <2>2. pc'[Shell] \in Counted <=> pc[Shell] \in Counted
    BY <1>1, <1>4 DEF Counted
  <2>3. QED
    BY <1>1, <1>2, <1>8, <2>1, <2>2, LifeUnmoved, ThreadNames DEF ArbInvariant, TypeOK
<1>13. RequestsOrdered' /\ WinnerCommanded'
  <2>1. \A x \in Entries : SameReqs(x)
    BY <1>2 DEF SameReqs
  <2>2. QED
    BY <2>1, ReqsPreserved DEF ArbInvariant
<1>14. RemovalOK'
  <2> SUFFICES ASSUME ~shifted'
               PROVE  /\ pc'[Remover] \in {"visit", "iterPut"} =>
                             index'[Remover] \in DOMAIN table' /\ ptr'[Remover] = table'[index'[Remover]]
                      /\ pc'[Remover] # "idle" =>
                             \A i \in DOMAIN table' :
                                 i < index'[Remover] \/ (i = index'[Remover] /\ pc'[Remover] = "iterPut")
                                     => ~HasRequest(entry'[table'[i]], arg'[Remover])
    BY DEF RemovalOK
  <2>1. ~shifted /\ (pc[Remover] = "idle" \/ table' = table) /\ pc'[Remover] = pc[Remover]
    BY <1>2, <1>4, ThreadNames
  <2>2. CASE pc[Remover] = "idle"
    BY <2>1, <2>2
  <2>3. CASE table' = table
    BY <1>2, <2>1, <2>3 DEF ArbInvariant, RemovalOK
  <2>4. QED
    BY <2>1, <2>2, <2>3
<1>15. GoneAppHasNoRequest'
  <2> SUFFICES ASSUME NEW a \in gone, ~shifted', arg[Remover] # a, NEW x \in Range(table')
               PROVE  ~HasRequest(entry[x], a)
    BY <1>2 DEF GoneAppHasNoRequest
  <2>1. ~shifted /\ x \in Range(table)
    BY <1>2, <1>6
  <2>2. QED
    BY <2>1 DEF ArbInvariant, GoneAppHasNoRequest
<1>16. QED
  BY <1>7, <1>10, <1>11, <1>12, <1>13, <1>14, <1>15 DEF ArbInvariant

LEMMA StopReleaseStep ==
    ASSUME TypeOK, ArbInvariant, StopRelease
    PROVE  TypeOK' /\ ArbInvariant'
<1>1. CallOK(Shell) /\ Shell # Remover /\ pc[Shell] = "release" /\ Shell \in Threads /\ Shell \notin Apps
  BY CallFacts, ThreadNames DEF ArbInvariant, StopRelease
<1>2. /\ UNCHANGED <<mgrEnabled, ctxEnabled, context, table, commanded, arg, ptr, index, gone,
                     shifted, calls>>
      /\ entry' = [entry EXCEPT ![ptr[Shell]] = PutRef(@)]
      /\ Goto(Shell, "destroy") /\ "destroy" \in Places
  BY DEF StopRelease, KeepFlags, KeepRemoval, Places
<1>3. ptr[Shell] # None /\ pc[Shell] \in Counted /\ context
  BY <1>1 DEF CallOK, Counted
<1>4. pc' \in [Threads -> Places] /\ pc'[Shell] = "destroy" /\ \A u \in Threads \ {Shell} : pc'[u] = pc[u]
  BY <1>1, <1>2, Moves
<1>5. StepOf(Shell) /\ pc'[Shell] \notin Counted
  BY <1>2, <1>4 DEF StepOf, Counted
<1>6. CallOK(Shell)'
  BY <1>1, <1>2, <1>3, <1>4 DEF CallOK, Counted
<1>7. /\ CallsOK' /\ TableOK' /\ LifeOK' /\ RequestsOrdered' /\ WinnerCommanded'
      /\ entry' \in [Entries -> EntryType]
      /\ \A e \in Entries : \A a : HasRequest(entry'[e], a) => HasRequest(entry[e], a)
  BY <1>1, <1>2, <1>3, <1>4, <1>5, <1>6, GiveStep
<1>8. TypeOK'
  BY <1>2, <1>4, <1>7 DEF TypeOK, Places
<1>9. RemovalOK' /\ GoneAppHasNoRequest'
  BY <1>1, <1>2, <1>5, <1>7, <1>8, RemovalSame
<1>10. QED
  BY <1>7, <1>8, <1>9 DEF ArbInvariant

LEMMA EntryDestroyStep ==
    ASSUME TypeOK, ArbInvariant, EntryDestroy
    PROVE  TypeOK' /\ ArbInvariant'
<1> DEFINE e == ptr[Shell]
           old == entry[e]
           one == [old EXCEPT !.marked = TRUE]
           new == PutRef(one)
<1>1. CallOK(Shell) /\ Shell # Remover /\ pc[Shell] = "destroy" /\ Shell \in Threads /\ Shell \notin Apps
  BY CallFacts, ThreadNames DEF ArbInvariant, EntryDestroy
<1>2. /\ UNCHANGED <<mgrEnabled, ctxEnabled, context, table, commanded, arg, ptr, index, gone,
                     shifted, calls>>
      /\ Goto(Shell, "wait") /\ "wait" \in Places
  BY DEF EntryDestroy, KeepFlags, KeepRemoval, Places
<1>3. e # None /\ e \in Entries /\ old \in EntryType /\ context
  BY <1>1 DEF CallOK, Counted, TypeOK
<1>4. entry' = [entry EXCEPT ![e] = new]
  BY DEF EntryDestroy
<1>5. pc' \in [Threads -> Places] /\ pc'[Shell] = "wait" /\ \A u \in Threads \ {Shell} : pc'[u] = pc[u]
  BY <1>1, <1>2, Moves
<1>6. old.state = "live" /\ ~old.marked /\ e \notin Range(table)
  BY <1>1, <1>3 DEF ArbInvariant, TableOK, LifeOK
<1>7. Accounted(new, Holders(e))
  <2>1. Accounted(old, Holders(e))
    BY <1>3 DEF ArbInvariant, LifeOK
  <2> HIDE DEF old
  <2>2. QED
    BY <1>3, <1>6, <2>1, AccountedDestroy
<1>8. /\ new \in EntryType /\ new.marked /\ new.state = old.state /\ new.reqs = old.reqs
      /\ new.type = old.type /\ new.upper = old.upper /\ new.lower = old.lower
      /\ new.enabled = old.enabled
  <2> HIDE DEF old
  <2>1. /\ one \in EntryType /\ one.marked /\ one.state = old.state /\ one.reqs = old.reqs
        /\ one.type = old.type /\ one.upper = old.upper /\ one.lower = old.lower
        /\ one.enabled = old.enabled
    BY <1>3 DEF EntryType
  <2> HIDE DEF one
  <2>2. new \in EntryType
    BY <2>1, EntryFields
  <2>3. QED
    BY <2>1, <2>2 DEF PutRef, EntryType
<1> HIDE DEF new
<1>9. /\ entry' \in [Entries -> EntryType] /\ entry'[e] = new
      /\ \A x \in Entries \ {e} : entry'[x] = entry[x]
  BY <1>3, <1>4, <1>8 DEF TypeOK
<1>10. TypeOK'
  BY <1>2, <1>5, <1>9 DEF TypeOK, Places
<1>11. StepOf(Shell)
  BY <1>2, <1>5 DEF StepOf
<1>12. CallOK(Shell)'
  BY <1>1, <1>2, <1>3, <1>5 DEF CallOK, Counted
<1>13. CallsOK'
  BY <1>1, <1>2, <1>11, <1>12, CallsStep DEF ArbInvariant
<1>14. TableOK'
  <2>1. Range(table) \subseteq Entries
    BY DEF TypeOK, Range
  <2>2. \A x \in Range(table') : entry'[x].state = "live" /\ ~entry'[x].marked
    BY <1>2, <1>6, <1>9, <2>1 DEF ArbInvariant, TableOK
  <2>3. ptr'[Shell] \notin Range(table') /\ entry'[ptr'[Shell]].marked
    BY <1>2, <1>6, <1>8, <1>9
  <2>4. \A i, j \in DOMAIN table' : table'[i] = table'[j] => i = j
    BY <1>2 DEF ArbInvariant, TableOK
  <2>5. QED
    BY <1>2, <1>3, <1>5, <2>2, <2>3, <2>4 DEF TableOK
<1>15. LifeOK'
  <2>1. ASSUME NEW x \in Entries PROVE Holders(x)' = Holders(x)
    BY <1>1, <1>2, <1>5, <1>11, HoldersOthers DEF Holders, Counted
  <2>2. ASSUME NEW x \in Entries PROVE Accounted(entry'[x], Holders(x)')
    <3>1. CASE x = e
      BY <1>7, <1>9, <2>1, <3>1
    <3>2. CASE x # e
      BY <1>9, <2>1, <3>2 DEF ArbInvariant, LifeOK
    <3>3. QED
      BY <3>1, <3>2
  <2>3. ASSUME NEW u \in Threads, ptr'[u] # None PROVE entry'[ptr'[u]].state = "live"
    <3>1. ptr'[u] = ptr[u] /\ ptr[u] \in Entries
      BY <1>2, <2>3 DEF TypeOK
    <3>2. entry[ptr[u]].state = "live"
      BY <2>3, <3>1 DEF ArbInvariant, LifeOK
    <3>3. QED
      BY <1>6, <1>8, <1>9, <3>1, <3>2
  <2>4. QED
    BY <2>2, <2>3 DEF LifeOK, Accounted
<1>16. RequestsOrdered' /\ WinnerCommanded'
  <2>1. \A x \in Entries : SameReqs(x)
    BY <1>2, <1>8, <1>9 DEF SameReqs
  <2>2. QED
    BY <2>1, ReqsPreserved DEF ArbInvariant
<1>17. \A x \in Entries : \A a \in gone : HasRequest(entry'[x], a) => HasRequest(entry[x], a)
  BY <1>8, <1>9 DEF HasRequest
<1>18. RemovalOK' /\ GoneAppHasNoRequest'
  BY <1>1, <1>2, <1>10, <1>11, <1>17, RemovalSame
<1>19. QED
  BY <1>10, <1>13, <1>14, <1>15, <1>16, <1>18 DEF ArbInvariant

LEMMA EntryFreeStep ==
    ASSUME TypeOK, ArbInvariant, EntryFree
    PROVE  TypeOK' /\ ArbInvariant'
<1> DEFINE e == ptr[Shell]
           old == entry[e]
           new == [old EXCEPT !.state = "freed"]
<1>1. CallOK(Shell) /\ Shell # Remover /\ pc[Shell] = "wait" /\ Shell \in Threads /\ Shell \notin Apps
  BY CallFacts, ThreadNames DEF ArbInvariant, EntryFree
<1>2. /\ UNCHANGED <<mgrEnabled, ctxEnabled, context, table, commanded, index, gone, shifted, calls>>
      /\ Done(Shell) /\ ptr' = [ptr EXCEPT ![Shell] = None] /\ old.deleteEvent
  BY DEF EntryFree, KeepFlags, KeepRemoval
<1>3. e # None /\ e \in Entries /\ old \in EntryType /\ context
  BY <1>1 DEF CallOK, Counted, TypeOK
<1>4. entry' = [entry EXCEPT ![e] = new]
  BY DEF EntryFree
<1>5. /\ pc' \in [Threads -> Places] /\ pc'[Shell] = "idle" /\ arg'[Shell] = None
      /\ arg' \in [Threads -> AppCall \cup ShellCommands \cup Apps \cup {None}]
      /\ \A u \in Threads \ {Shell} : pc'[u] = pc[u] /\ arg'[u] = arg[u]
  BY <1>1, <1>2, Finished
<1>6. old.state = "live" /\ e \notin Range(table) /\ Holders(e) = {}
  <2>1. old.state = "live" /\ e \notin Range(table) /\ Accounted(old, Holders(e))
    BY <1>1, <1>3 DEF ArbInvariant, TableOK, LifeOK
  <2>2. QED
    BY <1>2, <2>1 DEF Accounted
<1>7. /\ new \in EntryType /\ new.marked = old.marked /\ new.state = "freed"
      /\ new.reqs = old.reqs /\ new.type = old.type /\ new.upper = old.upper
      /\ new.lower = old.lower /\ new.enabled = old.enabled
  <2> HIDE DEF old
  <2> QED
    BY <1>3 DEF EntryType
<1> HIDE DEF new
<1>8. /\ entry' \in [Entries -> EntryType] /\ entry'[e] = new
      /\ \A x \in Entries \ {e} : entry'[x] = entry[x]
      /\ ptr' \in [Threads -> Entries \cup {None}] /\ ptr'[Shell] = None
      /\ \A u \in Threads \ {Shell} : ptr'[u] = ptr[u]
  BY <1>1, <1>2, <1>3, <1>4, <1>7 DEF TypeOK
<1>9. TypeOK'
  BY <1>2, <1>5, <1>8 DEF TypeOK, Places
<1>10. StepOf(Shell)
  BY <1>2, <1>5, <1>8 DEF StepOf
<1>11. CallOK(Shell)'
  BY <1>1, <1>5, <1>8, IdleCall
<1>12. CallsOK'
  BY <1>1, <1>2, <1>10, <1>11, CallsStep DEF ArbInvariant
<1>13. TableOK'
  <2>1. Range(table) \subseteq Entries
    BY DEF TypeOK, Range
  <2>2. /\ \A x \in Entries : entry'[x].marked = entry[x].marked
        /\ \A x \in Range(table) : entry'[x].state = entry[x].state
    BY <1>6, <1>7, <1>8, <2>1
  <2>3. QED
    BY <1>2, <1>3, <1>8, <1>11, <2>2, TablePreserved DEF ArbInvariant
<1>14. LifeOK'
  <2>1. ASSUME NEW x \in Entries PROVE Holders(x)' = Holders(x)
    <3>1. pc'[Shell] \notin Counted /\ pc[Shell] \notin Counted
      BY <1>1, <1>5 DEF Counted
    <3>2. QED
      BY <1>1, <1>10, <3>1, HoldersOthers DEF Holders
  <2>2. ASSUME NEW x \in Entries PROVE Accounted(entry'[x], Holders(x)')
    <3>1. CASE x = e
      BY <1>7, <1>8, <3>1 DEF Accounted
    <3>2. CASE x # e
      BY <1>8, <2>1, <3>2 DEF ArbInvariant, LifeOK
    <3>3. QED
      BY <3>1, <3>2
  <2>3. ASSUME NEW u \in Threads, ptr'[u] # None PROVE entry'[ptr'[u]].state = "live"
    <3>1. u # Shell /\ ptr'[u] = ptr[u] /\ ptr[u] \in Entries
      BY <1>8, <2>3 DEF TypeOK
    <3>2. entry[ptr[u]].state = "live"
      BY <2>3, <3>1 DEF ArbInvariant, LifeOK
    <3>3. ptr[u] # e
      <4>1. CallOK(u) /\ (u \in Apps \/ u = Remover)
        BY <3>1, CallFacts DEF ArbInvariant
      <4>2. pc[u] \in Counted
        BY <2>3, <3>1, <4>1 DEF CallOK, Counted
      <4>3. QED
        BY <1>6, <4>2 DEF Holders
    <3>4. QED
      BY <1>8, <3>1, <3>2, <3>3
  <2>4. QED
    BY <2>2, <2>3 DEF LifeOK, Accounted
<1>15. RequestsOrdered' /\ WinnerCommanded'
  <2>1. \A x \in Entries : SameReqs(x)
    BY <1>2, <1>7, <1>8 DEF SameReqs
  <2>2. QED
    BY <2>1, ReqsPreserved DEF ArbInvariant
<1>16. \A x \in Entries : \A a \in gone : HasRequest(entry'[x], a) => HasRequest(entry[x], a)
  BY <1>7, <1>8 DEF HasRequest
<1>17. RemovalOK' /\ GoneAppHasNoRequest'
  BY <1>1, <1>2, <1>9, <1>10, <1>16, RemovalSame
<1>18. QED
  BY <1>9, <1>12, <1>13, <1>14, <1>15, <1>17 DEF ArbInvariant

----------------------------------------------------------------------------
(* EsifArbMgr_RemoveApp *)

LEMMA RemoveAppStep ==
    ASSUME TypeOK, ArbInvariant, NEW a \in Apps, RemoveApp(a)
    PROVE  TypeOK' /\ ArbInvariant'
<1>1. /\ pc[Remover] = "idle" /\ pc[a] = "idle" /\ a \notin gone /\ gone' = gone \cup {a}
      /\ UNCHANGED <<mgrEnabled, ctxEnabled, context, table, entry, commanded, ptr, shifted, calls>>
  BY DEF RemoveApp, KeepFlags, KeepEntries
<1>2. CallOK(Remover) /\ Remover \in Threads /\ Remover \notin Apps /\ Remover # Shell
  BY ThreadNames DEF ArbInvariant, CallsOK
<1>3. ptr[Remover] = None /\ arg[Remover] = None
  BY <1>1, <1>2 DEF CallOK, Counted
<1>4. /\ pc' \in [Threads -> Places]
      /\ arg' \in [Threads -> AppCall \cup ShellCommands \cup Apps \cup {None}]
      /\ index' \in [Threads -> Nat]
      /\ \A u \in Threads \ {Remover} :
             pc'[u] = pc[u] /\ arg'[u] = arg[u] /\ index'[u] = index[u]
      /\ IF context THEN pc'[Remover] = "next" /\ arg'[Remover] = a /\ index'[Remover] = 1
         ELSE pc'[Remover] = "idle" /\ arg'[Remover] = None
  <2>1. CASE context
    <3>1. /\ Goto(Remover, "next") /\ "next" \in Places
          /\ arg' = [arg EXCEPT ![Remover] = a] /\ index' = [index EXCEPT ![Remover] = 1]
      BY <2>1 DEF RemoveApp, Places
    <3>2. pc' \in [Threads -> Places] /\ pc'[Remover] = "next" /\ \A u \in Threads \ {Remover} : pc'[u] = pc[u]
      BY <1>2, <3>1, Moves
    <3>3. /\ arg' \in [Threads -> AppCall \cup ShellCommands \cup Apps \cup {None}]
          /\ arg'[Remover] = a /\ \A u \in Threads \ {Remover} : arg'[u] = arg[u]
          /\ index' \in [Threads -> Nat] /\ index'[Remover] = 1
          /\ \A u \in Threads \ {Remover} : index'[u] = index[u]
      BY <1>2, <3>1 DEF TypeOK
    <3>4. QED
      BY <2>1, <3>2, <3>3
  <2>2. CASE ~context
    <3>1. UNCHANGED <<pc, arg, index>>
      BY <2>2 DEF RemoveApp
    <3>2. QED
      BY <1>1, <1>3, <2>2, <3>1 DEF TypeOK, Places
  <2>3. QED
    BY <2>1, <2>2
<1>5. TypeOK'
  BY <1>1, <1>4 DEF TypeOK, Places
<1>6. StepOf(Remover)
  BY <1>1, <1>4 DEF StepOf
<1>7. CallOK(Remover)'
  BY <1>1, <1>2, <1>3, <1>4 DEF CallOK, Counted
<1>8. pc'[a] = "idle"
  BY <1>1, <1>2, <1>4, ThreadNames
<1>9. CallsOK' /\ TableOK' /\ LifeOK' /\ RequestsOrdered' /\ WinnerCommanded'
  <2>1. \A e \in Entries : SameLife(e) /\ SameReqs(e)
    BY <1>1 DEF SameLife, SameReqs
  <2>2. QED
    BY <1>1, <1>2, <1>3, <1>6, <1>7, <1>8, <2>1, ChangeCore
<1>10. DOMAIN table = 1 .. Len(table)
  BY DEF TypeOK
<1>11. RemovalOK'
  BY <1>1, <1>4, <1>10 DEF RemovalOK
<1>12. GoneAppHasNoRequest'
  <2> SUFFICES ASSUME NEW b \in gone', ~shifted, arg'[Remover] # b, NEW e \in Range(table)
               PROVE  ~HasRequest(entry[e], b)
    BY <1>1 DEF GoneAppHasNoRequest
  <2>1. CASE context
    <3>1. b \in gone /\ arg[Remover] # b
      BY <1>1, <1>3, <1>4, <2>1, ThreadNames DEF TypeOK
    <3>2. QED
      BY <3>1 DEF ArbInvariant, GoneAppHasNoRequest
  <2>2. CASE ~context
    <3>1. Range(<<>>) = {}
      BY DEF Range
    <3>2. QED
      BY <2>2, <3>1 DEF ArbInvariant, TableOK
  <2>3. QED
    BY <2>1, <2>2
<1>13. QED
  BY <1>5, <1>9, <1>11, <1>12 DEF ArbInvariant

LEMMA EntryRemoveAppStep ==
    ASSUME TypeOK, ArbInvariant, EntryRemoveApp
    PROVE  TypeOK' /\ ArbInvariant'
<1> DEFINE e == ptr[Remover]
           old == entry[e]
           a == arg[Remover]
           reqs == WithoutApp(old.reqs, a)
           new == [old EXCEPT !.reqs = reqs]
           value == IF WinnerChanged(old.reqs, reqs, None) THEN Commanded(new, commanded[e])
                    ELSE commanded[e]
<1>1. CallOK(Remover) /\ pc[Remover] = "visit" /\ Remover \in Threads /\ Remover \notin Apps /\ Remover # Shell
  BY ThreadNames DEF ArbInvariant, CallsOK, EntryRemoveApp
<1>2. /\ UNCHANGED <<mgrEnabled, ctxEnabled, context, table, arg, ptr, index, gone, shifted, calls>>
      /\ Goto(Remover, "iterPut") /\ "iterPut" \in Places
  BY DEF EntryRemoveApp, KeepFlags, KeepRemoval, Places
<1>3. e \in Entries /\ e # None /\ a \in gone /\ context
  BY <1>1 DEF CallOK, Counted, TypeOK
<1>4. old \in EntryType /\ old.reqs \in Seq(Request) /\ old.type \in ArbType
  BY <1>3, EntryFields DEF TypeOK
<1>5. EntryOK(old, commanded[e]) /\ old.state = "live" /\ Arranged(old.reqs, old.type)
      /\ (~old.enabled => old.reqs = <<>>)
  <2>1. EntryOK(old, commanded[e])
    BY <1>3, EntryInOrder
  <2>2. old.state = "live"
    BY <1>1, <1>3 DEF ArbInvariant, LifeOK
  <2>3. QED
    BY <2>1, <2>2 DEF EntryOK
<1>6. IsWithout(reqs, old.reqs, a)
  <2> HIDE DEF old, a
  <2> QED
    BY <1>4, WithoutAppIs
<1>7. entry' = [entry EXCEPT ![e] = new] /\ commanded' = [commanded EXCEPT ![e] = value]
  <2>1. new.reqs = reqs
    BY <1>4 DEF EntryType
  <2>2. QED
    BY <2>1 DEF EntryRemoveApp
<1> HIDE DEF reqs
<1>8. /\ reqs \in Seq(Request) /\ Arranged(reqs, old.type) /\ From(reqs, old.reqs, None)
      /\ \A i \in 1 .. Len(reqs) : reqs[i].app # a
      /\ old.reqs = <<>> => reqs = <<>>
  <2>1. Arranged(reqs, old.type)
    BY <1>4, <1>5, <1>6, WithoutArranged
  <2>2. PICK f \in [1 .. Len(reqs) -> 1 .. Len(old.reqs)] :
            \A i \in 1 .. Len(reqs) : reqs[i] = old.reqs[f[i]]
    BY <1>6 DEF IsWithout
  <2>3. From(reqs, old.reqs, None)
    BY <2>2 DEF From
  <2>4. reqs \in Seq(Request) /\ \A i \in 1 .. Len(reqs) : reqs[i].app # a
    BY <1>6 DEF IsWithout
  <2>5. old.reqs = <<>> => reqs = <<>>
    <3>1. ASSUME old.reqs = <<>>, reqs # <<>> PROVE FALSE
      <4>1. 1 \in 1 .. Len(reqs)
        BY <2>4, <3>1, SeqShape
      <4>2. f[1] \in 1 .. Len(old.reqs) /\ Len(old.reqs) = 0
        BY <1>4, <2>2, <3>1, <4>1
      <4>3. QED
        BY <4>2
    <3>2. QED
      BY <3>1
  <2>6. QED
    BY <2>1, <2>3, <2>4, <2>5
<1>9. /\ new \in EntryType /\ new.reqs = reqs /\ new.type = old.type /\ new.enabled = old.enabled
      /\ new.upper = old.upper /\ new.lower = old.lower /\ new.state = old.state
      /\ new.ref = old.ref /\ new.marked = old.marked /\ new.deleteEvent = old.deleteEvent
  BY <1>4, <1>8 DEF EntryType
<1> HIDE DEF new
<1>10. /\ entry' \in [Entries -> EntryType] /\ entry'[e] = new
       /\ \A x \in Entries \ {e} : entry'[x] = entry[x]
  BY <1>3, <1>7, <1>9 DEF TypeOK
<1>11. value \in Value \cup {Short, None}
  BY <1>3, <1>9, CommandedType DEF TypeOK
<1>12. EntryOK(new, value)
  <2> HIDE DEF old
  <2> QED
    BY <1>4, <1>5, <1>8, <1>9, WinnerQueued
<1> HIDE DEF value
<1>13. /\ commanded' \in [Entries -> Value \cup {Short, None}] /\ commanded'[e] = value
       /\ \A x \in Entries \ {e} : commanded'[x] = commanded[x]
  BY <1>3, <1>7, <1>11 DEF TypeOK
<1>14. pc' \in [Threads -> Places] /\ pc'[Remover] = "iterPut" /\ \A u \in Threads \ {Remover} : pc'[u] = pc[u]
  BY <1>1, <1>2, Moves
<1>15. TypeOK'
  BY <1>2, <1>10, <1>13, <1>14 DEF TypeOK, Places
<1>16. StepOf(Remover)
  BY <1>2, <1>14 DEF StepOf
<1>17. CallOK(Remover)'
  BY <1>1, <1>2, <1>3, <1>14 DEF CallOK, Counted
<1>18. ASSUME NEW x \in Entries
       PROVE  SameLife(x) /\ (SameReqs(x) \/ EntryOK(entry'[x], commanded'[x]))
  <2>1. CASE x = e
    BY <1>9, <1>10, <1>12, <1>13, <2>1 DEF SameLife
  <2>2. CASE x # e
    BY <1>10, <1>13, <2>2 DEF SameLife, SameReqs
  <2>3. QED
    BY <2>1, <2>2
<1>19. pc[Remover] \in Counted \ {"release"} /\ pc'[Remover] \in Counted \ {"release"}
  BY <1>1, <1>14 DEF Counted
<1>20. CallsOK' /\ TableOK' /\ LifeOK' /\ RequestsOrdered' /\ WinnerCommanded'
  BY <1>1, <1>2, <1>3, <1>16, <1>17, <1>18, <1>19, ChangeCore
<1>21. ASSUME NEW x \in Entries, NEW b \in gone, HasRequest(entry'[x], b)
       PROVE  HasRequest(entry[x], b)
  <2>1. CASE x = e
    <3>1. PICK i \in 1 .. Len(reqs) : reqs[i].app = b
      BY <1>9, <1>10, <1>21, <2>1 DEF HasRequest
    <3>2. reqs[i].app # None
      BY <3>1, ThreadNames DEF TypeOK
    <3>3. PICK j \in 1 .. Len(old.reqs) : reqs[i] = old.reqs[j]
      BY <1>8, <3>1, <3>2 DEF From
    <3>4. QED
      BY <2>1, <3>1, <3>3 DEF HasRequest
  <2>2. CASE x # e
    BY <1>10, <1>21, <2>2
  <2>3. QED
    BY <2>1, <2>2
<1>22. RemovalOK' /\ GoneAppHasNoRequest'
  <2>1. ~HasRequest(entry'[e], a)
    BY <1>8, <1>9, <1>10 DEF HasRequest
  <2>2. DOMAIN table = 1 .. Len(table) /\ \A i \in 1 .. Len(table) : table[i] \in Entries
    BY DEF TypeOK
  <2>3. ~shifted => index[Remover] \in 1 .. Len(table) /\ e = table[index[Remover]]
    BY <1>1, <2>2 DEF ArbInvariant, RemovalOK
  <2>4. ~shifted => \A i \in 1 .. Len(table) :
            i < index[Remover] => ~HasRequest(entry[table[i]], a)
    BY <1>1, <2>2 DEF ArbInvariant, RemovalOK
  <2>5. ~shifted => \A i \in 1 .. Len(table) :
            i < index[Remover] \/ i = index[Remover] => ~HasRequest(entry'[table[i]], a)
    BY <1>3, <1>21, <2>1, <2>2, <2>3, <2>4
  <2> HIDE DEF a, e
  <2>6. QED
    BY <1>2, <1>14, <1>15, <1>21, <2>3, <2>5, WalkStep DEF a, e
<1>23. QED
  BY <1>15, <1>20, <1>22 DEF ArbInvariant

----------------------------------------------------------------------------
(* The entry of a primitive, found or created *)

LEMMA BaseFacts ==
    ASSUME TypeOK, ArbInvariant, NEW p \in Prims, NEW type \in ArbType, NEW e \in Target(p)
    PROVE  /\ e \in Entries
           /\ \/ e \in Range(table) /\ Base(e, p, type) = entry[e]
              \/ /\ e \notin Range(table) /\ entry[e].state = "unused"
                 /\ Base(e, p, type) = NewEntry(p, type)
           /\ Base(e, p, type) \in EntryType /\ Base(e, p, type).state = "live"
           /\ EntryOK(Base(e, p, type), commanded[e])
<1>1. Range(table) \subseteq Entries
  BY DEF TypeOK, Range
<1>2. CASE e \in Lookup(p)
  <2>1. e \in Range(table) /\ e \in Entries
    BY <1>1, <1>2 DEF Lookup
  <2>2. entry[e].state = "live" /\ entry[e] \in EntryType /\ EntryOK(entry[e], commanded[e])
    BY <2>1, EntryInOrder DEF ArbInvariant, TableOK, TypeOK
  <2>3. Base(e, p, type) = entry[e]
    BY <2>2 DEF Base
  <2>4. QED
    BY <2>1, <2>2, <2>3
<1>3. CASE e \notin Lookup(p)
  <2>1. e \in Entries /\ entry[e].state = "unused"
    BY <1>3 DEF Target
  <2>2. e \notin Range(table)
    BY <2>1 DEF ArbInvariant, TableOK
  <2>3. Base(e, p, type) = NewEntry(p, type)
    BY <2>1 DEF Base
  <2>4. QED
    BY <2>1, <2>2, <2>3, NewEntryType, EmptyEntry
<1>4. QED
  BY <1>2, <1>3

(* A command of the shell changes the entry of a primitive, which is put at the end of the *)
(* table if it is new.                                                                     *)
LEMMA AmendStep ==
    ASSUME TypeOK, ArbInvariant, pc[Shell] = "command", Done(Shell), KeepFlags, KeepRemoval,
           UNCHANGED <<ptr, calls>>,
           NEW p \in Prims, NEW type \in ArbType, NEW e \in Target(p), NEW new \in EntryType,
           NEW value \in Value \cup {Short, None}, NEW old, old = Base(e, p, type),
           Insert(e), entry' = [entry EXCEPT ![e] = new],
           commanded' = [commanded EXCEPT ![e] = value],
           new.state = old.state, new.ref = old.ref, new.marked = old.marked,
           new.deleteEvent = old.deleteEvent, EntryOK(new, value),
           \A a \in gone : HasRequest(new, a) => HasRequest(old, a)
    PROVE  TypeOK' /\ ArbInvariant'
<1>1. CallOK(Shell) /\ Shell # Remover /\ Shell \in Threads /\ Shell \notin Apps
  BY CallFacts, ThreadNames DEF ArbInvariant
<1>2. UNCHANGED <<mgrEnabled, ctxEnabled, context, ptr, index, gone, shifted, calls>>
  BY DEF KeepFlags, KeepRemoval
<1>3. ptr[Shell] = None /\ context
  BY <1>1 DEF CallOK, Counted
<1>4. /\ pc' \in [Threads -> Places] /\ pc'[Shell] = "idle" /\ arg'[Shell] = None
      /\ arg' \in [Threads -> AppCall \cup ShellCommands \cup Apps \cup {None}]
      /\ \A u \in Threads \ {Shell} : pc'[u] = pc[u] /\ arg'[u] = arg[u]
  BY <1>1, Finished
<1>5. /\ e \in Entries /\ old \in EntryType /\ old.state = "live"
      /\ \/ e \in Range(table) /\ old = entry[e]
         \/ e \notin Range(table) /\ entry[e].state = "unused" /\ old = NewEntry(p, type)
  BY BaseFacts
<1>6. /\ entry' \in [Entries -> EntryType] /\ entry'[e] = new
      /\ \A x \in Entries \ {e} : entry'[x] = entry[x]
      /\ commanded' \in [Entries -> Value \cup {Short, None}] /\ commanded'[e] = value
      /\ \A x \in Entries \ {e} : commanded'[x] = commanded[x]
  BY <1>5 DEF TypeOK
<1>7. StepOf(Shell)
  BY <1>2, <1>4 DEF StepOf
<1>8. CallOK(Shell)'
  BY <1>1, <1>2, <1>3, <1>4, IdleCall
<1>9. \A x \in Entries \ {e} : SameLife(x) /\ SameReqs(x)
  BY <1>6 DEF SameLife, SameReqs
<1>10. EntryOK(entry'[e], commanded'[e])
  BY <1>6
<1>11. CASE e \in Range(table) /\ old = entry[e]
  <2>1. table' = table
    BY <1>11 DEF Insert
  <2>2. TypeOK'
    BY <1>2, <1>4, <1>6, <2>1 DEF TypeOK, Places
  <2>3. SameLife(e)
    BY <1>6, <1>11 DEF SameLife
  <2>4. \A x \in Entries : \A a \in gone : HasRequest(entry'[x], a) => HasRequest(entry[x], a)
    BY <1>6, <1>11
  <2>5. \A x \in Entries : SameLife(x) /\ (SameReqs(x) \/ EntryOK(entry'[x], commanded'[x]))
    BY <1>9, <1>10, <2>3
  <2>6. QED
    BY <1>1, <1>2, <1>3, <1>7, <1>8, <2>1, <2>2, <2>4, <2>5, ChangeStep
<1>12. CASE e \notin Range(table) /\ entry[e].state = "unused" /\ old = NewEntry(p, type)
  <2>1. table' = Append(table, e)
    BY <1>12 DEF Insert
  <2>2. table \in Seq(Entries) /\ Len(table) \in Nat /\ DOMAIN table = 1 .. Len(table)
    BY DEF TypeOK
  <2>3. /\ table' \in Seq(Entries) /\ Len(table') = Len(table) + 1
        /\ \A i \in 1 .. Len(table) : table'[i] = table[i] /\ table[i] \in Range(table)
                                      /\ table[i] \in Entries
        /\ table'[Len(table) + 1] = e
    BY <1>5, <2>1, <2>2, Appended DEF Range
  <2>4. DOMAIN table' = 1 .. Len(table) + 1
    BY <2>3, SeqShape
  <2>5. TypeOK'
    BY <1>2, <1>4, <1>6, <2>3 DEF TypeOK, Places
  <2>6. CallsOK'
    BY <1>1, <1>2, <1>7, <1>8, CallsStep DEF ArbInvariant
  <2>7. new.state = "live" /\ new.ref = 1 /\ ~new.marked /\ ~new.deleteEvent
    BY <1>12, NewEntryType
  <2>8. TableOK'
    <3>1. ASSUME NEW i \in 1 .. Len(table) + 1, NEW j \in 1 .. Len(table) + 1, table'[i] = table'[j]
          PROVE  i = j
      <4>1. \A k \in 1 .. Len(table) : table'[k] # e
        BY <1>12, <2>3
      <4>2. \A k \in 1 .. Len(table) + 1 : k \in 1 .. Len(table) \/ k = Len(table) + 1
        BY <2>2
      <4>3. CASE i \in 1 .. Len(table) /\ j \in 1 .. Len(table)
        BY <2>2, <2>3, <3>1, <4>3 DEF ArbInvariant, TableOK
      <4>4. CASE i = Len(table) + 1 \/ j = Len(table) + 1
        BY <2>3, <3>1, <4>1, <4>2, <4>4
      <4>5. QED
        BY <4>2, <4>3, <4>4
    <3>2. ASSUME NEW x \in Range(table') PROVE entry'[x].state = "live" /\ ~entry'[x].marked
      <4>1. x = e \/ (x # e /\ x \in Range(table) /\ x \in Entries)
        <5>1. PICK i \in 1 .. Len(table) + 1 : x = table'[i]
          BY <2>4, <3>2 DEF Range
        <5>2. i \in 1 .. Len(table) \/ i = Len(table) + 1
          BY <2>2
        <5>3. QED
          BY <2>3, <5>1, <5>2
      <4>2. QED
        BY <1>6, <2>7, <4>1 DEF ArbInvariant, TableOK
    <3>3. ptr'[Shell] = None
      BY <1>2, <1>3
    <3>4. QED
      BY <1>2, <1>3, <1>4, <2>4, <3>1, <3>2, <3>3 DEF TableOK
  <2>9. LifeOK'
    <3>1. Holders(e) = {}
      <4>1. \A u \in Threads : ptr[u] # e
        BY <1>5, <1>12, ThreadNames DEF ArbInvariant, LifeOK
      <4>2. QED
        BY <4>1 DEF Holders
    <3>2. ASSUME NEW x \in Entries PROVE Holders(x)' = Holders(x)
      BY <1>1, <1>2, <1>3, <1>4, <1>7, HoldersOthers, ThreadNames DEF Holders, Counted
    <3>3. ASSUME NEW x \in Entries PROVE Accounted(entry'[x], Holders(x)')
      <4>1. CASE x = e
        BY <1>6, <2>7, <3>1, <3>2, <4>1, AccountedNew
      <4>2. CASE x # e
        BY <1>6, <3>2, <4>2 DEF ArbInvariant, LifeOK
      <4>3. QED
        BY <4>1, <4>2
    <3>4. ASSUME NEW u \in Threads, ptr'[u] # None PROVE entry'[ptr'[u]].state = "live"
      <4>1. ptr'[u] = ptr[u] /\ ptr[u] \in Entries
        BY <1>2, <3>4 DEF TypeOK
      <4>2. entry[ptr[u]].state = "live"
        BY <3>4, <4>1 DEF ArbInvariant, LifeOK
      <4>3. QED
        BY <1>6, <2>7, <4>1, <4>2
    <3>5. QED
      BY <3>3, <3>4 DEF LifeOK, Accounted
  <2>10. RequestsOrdered' /\ WinnerCommanded'
    BY <1>9, <1>10, ReqsPreserved DEF ArbInvariant
  <2>11. RemovalOK' /\ GoneAppHasNoRequest'
    <3>1. ASSUME NEW i \in 1 .. Len(table'), NEW a \in gone, HasRequest(entry'[table'[i]], a)
          PROVE  i \in 1 .. Len(table) /\ HasRequest(entry[table[i]], a)
      <4>1. ~HasRequest(new, a)
        BY <1>12, NewEntryType, EmptyEntry
      <4>2. i \in 1 .. Len(table) \/ i = Len(table) + 1
        BY <2>2, <2>3
      <4>3. i # Len(table) + 1
        BY <1>6, <2>3, <3>1, <4>1
      <4>4. table[i] # e /\ table[i] \in Entries /\ table'[i] = table[i]
        BY <1>12, <2>3, <4>2, <4>3
      <4>5. QED
        BY <1>6, <3>1, <4>2, <4>3, <4>4
    <3>2. /\ pc'[Remover] = pc[Remover] /\ arg'[Remover] = arg[Remover]
          /\ ptr'[Remover] = ptr[Remover] /\ index'[Remover] = index[Remover]
      BY <1>1, <1>2, <1>4, ThreadNames
    <3>3. Len(table) <= Len(table')
      BY <2>2, <2>3
    <3>4. QED
      BY <1>2, <2>3, <2>5, <3>1, <3>2, <3>3, RemovalPreserved DEF ArbInvariant
  <2>12. QED
    BY <2>5, <2>6, <2>8, <2>9, <2>10, <2>11 DEF ArbInvariant
<1>13. QED
  BY <1>5, <1>11, <1>12

LEMMA SetLimitsStep ==
    ASSUME TypeOK, ArbInvariant, SetLimits
    PROVE  TypeOK' /\ ArbInvariant'
<1> DEFINE p == arg[Shell].prim
           upper == arg[Shell].upper
           lower == arg[Shell].lower
           Old(e) == Base(e, p, "invalid")
           New(e) == IF upper >= lower THEN [Old(e) EXCEPT !.upper = upper, !.lower = lower]
                     ELSE Old(e)
<1>1. CallOK(Shell) /\ pc[Shell] = "command" /\ arg[Shell].name = "limits" /\ Shell \in Threads
  BY ThreadNames DEF SetLimits, ArbInvariant, CallsOK
<1>2. p \in Prims /\ upper \in Value /\ lower \in Value
  <2>1. arg[Shell] \in ShellCommands
    BY <1>1 DEF CallOK
  <2>2. QED
    BY <1>1, <2>1 DEF ShellCommands
<1>3. PICK e \in Target(p) :
          /\ Insert(e) /\ entry' = [entry EXCEPT ![e] = New(e)]
          /\ commanded' = [commanded EXCEPT ![e] = LimitsCommanded(Old(e), New(e), @)]
  BY DEF SetLimits
<1>4. Done(Shell) /\ KeepFlags /\ KeepRemoval /\ UNCHANGED <<ptr, calls>> /\ "invalid" \in ArbType
  BY DEF SetLimits, ArbType
<1> DEFINE old == Old(e)
           new == New(e)
           value == LimitsCommanded(old, new, commanded[e])
<1>5. e \in Entries /\ old \in EntryType /\ EntryOK(old, commanded[e])
  BY <1>2, <1>4, BaseFacts
<1>6. commanded' = [commanded EXCEPT ![e] = value] /\ entry' = [entry EXCEPT ![e] = new]
  BY <1>3, <1>5 DEF TypeOK
<1> HIDE DEF p, Old
<1>7. /\ new \in EntryType /\ new.reqs = old.reqs /\ new.type = old.type /\ new.enabled = old.enabled
      /\ new.state = old.state /\ new.ref = old.ref /\ new.marked = old.marked
      /\ new.deleteEvent = old.deleteEvent
  <2> HIDE DEF upper, lower, old
  <2> DEFINE one == [old EXCEPT !.upper = upper]
  <2>1. /\ one \in EntryType /\ one.reqs = old.reqs /\ one.type = old.type /\ one.enabled = old.enabled
        /\ one.state = old.state /\ one.ref = old.ref /\ one.marked = old.marked
        /\ one.deleteEvent = old.deleteEvent
    BY <1>2, <1>5 DEF EntryType
  <2>2. CASE upper >= lower
    <3>1. new = [one EXCEPT !.lower = lower]
      BY <1>5, <2>2 DEF EntryType, old
    <3> HIDE DEF one, new
    <3>2. QED
      BY <1>2, <2>1, <3>1 DEF EntryType
  <2>3. CASE ~(upper >= lower)
    <3>1. new = old
      BY <2>3 DEF old
    <3>2. QED
      BY <1>5, <3>1
  <2>4. QED
    BY <2>2, <2>3
<1> HIDE DEF new, old
<1>8. commanded[e] \in Value \cup {Short, None}
  BY <1>5 DEF TypeOK
<1>9. value \in Value \cup {Short, None}
  BY <1>7, <1>8, CommandedType DEF LimitsCommanded
<1>10. EntryOK(new, value)
  <2>1. CASE new = old
    BY <1>5, <2>1 DEF LimitsCommanded
  <2>2. CASE new # old
    <3>1. value = Commanded(new, commanded[e])
      BY <2>2 DEF LimitsCommanded
    <3> HIDE DEF value
    <3>2. QED
      BY <1>5, <1>7, <3>1 DEF EntryOK, Commanded
  <2>3. QED
    BY <2>1, <2>2
<1>11. \A a \in gone : HasRequest(new, a) => HasRequest(old, a)
  BY <1>7 DEF HasRequest
<1> HIDE DEF value
<1>12. old = Base(e, p, "invalid")
  BY DEF old, Old
<1>13. QED
  BY <1>1, <1>2, <1>3, <1>4, <1>6, <1>7, <1>9, <1>10, <1>11, <1>12, AmendStep

LEMMA SetArbitrationFunctionStep ==
    ASSUME TypeOK, ArbInvariant, SetArbitrationFunction
    PROVE  TypeOK' /\ ArbInvariant'
<1> DEFINE p == arg[Shell].prim
           type == arg[Shell].type
           Old(e) == Base(e, p, type)
           New(e) == [Old(e) EXCEPT !.type = type, !.reqs = RearbitrateRequests(@, type)]
<1>1. CallOK(Shell) /\ pc[Shell] = "command" /\ arg[Shell].name = "function" /\ Shell \in Threads
  BY ThreadNames DEF SetArbitrationFunction, ArbInvariant, CallsOK
<1>2. p \in Prims /\ type \in ArbType
  <2>1. arg[Shell] \in ShellCommands
    BY <1>1 DEF CallOK
  <2>2. QED
    BY <1>1, <2>1 DEF ShellCommands, ArbType
<1>3. PICK e \in Target(p) :
          /\ Insert(e) /\ entry' = [entry EXCEPT ![e] = New(e)]
          /\ commanded' = [commanded EXCEPT ![e] =
                 IF WinnerChanged(Old(e).reqs, New(e).reqs, None) THEN Commanded(New(e), @) ELSE @]
  BY DEF SetArbitrationFunction
<1>4. Done(Shell) /\ KeepFlags /\ KeepRemoval /\ UNCHANGED <<ptr, calls>>
  BY DEF SetArbitrationFunction
<1> DEFINE old == Old(e)
           new == New(e)
           value == IF WinnerChanged(old.reqs, new.reqs, None) THEN Commanded(new, commanded[e])
                    ELSE commanded[e]
<1>5. /\ e \in Entries /\ old \in EntryType /\ EntryOK(old, commanded[e]) /\ old.state = "live"
      /\ old.reqs \in Seq(Request)
  BY <1>2, BaseFacts, EntryFields
<1>6. commanded' = [commanded EXCEPT ![e] = value] /\ entry' = [entry EXCEPT ![e] = new]
  BY <1>3, <1>5 DEF TypeOK
<1> DEFINE reqs == RearbitrateRequests(old.reqs, type)
<1> HIDE DEF p, type, Old
<1>7. /\ reqs \in Seq(Request) /\ Arranged(reqs, type) /\ From(reqs, old.reqs, None)
      /\ old.reqs = <<>> => reqs = <<>>
  <2> HIDE DEF old
  <2> QED
    BY <1>2, <1>5, RearbitrateIs
<1>8. /\ new \in EntryType /\ new.reqs = reqs /\ new.type = type /\ new.enabled = old.enabled
      /\ new.upper = old.upper /\ new.lower = old.lower
      /\ new.state = old.state /\ new.ref = old.ref /\ new.marked = old.marked
      /\ new.deleteEvent = old.deleteEvent
  <2> DEFINE one == [old EXCEPT !.type = type]
  <2>1. /\ one \in EntryType /\ one.type = type /\ one.enabled = old.enabled
        /\ one.upper = old.upper /\ one.lower = old.lower
        /\ one.state = old.state /\ one.ref = old.ref /\ one.marked = old.marked
        /\ one.deleteEvent = old.deleteEvent
    <3> HIDE DEF old
    <3> QED
      BY <1>2, <1>5 DEF EntryType
  <2>2. new = [one EXCEPT !.reqs = reqs]
    BY <1>5 DEF EntryType
  <2> HIDE DEF one, new, reqs, old
  <2>3. QED
    BY <1>7, <2>1, <2>2 DEF EntryType
<1> HIDE DEF new, old, reqs
<1>9. commanded[e] \in Value \cup {Short, None}
  BY <1>5 DEF TypeOK
<1>10. value \in Value \cup {Short, None}
  BY <1>8, <1>9, CommandedType
<1>11. EntryOK(new, value)
  <2>1. ~new.enabled => new.reqs = <<>>
    BY <1>5, <1>7, <1>8 DEF EntryOK
  <2>2. QED
    BY <1>5, <1>7, <1>8, <2>1, WinnerQueued
<1>12. ASSUME NEW a \in gone, HasRequest(new, a) PROVE HasRequest(old, a)
  <2>1. PICK i \in 1 .. Len(reqs) : reqs[i].app = a
    BY <1>8, <1>12 DEF HasRequest
  <2>2. reqs[i].app # None
    BY <2>1, ThreadNames DEF TypeOK
  <2>3. PICK j \in 1 .. Len(old.reqs) : reqs[i] = old.reqs[j]
    BY <1>7, <2>1, <2>2 DEF From
  <2>4. QED
    BY <2>1, <2>3 DEF HasRequest
<1> HIDE DEF value
<1>13. old = Base(e, p, type)
  BY DEF old, Old
<1>14. QED
  BY <1>1, <1>2, <1>3, <1>4, <1>6, <1>8, <1>10, <1>11, <1>12, <1>13, AmendStep

----------------------------------------------------------------------------
(* EsifArbMgr_CtxInst installs a context *)

LEMMA DefaultTable ==
    /\ DefaultEntries \in [Prims -> Entries]
    /\ SetToSeq(Range(DefaultEntries)) \in Seq(Entries)
    /\ IsInjective(SetToSeq(Range(DefaultEntries)))
    /\ Range(SetToSeq(Range(DefaultEntries))) \subseteq Range(DefaultEntries)
<1> DEFINE f == DefaultEntries
           S == Range(f)
           n == Cardinality(S)
           T == SetToSeq(S)
<1>1. f \in [Prims -> Entries]
  BY ArbAssumption DEF DefaultEntries
<1> HIDE DEF f
<1>2. S \subseteq Entries /\ f \in Surjection(Prims, S)
  BY <1>1 DEF Range, Surjection
<1>3. IsFiniteSet(S)
  <2> HIDE DEF S
  <2> QED
    BY <1>2, ArbAssumption, FS_Surjection
<1> HIDE DEF S
<1>4. n \in Nat /\ \E g \in [1 .. n -> S] : IsInjective(g)
  BY <1>3, FS_CardinalityType DEF ExistsBijection, Bijection, Injection
<1>5. T \in [1 .. n -> S] /\ IsInjective(T)
  BY <1>4 DEF SetToSeq
<1> HIDE DEF n, T
<1>6. T \in Seq(Entries) /\ Range(T) \subseteq S
  BY <1>2, <1>4, <1>5 DEF Range
<1>7. QED
  BY <1>1, <1>5, <1>6 DEF T, S, f

LEMMA CtxInstallStep ==
    ASSUME TypeOK, ArbInvariant, NEW t \in Threads, CtxInstall(t, AfterCtx(t))
    PROVE  TypeOK' /\ ArbInvariant'
<1>1. CallOK(t) /\ t # Remover /\ pc[t] = "ctxCreated" /\ (t \in Apps \/ t = Shell)
  BY CallFacts DEF ArbInvariant, CtxInstall
<1> DEFINE p == AfterCtx(t)
<1>2. /\ p \in Places /\ Goto(t, p) /\ context'
      /\ UNCHANGED <<mgrEnabled, ctxEnabled, commanded, arg, ptr, index, gone, shifted, calls>>
  BY DEF CtxInstall, AfterCtx, Places, KeepRemoval
<1>3. pc' \in [Threads -> Places] /\ pc'[t] = p /\ \A u \in Threads \ {t} : pc'[u] = pc[u]
  BY <1>2, Moves
<1>4. StepOf(t) /\ ptr[t] = None
  BY <1>1, <1>2, <1>3 DEF StepOf, CallOK, Counted
<1>5. CallOK(t)'
  BY <1>1, <1>2, <1>3, ThreadNames DEF CallOK, Counted, AfterCtx
<1>6. CASE context
  <2>1. UNCHANGED <<context, table, entry>>
    <3>1. context' = TRUE /\ context = TRUE
      BY <1>6 DEF CtxInstall, TypeOK
    <3>2. QED
      BY <1>6, <3>1 DEF CtxInstall
  <2>2. TypeOK'
    BY <1>2, <1>3, <2>1 DEF TypeOK, Places
  <2>3. QED
    BY <1>1, <1>2, <1>4, <1>5, <2>1, <2>2, QuietStep
<1>7. CASE ~context
  <2> DEFINE D == Range(DefaultEntries)
             Prim(e) == CHOOSE q \in Prims : DefaultEntries[q] = e
  <2>1. /\ DefaultEntries \in [Prims -> Entries]
        /\ table' \in Seq(Entries) /\ IsInjective(table') /\ Range(table') \subseteq D
    BY <1>7, DefaultTable DEF CtxInstall
  <2>2. ASSUME NEW e \in Entries
        PROVE  entry'[e] = IF e \in D THEN NewEntry(Prim(e), "less") ELSE entry[e]
    <3>1. e \in D <=> \E q \in Prims : DefaultEntries[q] = e
      BY <2>1 DEF Range
    <3>2. QED
      BY <1>7, <3>1 DEF CtxInstall
  <2>3. /\ table = <<>> /\ \A e \in Entries : entry[e] = Unused
        /\ D \subseteq Entries
    BY <1>7, <2>1 DEF ArbInvariant, TableOK, Range
  <2>4. \A u \in Threads : ptr[u] = None /\ ptr'[u] = None
    <3>1. ASSUME NEW u \in Threads PROVE ptr[u] = None
      <4>1. CallOK(u)
        BY DEF ArbInvariant, CallsOK
      <4>2. QED
        BY <1>7, <4>1 DEF CallOK, Counted
    <3>2. QED
      BY <1>2, <3>1
  <2>5. pc[Remover] = "idle" /\ pc'[Remover] = "idle"
    <3>1. CallOK(Remover)
      BY ThreadNames DEF ArbInvariant, CallsOK
    <3>2. pc[Remover] = "idle"
      BY <1>7, <3>1 DEF CallOK
    <3>3. QED
      BY <1>1, <1>3, <3>2, ThreadNames
  <2>6. ASSUME NEW e \in D
        PROVE  /\ entry'[e] \in EntryType /\ entry'[e].state = "live" /\ entry'[e].ref = 1
               /\ ~entry'[e].marked /\ ~entry'[e].deleteEvent /\ entry'[e].reqs = <<>>
    <3>1. Prim(e) \in Prims
      BY <2>1 DEF Range
    <3>2. "less" \in ArbType /\ e \in Entries
      BY <2>3 DEF ArbType
    <3> HIDE DEF Prim, D
    <3>3. entry'[e] = NewEntry(Prim(e), "less")
      BY <2>2, <3>2
    <3>4. QED
      BY <3>1, <3>2, <3>3, NewEntryType
  <2>7. ASSUME NEW e \in Entries \ D
        PROVE  entry'[e] = entry[e] /\ entry'[e].state = "unused" /\ entry'[e] \in EntryType
    <3>1. entry'[e] = entry[e] /\ entry[e] = Unused /\ entry[e] \in EntryType
      BY <2>2, <2>3 DEF TypeOK
    <3>2. Unused.state = "unused"
      BY DEF Unused, NewEntry
    <3>3. QED
      BY <3>1, <3>2
  <2>8. entry' \in [Entries -> EntryType]
    <3>1. entry' = [e \in Entries |-> entry'[e]]
      BY <1>7 DEF CtxInstall
    <3>2. \A e \in Entries : entry'[e] \in EntryType
      BY <2>6, <2>7
    <3>3. QED
      BY <3>1, <3>2
  <2> HIDE DEF D, Prim
  <2>9. TypeOK'
    <3>1. context' \in BOOLEAN
      BY DEF CtxInstall
    <3>2. QED
      BY <1>2, <1>3, <2>1, <2>8, <3>1 DEF TypeOK, Places
  <2>10. CallsOK'
    BY <1>2, <1>4, <1>5, CallsStep DEF ArbInvariant
  <2>11. TableOK'
    <3>1. \A x \in Range(table') : entry'[x].state = "live" /\ ~entry'[x].marked
      BY <2>1, <2>6
    <3>2. pc'[Shell] \notin {"release", "destroy", "wait"} /\ ptr'[Shell] = None
      <4>1. CallOK(Shell)'
        BY <2>10, ThreadNames DEF CallsOK
      <4>2. QED
        BY <2>4, <4>1, ThreadNames DEF CallOK, Counted
    <3>3. \A i, j \in DOMAIN table' : table'[i] = table'[j] => i = j
      BY <2>1 DEF IsInjective
    <3>4. QED
      BY <1>2, <3>1, <3>2, <3>3 DEF TableOK
  <2>12. LifeOK'
    <3>1. ASSUME NEW e \in Entries PROVE Holders(e)' = {}
      BY <2>4, ThreadNames DEF Holders
    <3>2. ASSUME NEW e \in Entries PROVE Accounted(entry'[e], Holders(e)')
      <4>1. CASE e \in D
        BY <2>6, <3>1, <4>1, AccountedNew
      <4>2. CASE e \notin D
        BY <2>7, <4>2 DEF Accounted
      <4>3. QED
        BY <4>1, <4>2
    <3>3. QED
      BY <2>4, <3>2 DEF LifeOK, Accounted
  <2>13. RequestsOrdered' /\ WinnerCommanded'
    <3>1. ASSUME NEW e \in Entries PROVE SameReqs(e) \/ EntryOK(entry'[e], commanded'[e])
      <4>1. CASE e \in D
        BY <2>6, <4>1, EmptyEntry
      <4>2. CASE e \notin D
        BY <1>2, <2>7, <4>2 DEF SameReqs
      <4>3. QED
        BY <4>1, <4>2
    <3>2. QED
      BY <3>1, ReqsPreserved DEF ArbInvariant
  <2>14. RemovalOK'
    BY <2>5 DEF RemovalOK
  <2>15. GoneAppHasNoRequest'
    <3>1. \A x \in Range(table') : \A a : ~HasRequest(entry'[x], a)
      BY <2>1, <2>6, EmptyEntry
    <3>2. QED
      BY <3>1 DEF GoneAppHasNoRequest
  <2>16. QED
    BY <2>9, <2>10, <2>11, <2>12, <2>13, <2>14, <2>15 DEF ArbInvariant
<1>8. QED
  BY <1>6, <1>7

----------------------------------------------------------------------------
(* The theorems *)

LEMMA Initially ==
    ASSUME Init
    PROVE  TypeOK /\ ArbInvariant
<1>1. /\ Unused \in EntryType /\ Unused.reqs = <<>> /\ Unused.state = "unused"
      /\ Unused.ref = 0 /\ ~Unused.marked
  <2>1. None \in Prims \cup {None} /\ "invalid" \in ArbType
    BY DEF ArbType
  <2> DEFINE en == NewEntry(None, "invalid")
             one == [en EXCEPT !.state = "unused"]
  <2>2. en \in EntryType /\ en.reqs = <<>> /\ ~en.marked
    BY <2>1, NewEntryType
  <2>3. Unused = [one EXCEPT !.ref = 0]
    BY DEF Unused, NewEntry
  <2> HIDE DEF en
  <2>4. one \in EntryType /\ one.reqs = <<>> /\ ~one.marked /\ one.state = "unused"
    BY <2>2 DEF EntryType
  <2> HIDE DEF one
  <2>5. QED
    BY <2>3, <2>4 DEF EntryType
<1> HIDE DEF Unused
<1>2. TypeOK
  <2>1. <<>> \in Seq(Entries)
    OBVIOUS
  <2>2. QED
    BY <1>1, <2>1 DEF Init, TypeOK
<1>3. CallsOK
  BY ThreadNames DEF Init, CallsOK, CallOK, Counted
<1>4. Range(table) = {} /\ DOMAIN table = {}
  BY DEF Init, Range
<1>5. TableOK
  BY <1>4, ThreadNames DEF Init, TableOK
<1>6. LifeOK
  BY <1>1 DEF Init, LifeOK, Accounted
<1>7. RequestsOrdered /\ WinnerCommanded
  <2>1. \A e \in Entries : entry[e].reqs = <<>>
    BY <1>1 DEF Init
  <2>2. \A e \in Entries : EntryOK(entry[e], commanded[e])
    BY <2>1, EmptyEntry
  <2>3. QED
    BY <2>2 DEF RequestsOrdered, WinnerCommanded, EntryOK
<1>8. RemovalOK /\ GoneAppHasNoRequest
  BY ThreadNames DEF Init, RemovalOK, GoneAppHasNoRequest
<1>9. QED
  BY <1>2, <1>3, <1>5, <1>6, <1>7, <1>8 DEF ArbInvariant

LEMMA Stuttering ==
    ASSUME TypeOK, ArbInvariant, UNCHANGED vars
    PROVE  TypeOK' /\ ArbInvariant'
<1>1. TypeOK'
  BY DEF TypeOK, vars
<1>2. StepOf(Shell) /\ CallOK(Shell)' /\ Shell # Remover /\ Shell \in Threads
  <2>1. CallOK(Shell)
    BY ThreadNames DEF ArbInvariant, CallsOK
  <2>2. CallOK(Shell)'
    BY <2>1 DEF CallOK, vars
  <2>3. QED
    BY <2>2, ThreadNames DEF StepOf, vars
<1>3. \A e \in Entries : SameLife(e) /\ SameReqs(e)
  BY DEF SameLife, SameReqs, vars
<1>4. CallsOK'
  BY <1>2, CallsStep DEF vars, ArbInvariant
<1>5. TableOK'
  BY DEF ArbInvariant, TableOK, vars
<1>6. LifeOK'
  BY <1>2, <1>3, LifeUnmoved, ThreadNames DEF ArbInvariant, TypeOK, vars
<1>7. RequestsOrdered' /\ WinnerCommanded'
  BY <1>3, ReqsPreserved DEF ArbInvariant
<1>8. RemovalOK' /\ GoneAppHasNoRequest'
  BY <1>1, <1>2, RemovalSame DEF vars
<1>9. QED
  BY <1>1, <1>4, <1>5, <1>6, <1>7, <1>8 DEF ArbInvariant

LEMMA InvariantStep ==
    ASSUME TypeOK, ArbInvariant, [Next]_vars
    PROVE  TypeOK' /\ ArbInvariant'
<1>1. ASSUME NEW a \in Apps, AppStep(a) PROVE TypeOK' /\ ArbInvariant'
  BY <1>1, CtxLookupStep, EntryExecuteStep, DirectStep DEF AppStep
<1>2. ASSUME NEW a \in Apps, RemoveApp(a) PROVE TypeOK' /\ ArbInvariant'
  BY <1>2, RemoveAppStep
<1>3. ASSUME NEW a \in Apps, NEW p \in Prims, NEW v \in Value \cup {Short}, ExecutePrimitive(a, p, v)
      PROVE  TypeOK' /\ ArbInvariant'
  BY <1>3, ExecutePrimitiveStep
<1>4. ASSUME ShellStep PROVE TypeOK' /\ ArbInvariant'
  BY <1>4, SetManagerStateStep, PurgeAllStep, SetContextStateStep, SetEntryStateStep,
     SetLimitsStep, SetArbitrationFunctionStep, NoMemoryStep, StopVisitStep, StopRemoveStep,
     StopReleaseStep, EntryDestroyStep, EntryFreeStep DEF ShellStep
<1>5. ASSUME NEW op \in ShellCommands, Command(op) PROVE TypeOK' /\ ArbInvariant'
  BY <1>5, CommandStep
<1>6. ASSUME EntryRemoveApp PROVE TypeOK' /\ ArbInvariant'
  BY <1>6, EntryRemoveAppStep
<1>7. ASSUME NEW t \in Threads, ThreadStep(t) PROVE TypeOK' /\ ArbInvariant'
  BY <1>7, CtxInstStep, CtxInstallStep, PutStep, IterNextStep, IterPutStep DEF ThreadStep
<1>8. ASSUME UNCHANGED vars PROVE TypeOK' /\ ArbInvariant'
  BY <1>8, Stuttering
<1>9. QED
  BY <1>1, <1>2, <1>3, <1>4, <1>5, <1>6, <1>7, <1>8 DEF Next

(* The inductive invariant of the arbitration context: where each call can be and which *)
(* entry it has, the table, the counts, the requests and the walk of RemoveApp.         *)
THEOREM ArbInvariantHolds == Spec => [](TypeOK /\ ArbInvariant)
<1>1. Init => TypeOK /\ ArbInvariant
  BY Initially
<1>2. TypeOK /\ ArbInvariant /\ [Next]_vars => (TypeOK /\ ArbInvariant)'
  BY InvariantStep
<1>3. QED
  BY <1>1, <1>2, PTL DEF Spec

(* The state of the arbitration context keeps its type. *)
THEOREM ArbTypeCorrect == Spec => []TypeOK
  BY ArbInvariantHolds, PTL

(* No call of the arbitration manager uses a freed EsifArbEntry, the table holds none, the *)
(* reference count is the number of users and one for the table, and EsifArbEntry_Destroy  *)
(* waits only while somebody uses the entry.                                               *)
THEOREM EntriesLiveWhileUsed == Spec => []EntryLifetime
<1>1. ASSUME TypeOK, ArbInvariant PROVE EntryLifetime
  <2>1. /\ \A t \in Threads : ptr[t] # None => entry[ptr[t]].state = "live"
        /\ \A e \in Range(table) : entry[e].state = "live" /\ ~entry[e].marked
        /\ \A e \in Entries : entry[e].state = "live" =>
               entry[e].ref = Cardinality(Holders(e)) + (IF entry[e].marked THEN 0 ELSE 1)
    BY <1>1 DEF ArbInvariant, LifeOK, TableOK, Accounted
  <2>2. ASSUME NEW t \in Threads, pc[t] = "wait"
        PROVE  entry[ptr[t]].deleteEvent \/ Holders(ptr[t]) # {}
    <3>1. t = Shell /\ ptr[t] # None /\ ptr[t] \in Entries
      <4>1. CallOK(t) /\ (ptr[t] # None => ptr[t] \in Entries)
            /\ (t \in Apps \/ t = Shell \/ t = Remover)
        BY <1>1, <2>2, CallFacts DEF ArbInvariant
      <4>2. QED
        BY <2>2, <4>1 DEF CallOK, Counted
    <3>2. entry[ptr[t]].marked /\ entry[ptr[t]].state = "live" /\ Accounted(entry[ptr[t]], Holders(ptr[t]))
      BY <1>1, <2>2, <3>1 DEF ArbInvariant, TableOK, LifeOK
    <3>3. QED
      BY <3>2 DEF Accounted
  <2>3. QED
    BY <2>1, <2>2 DEF EntryLifetime
<1>2. QED
  BY <1>1, ArbInvariantHolds, PTL

(* In every entry each application has at most one request, the head of the list is the    *)
(* winner of the arbitration, whatever the order of requests, removals and changes of the  *)
(* arbitration function, and a disabled entry has no request.                              *)
THEOREM WinnerIsFirst == Spec => []RequestsOrdered
<1>1. ArbInvariant => RequestsOrdered
  BY DEF ArbInvariant
<1>2. QED
  BY <1>1, ArbInvariantHolds, PTL

(* The value queued last for an entry is that of the winner of now, within the limits of now. *)
THEOREM WinnerIsCommanded == Spec => []WinnerCommanded
<1>1. ArbInvariant => WinnerCommanded
  BY DEF ArbInvariant
<1>2. QED
  BY <1>1, ArbInvariantHolds, PTL

(* EsifArbMgr_RemoveApp leaves no request of the application in the table, if no entry is  *)
(* removed from the table during its walk.                                                 *)
THEOREM RemovedAppHasNoRequest == Spec => []GoneAppHasNoRequest
<1>1. ArbInvariant => GoneAppHasNoRequest
  BY DEF ArbInvariant
<1>2. QED
  BY <1>1, ArbInvariantHolds, PTL
====
