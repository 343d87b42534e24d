---- MODULE WorkItemQueueProofs ----
(***************************************************************************)
(* Proofs about the DPTF work item queues, for any threads, work items,    *)
(* criteria, delays and times.                                             *)
(*                                                                         *)
(* WorkInvariant is inductive.  Its parts follow a work item (PlacesOK:    *)
(* which queue or hand holds it), the order of the two queues (OrderOK),   *)
(* the completion semaphores on the waiting threads' stacks (WaitOK), the  *)
(* timer of the deferred queue (TimerOK) and the semaphore of the work     *)
(* item thread (NoLostWakeup).                                             *)
(***************************************************************************)
EXTENDS WorkItemQueue, TLAPS, FiniteSetTheorems, WellFoundedInduction

----------------------------------------------------------------------------
(* Sequences, and functions defined by recursion over a number *)

(* Every nonempty set of natural numbers has a least element. *)
LEMMA LeastExists ==
    ASSUME NEW S \in SUBSET Nat, S # {}
    PROVE  \E x \in S : \A y \in S : x <= y
<1> DEFINE R == OpToRel(<, Nat)
<1>1. IsWellFoundedOn(R, Nat)
  BY NatLessThanWellFounded
<1>2. ASSUME NEW y \in Nat, NEW x \in Nat, y < x PROVE <<y, x>> \in R
  BY <1>2 DEF OpToRel
<1> HIDE DEF R
<1>3. PICK x \in S : \A y \in S : ~ (<<y, x>> \in R)
  BY <1>1, WFMin
<1>4. \A y \in S : ~ (y < x)
  BY <1>2, <1>3
<1>5. QED
  BY <1>3, <1>4

(* A set of numbers up to N that has 0 and with a number the next one has all: the form *)
(* in which induction is used below.                                                   *)
LEMMA AllUpTo ==
    ASSUME NEW N \in Nat, NEW G \in SUBSET (0 .. N), 0 \in G,
           \A n \in 1 .. N : n - 1 \in G => n \in G
    PROVE  G = 0 .. N
<1> SUFFICES ASSUME (0 .. N) \ G # {} PROVE FALSE
  OBVIOUS
<1> DEFINE S == (0 .. N) \ G
<1>1. S \in SUBSET Nat /\ S # {}
  OBVIOUS
<1> HIDE DEF S
<1>2. PICK x \in S : \A y \in S : x <= y
  BY <1>1, LeastExists
<1>3. x \in 0 .. N /\ x \notin G /\ x # 0
  BY <1>2 DEF S
<1>4. x - 1 \in 0 .. N /\ x \in 1 .. N
  BY <1>3
<1>5. x - 1 \in G
  <2>1. CASE x - 1 \in S
    BY <1>2, <1>3, <1>4, <2>1
  <2>2. CASE x - 1 \notin S
    BY <1>4, <2>2 DEF S
  <2>3. QED
    BY <2>1, <2>2
<1>6. QED
  BY <1>3, <1>4, <1>5

HasIterate(V, base, N, step) ==
    \E f \in [0 .. N -> V] : f[0] = base /\ \A n \in 1 .. N : f[n] = step[n][f[n - 1]]

(* A value and a step for each number define a function by recursion. *)
LEMMA Iterated ==
    ASSUME NEW V, NEW base \in V, NEW N \in Nat, NEW step \in [1 .. N -> [V -> V]]
    PROVE  HasIterate(V, base, N, step)
<1> DEFINE Good(f, m) == f[0] = base /\ \A n \in 1 .. m : f[n] = step[n][f[n - 1]]
           G == {m \in 0 .. N : \E f \in [0 .. N -> V] : Good(f, m)}
<1>1. 0 \in G
  <2> DEFINE g == [i \in 0 .. N |-> base]
  <2>1. g \in [0 .. N -> V] /\ g[0] = base /\ 1 .. 0 = {} /\ 0 \in 0 .. N
    OBVIOUS
  <2> HIDE DEF g
  <2>2. Good(g, 0)
    BY <2>1
  <2>3. QED
    BY <2>1, <2>2
<1>2. ASSUME NEW m \in 1 .. N, m - 1 \in G PROVE m \in G
  <2>1. PICK f \in [0 .. N -> V] : Good(f, m - 1)
    BY <1>2
  <2> DEFINE g == [i \in 0 .. N |-> IF i = m THEN step[m][f[m - 1]] ELSE f[i]]
  <2>2. m - 1 \in 0 .. N /\ step[m] \in [V -> V] /\ f[m - 1] \in V
    OBVIOUS
  <2>3. g \in [0 .. N -> V]
    BY <2>2
  <2>4. g[0] = base
    BY <2>1
  <2>5. ASSUME NEW n \in 1 .. m PROVE g[n] = step[n][g[n - 1]]
    <3>1. n \in 0 .. N /\ n - 1 \in 0 .. N /\ n - 1 # m
      OBVIOUS
    <3>2. g[n - 1] = f[n - 1]
      BY <3>1
    <3>3. CASE n = m
      BY <3>1, <3>2, <3>3
    <3>4. CASE n # m
      <4>1. n \in 1 .. (m - 1) /\ g[n] = f[n]
        BY <3>1, <3>4
      <4>2. QED
        BY <2>1, <3>2, <4>1
    <3>5. QED
      BY <3>3, <3>4
  <2> HIDE DEF g
  <2>6. Good(g, m)
    BY <2>4, <2>5
  <2>7. QED
    BY <2>3, <2>6
<1>3. N \in G
  <2>1. G \in SUBSET (0 .. N) /\ \A n \in 1 .. N : n - 1 \in G => n \in G
    BY <1>2
  <2> HIDE DEF G
  <2>2. G = 0 .. N
    BY <1>1, <2>1, AllUpTo
  <2>3. QED
    BY <2>2
<1>4. QED
  BY <1>3 DEF HasIterate

(* The length and the domain of a sequence. *)
LEMMA SeqShape ==
    ASSUME NEW S, NEW s \in Seq(S)
    PROVE  /\ Len(s) \in Nat /\ DOMAIN s = 1 .. Len(s) /\ (s = <<>> <=> Len(s) = 0)
           /\ \A i \in 1 .. Len(s) : s[i] \in S
           /\ s # <<>> => 1 \in 1 .. Len(s) /\ Head(s) = s[1]
  OBVIOUS

(* Appending to a sequence. *)
LEMMA Appended ==
    ASSUME NEW S, NEW s \in Seq(S), NEW x \in S
    PROVE  /\ Append(s, x) \in Seq(S) /\ Len(Append(s, x)) = Len(s) + 1
           /\ \A i \in 1 .. Len(s) : Append(s, x)[i] = s[i]
           /\ Append(s, x)[Len(s) + 1] = x
  OBVIOUS

(* Joining two sequences. *)
LEMMA Joined ==
    ASSUME NEW S, NEW s \in Seq(S), NEW t \in Seq(S)
    PROVE  /\ s \o t \in Seq(S) /\ Len(s \o t) = Len(s) + Len(t)
           /\ \A i \in 1 .. Len(s) + Len(t) :
                  (s \o t)[i] = IF i <= Len(s) THEN s[i] ELSE t[i - Len(s)]
  OBVIOUS

(* Inserting into a sequence. *)
LEMMA Inserted ==
    ASSUME NEW S, NEW s \in Seq(S), NEW x \in S, NEW p \in 1 .. Len(s) + 1
    PROVE  /\ InsertAt(s, p, x) \in Seq(S) /\ Len(InsertAt(s, p, x)) = Len(s) + 1
           /\ \A i \in 1 .. Len(s) + 1 : InsertAt(s, p, x)[i] =
                  IF i < p THEN s[i] ELSE IF i = p THEN x ELSE s[i - 1]
<1>1. Len(s) \in Nat /\ p \in Nat
  OBVIOUS
<1> DEFINE l == SubSeq(s, 1, p - 1)
           r == SubSeq(s, p, Len(s))
<1>2. /\ l \in Seq(S) /\ Len(l) = p - 1 /\ \A i \in 1 .. p - 1 : l[i] = s[i]
  BY <1>1
<1>3. /\ r \in Seq(S) /\ Len(r) = Len(s) - p + 1 
      /\ \A i \in 1 .. Len(s) - p + 1 : r[i] = s[p + i - 1]
  BY <1>1
<1>4. InsertAt(s, p, x) = l \o <<x>> \o r
  BY DEF InsertAt
<1> HIDE DEF l, r
<1> DEFINE lx == l \o <<x>>
<1>5. lx \in Seq(S) /\ Len(lx) = p /\ (\A i \in 1 .. p - 1 : lx[i] = s[i]) /\ lx[p] = x
  BY <1>1, <1>2
<1>6. InsertAt(s, p, x) = lx \o r
  BY <1>4
<1> HIDE DEF lx
<1>7. /\ lx \o r \in Seq(S) /\ Len(lx \o r) = Len(s) + 1
      /\ \A i \in 1 .. Len(s) + 1 : (lx \o r)[i] = IF i <= p THEN lx[i] ELSE r[i - p]
  <2>1. Len(lx) + Len(r) = Len(s) + 1
    BY <1>1, <1>3, <1>5
  <2>2. /\ lx \o r \in Seq(S) /\ Len(lx \o r) = Len(lx) + Len(r)
        /\ \A i \in 1 .. Len(lx) + Len(r) :
               (lx \o r)[i] = IF i <= Len(lx) THEN lx[i] ELSE r[i - Len(lx)]
    BY <1>3, <1>5, Joined
  <2>3. QED
    BY <1>5, <2>1, <2>2
<1>8. ASSUME NEW i \in 1 .. Len(s) + 1
      PROVE  (lx \o r)[i] = IF i < p THEN s[i] ELSE IF i = p THEN x ELSE s[i - 1]
  <2>1. CASE i > p
    <3>1. i - p \in 1 .. Len(s) - p + 1 /\ p + (i - p) - 1 = i - 1
      BY <1>1, <2>1
    <3>2. (lx \o r)[i] = r[i - p] /\ ~(i < p) /\ i # p
      BY <1>1, <1>7, <2>1
    <3>3. r[i - p] = s[i - 1]
      BY <1>3, <3>1
    <3>4. QED
      BY <3>2, <3>3
  <2>2. CASE i <= p
    <3>1. (lx \o r)[i] = lx[i]
      BY <1>7, <2>2
    <3>2. i \in 1 .. p - 1 \/ i = p
      BY <1>1, <2>2
    <3>3. QED
      BY <1>1, <1>5, <3>1, <3>2
  <2>3. i > p \/ i <= p
    BY <1>1
  <2>4. QED
    BY <2>1, <2>2, <2>3
<1>9. QED
  BY <1>6, <1>7, <1>8

----------------------------------------------------------------------------
(* The walk of removeIfMatches over a queue *)

(* r is q with entries left out, in the same order. *)
SubQueue(r, q) ==
    \E f \in [1 .. Len(r) -> 1 .. Len(q)] :
        /\ \A i \in 1 .. Len(r) : r[i] = q[f[i]]
        /\ \A i, j \in 1 .. Len(r) : i < j => f[i] < f[j]

(* k is q without the items of S, in the same order. *)
IsWithout(k, q, S) ==
    /\ \A i \in 1 .. Len(k) : k[i].item \notin S
    /\ \A j \in 1 .. Len(q) : q[j].item \notin S => \E i \in 1 .. Len(k) : k[i] = q[j]
    /\ SubQueue(k, q)

(* The recursion of Without, as equations. *)
WithoutByStep(E, q, S) ==
    \E left \in [0 .. Len(q) -> Seq(E)] :
        /\ left[0] = <<>>
        /\ \A n \in 1 .. Len(q) : left[n] = IF q[n].item \in S THEN left[n - 1]
                                            ELSE Append(left[n - 1], q[n])
        /\ Without(q, S) = left[Len(q)]

LEMMA WithoutEquations ==
    ASSUME NEW E, NEW q \in Seq(E), NEW S
    PROVE  WithoutByStep(E, q, S)
<1> DEFINE N == Len(q)
           Step(n, v) == IF q[n].item \in S THEN v ELSE Append(v, q[n])
           Body(f) == [n \in 0 .. N |-> IF n = 0 THEN <<>>
                                        ELSE IF q[n].item \in S THEN f[n - 1]
                                        ELSE Append(f[n - 1], q[n])]
           left == CHOOSE f : f = Body(f)
           step == [n \in 1 .. N |-> [v \in Seq(E) |-> Step(n, v)]]
<1>1. N \in Nat /\ \A n \in 1 .. N : q[n] \in E
  OBVIOUS
<1>2. Without(q, S) = left[N]
  BY DEF Without
<1>3. <<>> \in Seq(E)
  OBVIOUS
<1>4. ASSUME NEW n \in 1 .. N, NEW v \in Seq(E) PROVE Step(n, v) \in Seq(E)
  <2> HIDE DEF N
  <2>1. q[n] \in E
    BY <1>1
  <2> HIDE <1>1 
  <2> QED
    BY <2>1, Appended
<1> HIDE DEF Step, N
<1>5. step \in [1 .. N -> [Seq(E) -> Seq(E)]]
  BY <1>4
<1>6. PICK g \in [0 .. N -> Seq(E)] :
          g[0] = <<>> /\ \A n \in 1 .. N : g[n] = step[n][g[n - 1]]
  <2> DEFINE V == Seq(E)
             none == <<>>
  <2>1. none \in V /\ step \in [1 .. N -> [V -> V]]
    BY <1>3, <1>5
  <2> HIDE DEF V, none, step
  <2>2. HasIterate(V, none, N, step)
    BY <1>1, <2>1, Iterated
  <2>3. QED
    BY <2>2 DEF V, none, HasIterate
<1>7. ASSUME NEW n \in 1 .. N PROVE n - 1 \in 0 .. N /\ g[n] = Step(n, g[n - 1])
  <2>1. n - 1 \in 0 .. N
    BY <1>1
  <2>2. g[n - 1] \in Seq(E)
    BY <2>1
  <2> HIDE DEF Body, left
  <2>3. step[n][g[n - 1]] = Step(n, g[n - 1])
    BY <2>2
  <2>4. QED
    BY <1>6, <2>1, <2>3
<1>8. g = Body(g)
  <2>1. ASSUME NEW n \in 0 .. N PROVE g[n] = Body(g)[n]
    <3>1. CASE n = 0
      BY <1>6, <3>1
    <3>2. CASE n # 0
      <4>1. n \in 1 .. N
        BY <1>1, <3>2
      <4>2. QED
        BY <1>7, <3>2, <4>1 DEF Step
    <3>3. QED
      BY <3>1, <3>2
  <2> HIDE DEF Body
  <2>2. Body(g) = [n \in 0 .. N |-> Body(g)[n]]
    BY DEF Body
  <2>3. QED
    BY <2>1, <2>2
<1>9. left = Body(left)
  <2> HIDE DEF Body
  <2> QED
    BY <1>8
<1> HIDE DEF left
<1>10. left[0] = <<>>
  BY <1>1, <1>9
<1>11. ASSUME NEW n \in 1 .. N PROVE left[n] = Step(n, left[n - 1])
  <2>1. n \in 0 .. N /\ n # 0
    BY <1>1
  <2>2. left[n] = Body(left)[n]
    BY <1>9
  <2>3. QED
    BY <2>1, <2>2 DEF Step
<1>12. left \in [0 .. N -> Seq(E)]
  <2> DEFINE G == {n \in 0 .. N : left[n] \in Seq(E)}
  <2>1. 0 \in G
    <3>1. 0 \in 0 .. N
      BY <1>1
    <3>2. QED
      BY <1>3, <1>10, <3>1
  <2>2. ASSUME NEW n \in 1 .. N, n - 1 \in G PROVE n \in G
    BY <1>1, <1>4, <1>11, <2>2
  <2>3. G = 0 .. N
    <3>1. G \in SUBSET (0 .. N)
      OBVIOUS
    <3> HIDE DEF G
    <3>2. QED
      BY <1>1, <2>1, <2>2, <3>1, AllUpTo
  <2>4. DOMAIN left = 0 .. N /\ left = [n \in 0 .. N |-> left[n]]
    <3>1. Body(left) = [n \in 0 .. N |-> Body(left)[n]]
      OBVIOUS
    <3> HIDE DEF Body
    <3> QED
      BY <1>9, <3>1
  <2>5. QED
    BY <2>3, <2>4
<1>13. QED
  BY <1>2, <1>10, <1>11, <1>12 DEF N, Step, WithoutByStep

(* Without drops the items of S and keeps the others in their order. *)
LEMMA WithoutIs ==
    ASSUME NEW E, NEW q \in Seq(E), NEW S
    PROVE  Without(q, S) \in Seq(E) /\ IsWithout(Without(q, S), q, S)
<1> DEFINE N == Len(q)
           Part(k, n) ==
               /\ k \in Seq(E)
               /\ \A i \in 1 .. Len(k) : k[i].item \notin S
               /\ \A j \in 1 .. n : q[j].item \notin S => \E i \in 1 .. Len(k) : k[i] = q[j]
               /\ \E f \in [1 .. Len(k) -> 1 .. n] :
                      /\ \A i \in 1 .. Len(k) : k[i] = q[f[i]]
                      /\ \A i, j \in 1 .. Len(k) : i < j => f[i] < f[j]
<1>1. N \in Nat /\ \A n \in 1 .. N : q[n] \in E
  OBVIOUS
<1>2. PICK left \in [0 .. N -> Seq(E)] :
          /\ left[0] = <<>>
          /\ \A n \in 1 .. N : left[n] = IF q[n].item \in S THEN left[n - 1]
                                         ELSE Append(left[n - 1], q[n])
          /\ Without(q, S) = left[N]
  <2>1. WithoutByStep(E, q, S)
    BY WithoutEquations
  <2>2. QED
    BY <2>1 DEF WithoutByStep
<1> HIDE DEF N
<1> DEFINE G == {n \in 0 .. N : Part(left[n], n)}
<1>3. 0 \in G
  <2>1. Len(left[0]) = 0 /\ 1 .. 0 = {} /\ left[0] \in Seq(E) /\ 0 \in 0 .. N
    BY <1>1, <1>2
  <2>2. [i \in {} |-> 0] \in [1 .. 0 -> 1 .. 0]
    BY <2>1
  <2>3. QED
    BY <2>1, <2>2
<1>4. ASSUME NEW n \in 1 .. N, n - 1 \in G PROVE n \in G
  <2> DEFINE k == left[n - 1]
             m == Len(k)
  <2>1. n \in 0 .. N /\ n \in Nat /\ n - 1 \in Nat /\ n - 1 \in 0 .. N
    BY <1>1
  <2>2. Part(k, n - 1)
    BY <1>4
  <2>3. k \in Seq(E) /\ m \in Nat /\ q[n] \in E
    BY <1>1, <2>2
  <2>4. PICK f \in [1 .. m -> 1 .. n - 1] :
            /\ \A i \in 1 .. m : k[i] = q[f[i]]
            /\ \A i, j \in 1 .. m : i < j => f[i] < f[j]
    BY <2>2
  <2>5. CASE q[n].item \in S
    <3>1. left[n] = k
      BY <1>2, <2>5
    <3> HIDE DEF k, m
    <3>2. f \in [1 .. m -> 1 .. n]
      BY <2>1, <2>3
    <3>3. \A j \in 1 .. n : q[j].item \notin S => \E i \in 1 .. m : k[i] = q[j]
      <4>1. \A j \in 1 .. n : j = n \/ j \in 1 .. n - 1
        BY <2>1
      <4>2. QED
        BY <2>2, <2>5, <4>1 DEF m
    <3>4. Part(k, n)
      BY <2>2, <2>4, <3>2, <3>3 DEF m
    <3>5. QED
      BY <2>1, <3>1, <3>4
  <2>6. CASE q[n].item \notin S
    <3> DEFINE h == Append(k, q[n])
               g == [i \in 1 .. m + 1 |-> IF i = m + 1 THEN n ELSE f[i]]
    <3>1. left[n] = h
      BY <1>2, <2>6
    <3>2. /\ h \in Seq(E) /\ Len(h) = m + 1 /\ h[m + 1] = q[n]
          /\ \A i \in 1 .. m : h[i] = k[i]
      <4> HIDE DEF k
      <4> QED
        BY <2>3, Appended
    <3> HIDE DEF h, k, m
    <3>3. \A i \in 1 .. m + 1 : i = m + 1 \/ i \in 1 .. m
      BY <2>3
    <3>4. \A i \in 1 .. m : i \in 1 .. m + 1 /\ i # m + 1 /\ f[i] \in 1 .. n - 1
      BY <2>3
    <3>5. m + 1 \in 1 .. m + 1 /\ \A j \in 1 .. n - 1 : j \in 1 .. n /\ j < n
      BY <2>1, <2>3
    <3>6. g \in [1 .. m + 1 -> 1 .. n]
      BY <2>1, <3>3, <3>4, <3>5
    <3>7. g[m + 1] = n /\ \A i \in 1 .. m : g[i] = f[i]
      BY <3>4, <3>5
    <3> HIDE DEF g
    <3>8. \A i \in 1 .. m + 1 : h[i] = q[g[i]]
      BY <2>4, <3>2, <3>3, <3>7
    <3>9. \A i, j \in 1 .. m + 1 : i < j => g[i] < g[j]
      <4> SUFFICES ASSUME NEW i \in 1 .. m + 1, NEW j \in 1 .. m + 1, i < j PROVE g[i] < g[j]
        OBVIOUS
      <4>1. i \in 1 .. m
        BY <2>3, <3>3
      <4>2. CASE j = m + 1
        BY <3>4, <3>5, <3>7, <4>1, <4>2
      <4>3. CASE j \in 1 .. m
        BY <2>4, <3>7, <4>1, <4>3
      <4>4. QED
        BY <3>3, <4>2, <4>3
    <3>10. \A i \in 1 .. m + 1 : h[i].item \notin S
      BY <2>2, <2>6, <3>2, <3>3 DEF m
    <3>11. ASSUME NEW j \in 1 .. n, q[j].item \notin S PROVE \E i \in 1 .. m + 1 : h[i] = q[j]
      <4>1. CASE j = n
        BY <3>2, <3>5, <4>1
      <4>2. CASE j \in 1 .. n - 1
        BY <2>2, <3>2, <3>4, <3>11, <4>2 DEF m
      <4>3. QED
        BY <2>1, <4>1, <4>2
    <3>12. Part(h, n)
      BY <3>2, <3>6, <3>8, <3>9, <3>10, <3>11
    <3>13. QED
      BY <2>1, <3>1, <3>12
  <2>7. QED
    BY <2>5, <2>6
<1>5. N \in G
  <2>1. G \in SUBSET (0 .. N)
    OBVIOUS
  <2> HIDE DEF G
  <2>2. G = 0 .. N
    BY <1>1, <1>3, <1>4, <2>1, AllUpTo
  <2>3. QED
    BY <1>1, <2>2
<1>6. Part(left[N], N)
  BY <1>5
<1>7. Part(Without(q, S), N)
  BY <1>2, <1>6
<1>8. QED
  BY <1>7, Zenon DEF IsWithout, SubQueue, N

----------------------------------------------------------------------------
(* Queues: the items in them and their order *)

(* The items of a queue, by position. *)
LEMMA ItemsAt ==
    ASSUME NEW E, NEW q \in Seq(E)
    PROVE  /\ \A k \in 1 .. Len(q) : q[k].item \in ItemsOf(q)
           /\ \A i \in ItemsOf(q) : \E k \in 1 .. Len(q) : q[k].item = i
<1>1. DOMAIN q = 1 .. Len(q)
  BY SeqShape
<1>2. QED
  BY <1>1 DEF ItemsOf

(* The items of the two queues are work items. *)
LEMMA ItemsAreItems ==
    /\ \A q \in Seq(ImmediateEntry) : ItemsOf(q) \subseteq Items
    /\ \A q \in Seq(DeferredEntry) : ItemsOf(q) \subseteq Items
<1>1. ASSUME NEW q \in Seq(ImmediateEntry) PROVE ItemsOf(q) \subseteq Items
  <2>1. \A k \in DOMAIN q : q[k] \in ImmediateEntry
    OBVIOUS
  <2>2. \A k \in DOMAIN q : q[k].item \in Items
    BY <2>1 DEF ImmediateEntry
  <2>3. QED
    BY <2>2 DEF ItemsOf
<1>2. ASSUME NEW q \in Seq(DeferredEntry) PROVE ItemsOf(q) \subseteq Items
  <2>1. \A k \in DOMAIN q : q[k] \in DeferredEntry
    OBVIOUS
  <2>2. \A k \in DOMAIN q : q[k].item \in Items
    BY <2>1 DEF DeferredEntry
  <2>3. QED
    BY <2>2 DEF ItemsOf
<1>3. QED
  BY <1>1, <1>2

(* The empty queue. *)
LEMMA EmptyQueue ==
    /\ ItemsOf(<<>>) = {} /\ Distinct(<<>>) /\ ByPriority(<<>>) /\ ByTime(<<>>)
    /\ \A q : SubQueue(<<>>, q)
<1>1. Len(<<>>) = 0 /\ 1 .. 0 = {} /\ DOMAIN <<>> = {}
  OBVIOUS
<1>2. ItemsOf(<<>>) = {}
  BY <1>1 DEF ItemsOf
<1>3. Distinct(<<>>) /\ ByPriority(<<>>) /\ ByTime(<<>>)
  BY <1>1 DEF Distinct, ByPriority, ByTime
<1>4. ASSUME NEW q PROVE SubQueue(<<>>, q)
  <2>1. [i \in {} |-> 0] \in [1 .. Len(<<>>) -> 1 .. Len(q)]
    BY <1>1
  <2>2. QED
    BY <1>1, <2>1 DEF SubQueue
<1>5. QED
  BY <1>2, <1>3, <1>4

(* Leaving entries out disturbs neither distinctness nor order. *)
LEMMA SubQueueKeeps ==
    ASSUME NEW E, NEW q \in Seq(E), NEW r \in Seq(E), SubQueue(r, q)
    PROVE  /\ Distinct(q) => Distinct(r)
           /\ ByPriority(q) => ByPriority(r)
           /\ ByTime(q) => ByTime(r)
           /\ ItemsOf(r) \subseteq ItemsOf(q)
<1>1. PICK f \in [1 .. Len(r) -> 1 .. Len(q)] :
          /\ \A i \in 1 .. Len(r) : r[i] = q[f[i]]
          /\ \A i, j \in 1 .. Len(r) : i < j => f[i] < f[j]
  BY DEF SubQueue
<1>2. Len(r) \in Nat /\ Len(q) \in Nat
  OBVIOUS
<1>3. ASSUME Distinct(q) PROVE Distinct(r)
  <2> SUFFICES ASSUME NEW j \in 1 .. Len(r), NEW k \in 1 .. Len(r), r[j].item = r[k].item
               PROVE  j = k
    BY DEF Distinct
  <2>1. f[j] = f[k]
    BY <1>1, <1>3 DEF Distinct
  <2>2. ~(j < k) /\ ~(k < j)
    BY <1>1, <1>2, <2>1
  <2>3. QED
    BY <1>2, <2>2
<1>4. ASSUME ByPriority(q) PROVE ByPriority(r)
  BY <1>1, <1>4 DEF ByPriority
<1>5. ASSUME ByTime(q) PROVE ByTime(r)
  BY <1>1, <1>5 DEF ByTime
<1>6. ItemsOf(r) \subseteq ItemsOf(q)
  <2>1. /\ \A i \in ItemsOf(r) : \E k \in 1 .. Len(r) : r[k].item = i
        /\ \A k \in 1 .. Len(q) : q[k].item \in ItemsOf(q)
    BY ItemsAt
  <2>2. QED
    BY <1>1, <2>1
<1>7. QED
  BY <1>3, <1>4, <1>5, <1>6

(* What removeIfMatches leaves in a queue. *)
LEMMA RemovedFromQueue ==
    ASSUME NEW E, NEW q \in Seq(E), NEW S
    PROVE  /\ Without(q, S) \in Seq(E)
           /\ SubQueue(Without(q, S), q)
           /\ ItemsOf(Without(q, S)) = ItemsOf(q) \ S
<1> DEFINE r == Without(q, S)
<1>1. r \in Seq(E) /\ IsWithout(r, q, S)
  BY WithoutIs
<1> HIDE DEF r
<1>2. /\ \A i \in ItemsOf(r) : \E k \in 1 .. Len(r) : r[k].item = i
      /\ \A k \in 1 .. Len(r) : r[k].item \in ItemsOf(r)
  BY <1>1, ItemsAt
<1>3. \A i \in ItemsOf(q) : \E k \in 1 .. Len(q) : q[k].item = i
  BY ItemsAt
<1>4. SubQueue(r, q)
  BY <1>1 DEF IsWithout
<1>5. ItemsOf(r) \subseteq ItemsOf(q)
  BY <1>1, <1>4, SubQueueKeeps
<1>6. ASSUME NEW i \in ItemsOf(r) PROVE i \notin S
  BY <1>1, <1>2 DEF IsWithout
<1>7. ASSUME NEW i \in ItemsOf(q), i \notin S PROVE i \in ItemsOf(r)
  BY <1>1, <1>2, <1>3, <1>7 DEF IsWithout
<1>8. ItemsOf(r) = ItemsOf(q) \ S
  BY <1>5, <1>6, <1>7
<1>9. QED
  BY <1>1, <1>4, <1>8 DEF r

(* Taking the head of a queue. *)
LEMMA HeadTaken ==
    ASSUME NEW E, NEW q \in Seq(E), q # <<>>
    PROVE  /\ Tail(q) \in Seq(E) /\ Head(q) \in E
           /\ SubQueue(Tail(q), q)
           /\ Head(q).item \in ItemsOf(q)
           /\ ItemsOf(q) = ItemsOf(Tail(q)) \cup {Head(q).item}
           /\ Distinct(q) => Head(q).item \notin ItemsOf(Tail(q))
<1> DEFINE r == Tail(q)
           f == [i \in 1 .. Len(r) |-> i + 1]
<1>1. /\ r \in Seq(E) /\ Len(r) = Len(q) - 1 /\ Len(q) \in Nat /\ Len(q) # 0
      /\ Head(q) \in E /\ Head(q) = q[1]
      /\ \A i \in 1 .. Len(r) : r[i] = q[i + 1]
  OBVIOUS
<1> HIDE DEF r
<1>2. \A k \in 1 .. Len(q) : k = 1 \/ k - 1 \in 1 .. Len(r)
  BY <1>1
<1>3. 1 \in 1 .. Len(q) /\ \A i \in 1 .. Len(r) : i + 1 \in 1 .. Len(q) /\ i + 1 # 1
  BY <1>1
<1>4. SubQueue(r, q)
  <2>1. f \in [1 .. Len(r) -> 1 .. Len(q)]
    BY <1>3
  <2>2. \A i \in 1 .. Len(r) : f[i] = i + 1
    OBVIOUS
  <2> HIDE DEF f
  <2>3. \A i, j \in 1 .. Len(r) : i < j => f[i] < f[j]
    BY <1>1, <2>2
  <2>4. QED
    BY <1>1, <2>1, <2>2, <2>3 DEF SubQueue
<1>5. /\ \A i \in ItemsOf(r) : \E k \in 1 .. Len(r) : r[k].item = i
      /\ \A k \in 1 .. Len(r) : r[k].item \in ItemsOf(r)
  BY <1>1, ItemsAt
<1>6. /\ \A i \in ItemsOf(q) : \E k \in 1 .. Len(q) : q[k].item = i
      /\ \A k \in 1 .. Len(q) : q[k].item \in ItemsOf(q)
  BY ItemsAt
<1>7. Head(q).item \in ItemsOf(q)
  BY <1>1, <1>3, <1>6
<1>8. ItemsOf(r) \subseteq ItemsOf(q)
  BY <1>1, <1>4, SubQueueKeeps
<1>9. ASSUME NEW i \in ItemsOf(q), i # Head(q).item PROVE i \in ItemsOf(r)
  <2>1. PICK k \in 1 .. Len(q) : q[k].item = i
    BY <1>6
  <2>2. k # 1
    BY <1>1, <1>9, <2>1
  <2>3. k - 1 \in 1 .. Len(r) /\ (k - 1) + 1 = k
    BY <1>1, <1>2, <2>2
  <2>4. QED
    BY <1>1, <1>5, <2>1, <2>3
<1>10. ASSUME Distinct(q), Head(q).item \in ItemsOf(r) PROVE FALSE
  <2>1. PICK k \in 1 .. Len(r) : r[k].item = Head(q).item
    BY <1>5, <1>10
  <2>2. q[k + 1].item = q[1].item
    BY <1>1, <2>1
  <2>3. QED
    BY <1>3, <1>10, <2>2 DEF Distinct
<1>11. ItemsOf(q) = ItemsOf(r) \cup {Head(q).item}
  BY <1>7, <1>8, <1>9
<1>12. QED
  BY <1>1, <1>4, <1>7, <1>10, <1>11 DEF r

(* r is q with e put in at place p. *)
Insertion(r, q, p, e) ==
    /\ p \in 1 .. Len(q) + 1 /\ Len(r) = Len(q) + 1
    /\ \A i \in 1 .. Len(q) + 1 :
           r[i] = IF i < p THEN q[i] ELSE IF i = p THEN e ELSE q[i - 1]

(* The two sorted insertions put the entry before the first of the places given. *)
PutBefore(q, after, e) == IF after = {} THEN Append(q, e) ELSE InsertAt(q, Min(after), e)

LEMMA PutBeforeIs ==
    ASSUME NEW E, NEW q \in Seq(E), NEW e \in E, NEW after \in SUBSET (1 .. Len(q))
    PROVE  /\ PutBefore(q, after, e) \in Seq(E)
           /\ \E p : /\ Insertion(PutBefore(q, after, e), q, p, e)
                     /\ \A k \in 1 .. Len(q) : k < p => k \notin after
                     /\ p <= Len(q) => p \in after
<1>1. Len(q) \in Nat
  OBVIOUS
<1>2. CASE after = {}
  <2> DEFINE r == Append(q, e)
             p == Len(q) + 1
  <2>1. PutBefore(q, after, e) = r
    BY <1>2 DEF PutBefore
  <2>2. /\ r \in Seq(E) /\ Len(r) = Len(q) + 1 /\ r[Len(q) + 1] = e
        /\ \A i \in 1 .. Len(q) : r[i] = q[i]
    BY Appended
  <2> HIDE DEF r
  <2>3. p \in 1 .. Len(q) + 1 /\ ~(p <= Len(q))
        /\ \A i \in 1 .. Len(q) + 1 : i = p \/ (i < p /\ i \in 1 .. Len(q))
    BY <1>1
  <2>4. Insertion(r, q, p, e)
    <3> HIDE DEF p
    <3>1. ASSUME NEW i \in 1 .. Len(q) + 1
          PROVE  r[i] = IF i < p THEN q[i] ELSE IF i = p THEN e ELSE q[i - 1]
      <4>1. CASE i = p
        BY <1>1, <2>2, <2>3, <4>1 DEF p
      <4>2. CASE i < p /\ i \in 1 .. Len(q)
        BY <2>2, <4>2
      <4>3. QED
        BY <2>3, <4>1, <4>2
    <3>2. QED
      BY <2>2, <2>3, <3>1 DEF Insertion
  <2> HIDE DEF p
  <2>5. QED
    BY <1>2, <2>1, <2>2, <2>3, <2>4
<1>3. CASE after # {}
  <2> DEFINE p == Min(after)
             r == InsertAt(q, p, e)
  <2>1. PutBefore(q, after, e) = r
    BY <1>3 DEF PutBefore
  <2>2. p \in after /\ \A y \in after : p <= y
    <3>1. after \in SUBSET Nat
      BY <1>1
    <3>2. \E x \in after : \A y \in after : x <= y
      BY <1>3, <3>1, LeastExists
    <3>3. QED
      BY <3>2 DEF Min
  <2> HIDE DEF p
  <2>3. p \in 1 .. Len(q) + 1 /\ p \in Nat /\ after \subseteq Nat
    BY <1>1, <2>2
  <2>4. /\ r \in Seq(E) /\ Len(r) = Len(q) + 1
        /\ \A i \in 1 .. Len(q) + 1 :
               r[i] = IF i < p THEN q[i] ELSE IF i = p THEN e ELSE q[i - 1]
    BY <2>3, Inserted
  <2> HIDE DEF r
  <2>5. Insertion(r, q, p, e)
    BY <2>3, <2>4 DEF Insertion
  <2>6. \A k \in 1 .. Len(q) : k < p => k \notin after
    BY <1>1, <2>2, <2>3
  <2>7. QED
    BY <2>1, <2>2, <2>4, <2>5, <2>6
<1>4. QED
  BY <1>2, <1>3

(* The items after an insertion. *)
LEMMA InsertionItems ==
    ASSUME NEW E, NEW q \in Seq(E), NEW r \in Seq(E), NEW e \in E, NEW p,
           Insertion(r, q, p, e)
    PROVE  /\ ItemsOf(r) = ItemsOf(q) \cup {e.item}
           /\ Distinct(q) /\ e.item \notin ItemsOf(q) => Distinct(r)
<1>1. Len(q) \in Nat /\ p \in Nat /\ p \in 1 .. Len(q) + 1 /\ Len(r) = Len(q) + 1
  BY DEF Insertion
<1> DEFINE back(i) == IF i < p THEN i ELSE i - 1
<1>2. ASSUME NEW i \in 1 .. Len(r), i # p
      PROVE  back(i) \in 1 .. Len(q) /\ r[i] = q[back(i)]
  <2>1. CASE i < p
    <3>1. i \in 1 .. Len(q) /\ i \in 1 .. Len(q) + 1
      BY <1>1, <2>1
    <3>2. QED
      BY <2>1, <3>1 DEF Insertion
  <2>2. CASE ~(i < p)
    <3>1. i - 1 \in 1 .. Len(q) /\ i \in 1 .. Len(q) + 1
      BY <1>1, <1>2, <2>2
    <3>2. QED
      BY <1>2, <2>2, <3>1 DEF Insertion
  <2>3. QED
    BY <2>1, <2>2
<1>3. p \in 1 .. Len(r) /\ r[p] = e
  BY <1>1 DEF Insertion
<1>4. ASSUME NEW k \in 1 .. Len(q) PROVE \E i \in 1 .. Len(r) : r[i] = q[k]
  <2>1. CASE k < p
    <3>1. k \in 1 .. Len(r) /\ k # p /\ back(k) = k
      BY <1>1, <2>1
    <3> HIDE DEF back
    <3>2. QED
      BY <1>2, <3>1
  <2>2. CASE ~(k < p)
    <3>1. k + 1 \in 1 .. Len(r) /\ k + 1 # p /\ back(k + 1) = k
      BY <1>1, <2>2
    <3> HIDE DEF back
    <3>2. QED
      BY <1>2, <3>1
  <2>3. QED
    BY <2>1, <2>2
<1>5. ASSUME NEW i \in 1 .. Len(r), NEW j \in 1 .. Len(r), i # p, j # p, back(i) = back(j)
      PROVE  i = j
  BY <1>1, <1>5
<1>6. /\ \A i \in ItemsOf(r) : \E k \in 1 .. Len(r) : r[k].item = i
      /\ \A k \in 1 .. Len(r) : r[k].item \in ItemsOf(r)
  BY ItemsAt
<1>7. /\ \A i \in ItemsOf(q) : \E k \in 1 .. Len(q) : q[k].item = i
      /\ \A k \in 1 .. Len(q) : q[k].item \in ItemsOf(q)
  BY ItemsAt
<1> HIDE DEF back
<1>8. \A i \in ItemsOf(r) : i \in ItemsOf(q) \cup {e.item}
  BY <1>2, <1>3, <1>6, <1>7
<1>9. \A i \in ItemsOf(q) : i \in ItemsOf(r)
  BY <1>4, <1>6, <1>7
<1>10. e.item \in ItemsOf(r)
  BY <1>3, <1>6
<1>11. ASSUME Distinct(q), e.item \notin ItemsOf(q) PROVE Distinct(r)
  <2> SUFFICES ASSUME NEW j \in 1 .. Len(r), NEW k \in 1 .. Len(r), r[j].item = r[k].item
               PROVE  j = k
    BY DEF Distinct
  <2>1. CASE j # p /\ k # p
    <3>1. back(j) = back(k)
      BY <1>2, <1>11, <2>1 DEF Distinct
    <3>2. QED
      BY <1>5, <2>1, <3>1
  <2>2. CASE j = p /\ k # p
    BY <1>2, <1>3, <1>7, <1>11, <2>2
  <2>3. CASE k = p /\ j # p
    BY <1>2, <1>3, <1>7, <1>11, <2>3
  <2>4. QED
    BY <2>1, <2>2, <2>3
<1>12. QED
  BY <1>8, <1>9, <1>10, <1>11

(* insertSortedByPriority keeps the order, and overtakes only lower priorities. *)
LEMMA PriorityInserted ==
    ASSUME NEW q \in Seq(ImmediateEntry), NEW e \in ImmediateEntry, ByPriority(q)
    PROVE  /\ InsertByPriority(q, e) \in Seq(ImmediateEntry)
           /\ ItemsOf(InsertByPriority(q, e)) = ItemsOf(q) \cup {e.item}
           /\ Distinct(q) /\ e.item \notin ItemsOf(q) => Distinct(InsertByPriority(q, e))
           /\ ByPriority(InsertByPriority(q, e))
           /\ \E p : /\ Insertion(InsertByPriority(q, e), q, p, e)
                     /\ \A k \in 1 .. Len(q) : k >= p => e.prio > q[k].prio
<1> DEFINE after == {k \in DOMAIN q : e.prio > q[k].prio}
           r == InsertByPriority(q, e)
<1>1. Len(q) \in Nat /\ DOMAIN q = 1 .. Len(q) /\ \A k \in 1 .. Len(q) : q[k] \in ImmediateEntry
  OBVIOUS
<1>2. e.prio \in Nat /\ \A k \in 1 .. Len(q) : q[k].prio \in Nat
  BY <1>1 DEF ImmediateEntry
<1>3. r = PutBefore(q, after, e)
  BY DEF InsertByPriority, PutBefore
<1>4. after \in SUBSET (1 .. Len(q)) /\ \A k \in 1 .. Len(q) : k \in after <=> e.prio > q[k].prio
  BY <1>1
<1> HIDE DEF after, r
<1>5. /\ r \in Seq(ImmediateEntry)
      /\ \E p : /\ Insertion(r, q, p, e)
                /\ \A k \in 1 .. Len(q) : k < p => k \notin after
                /\ p <= Len(q) => p \in after
  BY <1>3, <1>4, PutBeforeIs
<1>6. PICK p : /\ Insertion(r, q, p, e)
               /\ \A k \in 1 .. Len(q) : k < p => k \notin after
               /\ p <= Len(q) => p \in after
  BY <1>5
<1>7. p \in Nat /\ p >= 1 /\ p \in 1 .. Len(q) + 1 /\ Len(r) = Len(q) + 1
  BY <1>1, <1>6 DEF Insertion
<1>8. ASSUME NEW k \in 1 .. Len(q), k < p PROVE q[k].prio >= e.prio
  BY <1>2, <1>4, <1>6, <1>8
<1>9. ASSUME NEW k \in 1 .. Len(q), k >= p PROVE e.prio > q[k].prio
  <2>1. p \in 1 .. Len(q) /\ p <= Len(q)
    BY <1>1, <1>7, <1>9
  <2>2. p \in after /\ (k = p \/ p < k)
    BY <1>6, <1>7, <1>9, <2>1
  <2>3. e.prio > q[p].prio
    BY <1>4, <2>1, <2>2
  <2>4. k = p \/ q[p].prio >= q[k].prio
    BY <1>2, <2>1, <2>2 DEF ByPriority
  <2>5. QED
    BY <1>2, <2>1, <2>3, <2>4
<1>10. ItemsOf(r) = ItemsOf(q) \cup {e.item} /\ (Distinct(q) /\ e.item \notin ItemsOf(q) => Distinct(r))
  BY <1>5, <1>6, InsertionItems
<1>11. ByPriority(r)
  <2> SUFFICES ASSUME NEW i \in 1 .. Len(r), NEW j \in 1 .. Len(r), i < j
               PROVE  r[i].prio >= r[j].prio
    BY DEF ByPriority
  <2>1. /\ r[i] = IF i < p THEN q[i] ELSE IF i = p THEN e ELSE q[i - 1]
        /\ r[j] = IF j < p THEN q[j] ELSE IF j = p THEN e ELSE q[j - 1]
    BY <1>6, <1>7 DEF Insertion
  <2>2. CASE j < p
    <3>1. i \in 1 .. Len(q) /\ j \in 1 .. Len(q) /\ i < p
      BY <1>1, <1>7, <2>2
    <3>2. QED
      BY <2>1, <2>2, <3>1 DEF ByPriority
  <2>3. CASE j = p
    <3>1. i \in 1 .. Len(q) /\ i < p
      BY <1>1, <1>7, <2>3
    <3>2. r[i] = q[i] /\ r[j] = e
      BY <1>7, <2>1, <2>3, <3>1
    <3>3. QED
      BY <1>8, <3>1, <3>2
  <2>4. CASE j > p
    <3>1. j - 1 \in 1 .. Len(q) /\ j - 1 >= p /\ r[j] = q[j - 1]
      BY <1>1, <1>7, <2>1, <2>4
    <3>2. CASE i < p
      <4>1. i \in 1 .. Len(q) /\ i < j - 1 /\ r[i] = q[i]
        BY <1>1, <1>7, <2>1, <2>4, <3>1, <3>2
      <4>2. QED
        BY <3>1, <4>1 DEF ByPriority
    <3>3. CASE i = p
      <4>1. r[i] = e
        BY <1>7, <2>1, <3>3
      <4> DEFINE m == j - 1
      <4>2. m \in 1 .. Len(q) /\ m >= p /\ r[j] = q[m]
        BY <3>1
      <4> HIDE DEF m
      <4>3. e.prio > q[m].prio
        BY <1>9, <4>2
      <4>4. QED
        BY <1>2, <4>1, <4>2, <4>3
    <3>4. CASE i > p
      <4>1. i - 1 \in 1 .. Len(q) /\ i - 1 < j - 1 /\ r[i] = q[i - 1]
        BY <1>1, <1>7, <2>1, <3>4
      <4>2. QED
        BY <3>1, <4>1 DEF ByPriority
    <3>5. i < p \/ i = p \/ i > p
      BY <1>1, <1>7
    <3>6. QED
      BY <3>2, <3>3, <3>4, <3>5
  <2>5. j < p \/ j = p \/ j > p
    BY <1>1, <1>7
  <2>6. QED
    BY <2>2, <2>3, <2>4, <2>5
<1>12. QED
  BY <1>5, <1>6, <1>9, <1>10, <1>11 DEF r

(* insertSortedByDeferredProcessingTime keeps the order. *)
LEMMA TimeInserted ==
    ASSUME NEW q \in Seq(DeferredEntry), NEW e \in DeferredEntry, ByTime(q)
    PROVE  /\ InsertByTime(q, e) \in Seq(DeferredEntry)
           /\ ItemsOf(InsertByTime(q, e)) = ItemsOf(q) \cup {e.item}
           /\ Distinct(q) /\ e.item \notin ItemsOf(q) => Distinct(InsertByTime(q, e))
           /\ ByTime(InsertByTime(q, e))
<1> DEFINE after == {k \in DOMAIN q : q[k].due > e.due}
           r == InsertByTime(q, e)
<1>1. Len(q) \in Nat /\ DOMAIN q = 1 .. Len(q) /\ \A k \in 1 .. Len(q) : q[k] \in DeferredEntry
  OBVIOUS
<1>2. e.due \in Nat /\ \A k \in 1 .. Len(q) : q[k].due \in Nat
  BY <1>1, QueueConstants DEF DeferredEntry
<1>3. r = PutBefore(q, after, e)
  BY DEF InsertByTime, PutBefore
<1>4. after \in SUBSET (1 .. Len(q)) /\ \A k \in 1 .. Len(q) : k \in after <=> q[k].due > e.due
  BY <1>1
<1> HIDE DEF after, r
<1>5. /\ r \in Seq(DeferredEntry)
      /\ \E p : /\ Insertion(r, q, p, e)
                /\ \A k \in 1 .. Len(q) : k < p => k \notin after
                /\ p <= Len(q) => p \in after
  BY <1>3, <1>4, PutBeforeIs
<1>6. PICK p : /\ Insertion(r, q, p, e)
               /\ \A k \in 1 .. Len(q) : k < p => k \notin after
               /\ p <= Len(q) => p \in after
  BY <1>5
<1>7. p \in Nat /\ p >= 1 /\ p \in 1 .. Len(q) + 1 /\ Len(r) = Len(q) + 1
  BY <1>1, <1>6 DEF Insertion
<1>8. ASSUME NEW k \in 1 .. Len(q), k < p PROVE q[k].due <= e.due
  BY <1>2, <1>4, <1>6, <1>8
<1>9. ASSUME NEW k \in 1 .. Len(q), k >= p PROVE q[k].due > e.due
  <2>1. p \in 1 .. Len(q) /\ p <= Len(q)
    BY <1>1, <1>7, <1>9
  <2>2. p \in after /\ (k = p \/ p < k)
    BY <1>6, <1>7, <1>9, <2>1
  <2>3. q[p].due > e.due
    BY <1>4, <2>1, <2>2
  <2>4. k = p \/ q[p].due <= q[k].due
    BY <1>2, <2>1, <2>2 DEF ByTime
  <2>5. QED
    BY <1>2, <2>1, <2>3, <2>4
<1>10. ItemsOf(r) = ItemsOf(q) \cup {e.item} /\ (Distinct(q) /\ e.item \notin ItemsOf(q) => Distinct(r))
  BY <1>5, <1>6, InsertionItems
<1>11. ByTime(r)
  <2> SUFFICES ASSUME NEW i \in 1 .. Len(r), NEW j \in 1 .. Len(r), i < j
               PROVE  r[i].due <= r[j].due
    BY DEF ByTime
  <2>1. /\ r[i] = IF i < p THEN q[i] ELSE IF i = p THEN e ELSE q[i - 1]
        /\ r[j] = IF j < p THEN q[j] ELSE IF j = p THEN e ELSE q[j - 1]
    BY <1>6, <1>7 DEF Insertion
  <2>2. CASE j < p
    <3>1. i \in 1 .. Len(q) /\ j \in 1 .. Len(q) /\ i < p
      BY <1>1, <1>7, <2>2
    <3>2. QED
      BY <2>1, <2>2, <3>1 DEF ByTime
  <2>3. CASE j = p
    <3>1. i \in 1 .. Len(q) /\ i < p
      BY <1>1, <1>7, <2>3
    <3>2. r[i] = q[i] /\ r[j] = e
      BY <1>7, <2>1, <2>3, <3>1
    <3>3. QED
      BY <1>8, <3>1, <3>2
  <2>4. CASE j > p
    <3>1. j - 1 \in 1 .. Len(q) /\ j - 1 >= p /\ r[j] = q[j - 1]
      BY <1>1, <1>7, <2>1, <2>4
    <3>2. CASE i < p
      <4>1. i \in 1 .. Len(q) /\ i < j - 1 /\ r[i] = q[i]
        BY <1>1, <1>7, <2>1, <2>4, <3>1, <3>2
      <4>2. QED
        BY <3>1, <4>1 DEF ByTime
    <3>3. CASE i = p
      <4>1. r[i] = e
        BY <1>7, <2>1, <3>3
      <4> DEFINE m == j - 1
      <4>2. m \in 1 .. Len(q) /\ m >= p /\ r[j] = q[m]
        BY <3>1
      <4> HIDE DEF m
      <4>3. q[m].due > e.due
        BY <1>9, <4>2
      <4>4. QED
        BY <1>2, <4>1, <4>2, <4>3
    <3>4. CASE i > p
      <4>1. i - 1 \in 1 .. Len(q) /\ i - 1 < j - 1 /\ r[i] = q[i - 1]
        BY <1>1, <1>7, <2>1, <3>4
      <4>2. QED
        BY <3>1, <4>1 DEF ByTime
    <3>5. i < p \/ i = p \/ i > p
      BY <1>1, <1>7
    <3>6. QED
      BY <3>2, <3>3, <3>4, <3>5
  <2>5. j < p \/ j = p \/ j > p
    BY <1>1, <1>7
  <2>6. QED
    BY <2>2, <2>3, <2>4, <2>5
<1>12. QED
  BY <1>5, <1>9, <1>10, <1>11 DEF r

----------------------------------------------------------------------------
(* The completion semaphores *)

(* A step that signals the items of S, and lets go of no other item someone waits for. *)
LEMMA WaitStep ==
    ASSUME TypeOK, WaitOK, NEW S \in SUBSET Items,
           UNCHANGED <<waiter, waiting>>, completed' = completed \cup WaitersOf(S),
           \A i \in Items : fate'[i] = "accepted" =>
               i \notin S /\ (fate[i] = "accepted" \/ fate[i] = "new"),
           \A i \in Items : fate'[i] = "new" => fate[i] = "new",
           \A i \in ItemsOf(immediate) \cup {executing} :
               i # None => i \in S \/ i \in ItemsOf(immediate') \cup {executing'},
           mpc = "waitDestroy" <=> mpc' = "waitDestroy"
    PROVE  WaitOK'
<1> USE DEF WaitOK, CompletionSemaphoreValid
<1>1. /\ waiter \in [Items -> Waiters \cup {None}] /\ executing \in Items \cup {None}
      /\ ItemsOf(immediate) \subseteq Items
  BY ItemsAreItems DEF TypeOK
<1>2. \A i \in Items : (waiter[i] # None => waiter[i] \in waiting /\ fate'[i] # "new")
  OBVIOUS
<1>3. ASSUME NEW i \in Items, waiter[i] # None, waiter[i] \in WaitersOf(S) PROVE i \in S
  <2>1. PICK j \in S : waiter[j] = waiter[i]
    BY <1>3 DEF WaitersOf
  <2>2. QED
    BY <1>3, <2>1
<1>4. completed' \subseteq waiting
  <2>1. WaitersOf(S) \subseteq waiting
    BY DEF WaitersOf
  <2>2. QED
    BY <2>1
<1>5. ASSUME NEW i \in Items, fate'[i] = "accepted", waiter[i] # None
      PROVE  waiter[i] \in waiting /\ waiter[i] \notin completed'
  <2>1. i \notin S /\ fate[i] = "accepted"
    BY <1>5
  <2>2. QED
    BY <1>3, <1>5, <2>1
<1>6. ASSUME NEW t \in waiting \ completed'
      PROVE  \E i \in ItemsOf(immediate') \cup {executing'} : i # None /\ waiter[i] = t
  <2>1. t \in waiting \ completed /\ t \notin WaitersOf(S)
    BY <1>6
  <2>2. PICK i \in ItemsOf(immediate) \cup {executing} : i # None /\ waiter[i] = t
    BY <2>1 DEF WaiterHasItem
  <2>3. i \in Items
    BY <1>1, <2>2
  <2>4. waiter[i] # None
    <3>1. CASE waiter[i] = None
      <4>1. None \in waiting
        BY <2>1, <2>2, <3>1
      <4>2. QED
        BY <4>1, QueueConstants DEF TypeOK, Waiters, Callers
    <3>2. QED
      BY <3>1
  <2>5. i \notin S
    BY <2>1, <2>2, <2>4 DEF WaitersOf
  <2>6. QED
    BY <2>2, <2>5
<1>7. WaiterHasItem'
  BY <1>6 DEF WaiterHasItem, ItemsOf
<1>8. QED
  BY <1>2, <1>4, <1>5, <1>7

(* A step that signals nothing. *)
LEMMA WaitKept ==
    ASSUME TypeOK, WaitOK, UNCHANGED waitVars,
           \A i \in Items : fate'[i] = "accepted" => fate[i] = "accepted" \/ fate[i] = "new",
           \A i \in Items : fate'[i] = "new" => fate[i] = "new",
           \A i \in ItemsOf(immediate) \cup {executing} :
               i # None => i \in ItemsOf(immediate') \cup {executing'},
           mpc = "waitDestroy" <=> mpc' = "waitDestroy"
    PROVE  WaitOK'
<1>1. WaitersOf({}) = {}
  BY DEF WaitersOf
<1>2. UNCHANGED <<waiter, waiting>> /\ completed' = completed \cup WaitersOf({})
  BY <1>1 DEF waitVars
<1>3. QED
  BY <1>2, WaitStep

(* enqueueImmediateWorkItemAndWait of an accepted item. *)
LEMMA WaitBegins ==
    ASSUME TypeOK, WaitOK, NEW t \in Waiters, NEW i \in Items,
           t \notin waiting, fate[i] = "new",
           fate' = [fate EXCEPT ![i] = "accepted"],
           waiter' = [waiter EXCEPT ![i] = t],
           waiting' = waiting \cup {t}, completed' = completed,
           ItemsOf(immediate') = ItemsOf(immediate) \cup {i}, executing' = executing,
           Main \in waiting' <=> mpc' = "waitDestroy"
    PROVE  WaitOK'
<1> USE DEF WaitOK, CompletionSemaphoreValid
<1>1. /\ waiter \in [Items -> Waiters \cup {None}] /\ executing \in Items \cup {None}
      /\ ItemsOf(immediate) \subseteq Items /\ DOMAIN fate = Items
  <2>1. DOMAIN fate = Items
    BY DEF TypeOK
  <2>2. QED
    BY <2>1, ItemsAreItems DEF TypeOK
<1>2. None \notin Items /\ t # None
  BY QueueConstants DEF Waiters, Callers
<1>3. /\ waiter'[i] = t /\ fate'[i] = "accepted"
      /\ \A j \in Items : j # i => waiter'[j] = waiter[j] /\ fate'[j] = fate[j]
  BY <1>1
<1>4. \A j \in Items : waiter'[j] = t => j = i
  BY <1>2, <1>3
<1>5. \A j \in Items : waiter'[j] # None => waiter'[j] \in waiting' /\ fate'[j] # "new"
  BY <1>3
<1>6. \A j, k \in Items : waiter'[j] # None /\ waiter'[j] = waiter'[k] => j = k
  BY <1>3, <1>4
<1>7. completed' \subseteq waiting' /\ t \notin completed
  OBVIOUS
<1>8. ASSUME NEW j \in Items, fate'[j] = "accepted", waiter'[j] # None
      PROVE  waiter'[j] \in waiting' /\ waiter'[j] \notin completed'
  <2>1. CASE j = i
    BY <1>3, <1>7, <2>1
  <2>2. CASE j # i
    BY <1>3, <1>8, <2>2
  <2>3. QED
    BY <2>1, <2>2
<1>9. ASSUME NEW u \in waiting' \ completed'
      PROVE  \E j \in ItemsOf(immediate') \cup {executing'} : j # None /\ waiter'[j] = u
  <2>1. CASE u = t
    BY <1>2, <1>3, <2>1
  <2>2. CASE u # t
    <3>1. PICK j \in ItemsOf(immediate) \cup {executing} : j # None /\ waiter[j] = u
      BY <1>9, <2>2 DEF WaiterHasItem
    <3>2. j \in Items /\ u # None
      <4>1. j \in Items
        BY <1>1, <3>1
      <4>2. u # None
        BY <1>9, <2>2, QueueConstants DEF TypeOK, Waiters, Callers
      <4>3. QED
        BY <4>1, <4>2
    <3>3. j # i
      BY <3>1, <3>2
    <3>4. QED
      BY <1>3, <3>1, <3>2, <3>3
  <2>3. QED
    BY <2>1, <2>2
<1>10. WaiterHasItem'
  BY <1>9 DEF WaiterHasItem, ItemsOf
<1>11. QED
  BY <1>5, <1>6, <1>7, <1>8, <1>10

(* The wait ends: the thread's item is no longer in anyone's hands. *)
LEMMA WaitEnds ==
    ASSUME TypeOK, WaitOK, NEW t \in Waiters, WaitReturns(t),
           UNCHANGED <<fate, immediate, executing>>,
           Main \in waiting' <=> mpc' = "waitDestroy"
    PROVE  WaitOK'
<1> USE DEF WaitOK, CompletionSemaphoreValid
<1>1. /\ waiter \in [Items -> Waiters \cup {None}] /\ executing \in Items \cup {None}
      /\ ItemsOf(immediate) \subseteq Items
  BY ItemsAreItems DEF TypeOK
<1>2. /\ waiting' = waiting \ {t} /\ completed' = completed \ {t} /\ t \in waiting /\ t \in completed
      /\ \A j \in Items : waiter'[j] = IF waiter[j] = t /\ fate[j] # "accepted"
                                         THEN None ELSE waiter[j]
  BY DEF WaitReturns
<1>3. t # None
  BY QueueConstants DEF Waiters, Callers
<1>4. \A j \in Items : waiter'[j] # t /\ (waiter'[j] # None => waiter'[j] = waiter[j])
  BY <1>2, <1>3
<1>5. \A j \in Items : waiter[j] # None /\ waiter[j] # t => waiter'[j] = waiter[j]
  BY <1>2
<1>6. /\ \A j \in Items : waiter'[j] # None => waiter'[j] \in waiting' /\ fate'[j] # "new"
      /\ \A j, k \in Items : waiter'[j] # None /\ waiter'[j] = waiter'[k] => j = k
      /\ completed' \subseteq waiting'
  BY <1>2, <1>4
<1>7. CompletionSemaphoreValid'
  BY <1>2, <1>4
<1>8. ASSUME NEW u \in waiting' \ completed'
      PROVE  \E j \in ItemsOf(immediate) \cup {executing} : j # None /\ waiter'[j] = u
  <2>1. u \in waiting \ completed /\ u # t
    BY <1>2
  <2>2. PICK j \in ItemsOf(immediate) \cup {executing} : j # None /\ waiter[j] = u
    BY <2>1 DEF WaiterHasItem
  <2>3. j \in Items /\ u # None
    <3>1. j \in Items
      BY <1>1, <2>2
    <3>2. u # None
      BY <2>1, QueueConstants DEF TypeOK, Waiters, Callers
    <3>3. QED
      BY <3>1, <3>2
  <2>4. QED
    BY <1>5, <2>1, <2>2, <2>3
<1>9. WaiterHasItem'
  BY <1>8 DEF WaiterHasItem, ItemsOf
<1>10. QED
  BY <1>6, <1>7, <1>9

----------------------------------------------------------------------------
(* What the operations do to the queues, the hands and the timer *)

(* The items in the two queues I and D, the carried and the executing item, and fate. *)
Placed(I, D, c, x, f) ==
    /\ I \cap D = {}
    /\ c # None => c \notin I \cup D
    /\ x # None => x \notin I \cup D \cup {c}
    /\ \A i \in Items : f[i] = "accepted" <=> i \in I \cup D \cup {c, x}

LEMMA PlacesAre ==
    PlacesOK <=> /\ Distinct(immediate) /\ Distinct(deferred)
                 /\ Placed(ItemsOf(immediate), ItemsOf(deferred), carried, executing, fate)
  BY DEF PlacesOK, Placed

LEMMA PlacesNext ==
    ASSUME Distinct(immediate'), Distinct(deferred'),
           Placed(ItemsOf(immediate'), ItemsOf(deferred'), carried', executing', fate')
    PROVE  PlacesOK'
  BY DEF PlacesOK, Placed, Distinct, ItemsOf

LEMMA OrderNext ==
    ASSUME ByPriority(immediate'), ByTime(deferred') PROVE OrderOK'
  BY DEF OrderOK, ByPriority, ByTime

(* The sets of items are sets of work items; None is none. *)
LEMMA QueuedItems ==
    ASSUME TypeOK
    PROVE  /\ ItemsOf(immediate) \subseteq Items /\ ItemsOf(deferred) \subseteq Items
           /\ None \notin Items
           /\ carried \in Items \cup {None} /\ executing \in Items \cup {None}
  BY ItemsAreItems, QueueConstants DEF TypeOK

(* Putting an item into the immediate queue. *)
LEMMA PutIs ==
    ASSUME TypeOK, OrderOK, NEW i \in Items, NEW n \in Nat, PutImmediate(i, n)
    PROVE  /\ immediate' \in Seq(ImmediateEntry) /\ semaphore' \in Nat /\ semaphore' > 0
           /\ ItemsOf(immediate') = ItemsOf(immediate) \cup {i}
           /\ Distinct(immediate) /\ i \notin ItemsOf(immediate) => Distinct(immediate')
           /\ ByPriority(immediate')
           /\ \E p : /\ Insertion(immediate', immediate, p, [item |-> i, prio |-> n])
                     /\ \A k \in 1 .. Len(immediate) : k >= p => n > immediate[k].prio
<1> DEFINE e == [item |-> i, prio |-> n]
<1>1. e \in ImmediateEntry /\ e.item = i /\ e.prio = n
  BY DEF ImmediateEntry
<1>2. immediate \in Seq(ImmediateEntry) /\ ByPriority(immediate)
  BY DEF TypeOK, OrderOK
<1>3. immediate' = InsertByPriority(immediate, e)
  BY DEF PutImmediate
<1>4. semaphore' \in Nat /\ semaphore' > 0
  BY DEF TypeOK, PutImmediate
<1> HIDE DEF e
<1>5. /\ immediate' \in Seq(ImmediateEntry)
      /\ ItemsOf(immediate') = ItemsOf(immediate) \cup {e.item}
      /\ Distinct(immediate) /\ e.item \notin ItemsOf(immediate) => Distinct(immediate')
      /\ ByPriority(immediate')
      /\ \E p : /\ Insertion(immediate', immediate, p, e)
                /\ \A k \in 1 .. Len(immediate) : k >= p => e.prio > immediate[k].prio
  BY <1>1, <1>2, <1>3, PriorityInserted
<1>6. QED
  BY <1>1, <1>4, <1>5 DEF e

(* Setting the timer. *)
LEMMA TimerTypes ==
    ASSUME TypeOK, NEW q \in Seq(DeferredEntry), SetTimer(q)
    PROVE  armed' \in (0 .. MaxTime) \cup {None} /\ pending' \in (0 .. MaxTime) \cup {None}
<1>1. q # <<>> => Head(q) \in DeferredEntry
  BY SeqShape
<1>2. q # <<>> => Head(q).due \in 0 .. MaxTime
  BY <1>1 DEF DeferredEntry
<1>3. QED
  BY <1>2 DEF SetTimer, TypeOK

LEMMA TimerSet ==
    ASSUME NEW q, deferred' = q, SetTimer(q),
           tpc' = tpc \/ (tpc # "idle" /\ tpc' # "idle")
    PROVE  TimerOK'
  BY DEF TimerOK, SetTimer

(* DeferredWorkItemQueue::dequeue takes the head of the queue or nothing. *)
LEMMA ReadyIs ==
    ASSUME TypeOK, OrderOK, Distinct(deferred), DequeueReady
    PROVE  /\ deferred' \in Seq(DeferredEntry) /\ Distinct(deferred') /\ ByTime(deferred')
           /\ carried' \in Items \cup {None}
           /\ armed' \in (0 .. MaxTime) \cup {None} /\ pending' \in (0 .. MaxTime) \cup {None}
           /\ \E q : deferred' = q /\ SetTimer(q)
           /\ \/ carried' = None /\ ItemsOf(deferred') = ItemsOf(deferred)
              \/ /\ carried' \in ItemsOf(deferred)
                 /\ ItemsOf(deferred') = ItemsOf(deferred) \ {carried'}
<1>1. deferred \in Seq(DeferredEntry) /\ ByTime(deferred) /\ ItemsOf(deferred) \subseteq Items
  BY QueuedItems DEF TypeOK, OrderOK
<1>2. CASE deferred # <<>> /\ Head(deferred).due <= now
  <2>1. /\ carried' = Head(deferred).item /\ deferred' = Tail(deferred)
        /\ SetTimer(Tail(deferred))
    BY <1>2 DEF DequeueReady
  <2>2. /\ Tail(deferred) \in Seq(DeferredEntry) /\ SubQueue(Tail(deferred), deferred)
        /\ Head(deferred).item \in ItemsOf(deferred)
        /\ ItemsOf(deferred) = ItemsOf(Tail(deferred)) \cup {Head(deferred).item}
        /\ Head(deferred).item \notin ItemsOf(Tail(deferred))
    BY <1>1, <1>2, HeadTaken
  <2> DEFINE q == Tail(deferred)
             h == Head(deferred).item
  <2>3. q \in Seq(DeferredEntry) /\ SetTimer(q) /\ deferred' = q /\ carried' = h
        /\ h \in ItemsOf(deferred) /\ ItemsOf(q) = ItemsOf(deferred) \ {h}
    BY <2>1, <2>2
  <2> HIDE DEF q, h
  <2>4. Distinct(q) /\ ByTime(q)
    <3>1. SubQueue(q, deferred)
      BY <2>2 DEF q
    <3>2. QED
      BY <1>1, <2>3, <3>1, SubQueueKeeps
  <2>5. armed' \in (0 .. MaxTime) \cup {None} /\ pending' \in (0 .. MaxTime) \cup {None}
    BY <2>3, TimerTypes
  <2>6. QED
    BY <1>1, <2>3, <2>4, <2>5
<1>3. CASE ~(deferred # <<>> /\ Head(deferred).due <= now)
  <2>1. carried' = None /\ SetTimer(deferred) /\ deferred' = deferred
    BY <1>3 DEF DequeueReady
  <2>2. armed' \in (0 .. MaxTime) \cup {None} /\ pending' \in (0 .. MaxTime) \cup {None}
    BY <1>1, <2>1, TimerTypes
  <2>3. QED
    BY <1>1, <2>1, <2>2
<1>4. QED
  BY <1>2, <1>3

(* A step that moves no item and signals nothing. *)
LEMMA QuietStep ==
    ASSUME TypeOK, WorkInvariant,
           UNCHANGED <<immediate, deferred, carried, executing, fate, waitVars>>,
           mpc = "waitDestroy" <=> mpc' = "waitDestroy"
    PROVE  PlacesOK' /\ OrderOK' /\ WaitOK'
<1>1. Distinct(immediate) /\ Distinct(deferred)
      /\ Placed(ItemsOf(immediate), ItemsOf(deferred), carried, executing, fate)
  BY PlacesAre DEF WorkInvariant
<1>2. PlacesOK'
  BY <1>1, PlacesNext
<1>3. OrderOK'
  BY OrderNext DEF WorkInvariant, OrderOK
<1>4. WaitOK'
  BY WaitKept DEF WorkInvariant
<1>5. QED
  BY <1>2, <1>3, <1>4

----------------------------------------------------------------------------
(* The steps *)

(* The steps that move no item. *)
LEMMA QuietActionsKeep ==
    ASSUME TypeOK, WorkInvariant,
           \/ WorkerLoop \/ WorkerWait \/ Tick \/ TimerExpires \/ TimerLock \/ TimerUnlock
           \/ TimerReturn \/ ShutDownLockDeferred \/ ShutDownCancelTimer
           \/ ShutDownKillReturns \/ ShutDownDelete
    PROVE  TypeOK' /\ WorkInvariant'
<1> USE DEF lockVars, queueVars, timerVars, workerVars, waitVars
<1>1. HandsOK /\ TimerOK /\ NoLostWakeup
  BY DEF WorkInvariant
<1>2. HandsOK' /\ TimerOK' /\ NoLostWakeup' /\ PlacesOK' /\ OrderOK' /\ WaitOK' => WorkInvariant'
  BY DEF WorkInvariant
<1>3. CASE WorkerLoop
  <2>1. TypeOK'
    BY <1>3 DEF TypeOK, WorkerLoop
  <2>2. HandsOK' /\ NoLostWakeup'
    BY <1>3, <1>1 DEF TypeOK, WorkerLoop, HandsOK, NoLostWakeup
  <2>3. TimerOK'
    BY <1>3, <1>1 DEF TypeOK, WorkerLoop, TimerOK
  <2>4. PlacesOK' /\ OrderOK' /\ WaitOK'
    BY <1>3, QuietStep DEF WorkerLoop
  <2>5. QED
    BY <1>2, <2>1, <2>2, <2>3, <2>4
<1>4. CASE WorkerWait
  <2>1. TypeOK'
    BY <1>4 DEF TypeOK, WorkerWait
  <2>2. HandsOK' /\ NoLostWakeup'
    BY <1>4, <1>1 DEF TypeOK, WorkerWait, HandsOK, NoLostWakeup
  <2>3. TimerOK'
    BY <1>4, <1>1 DEF TypeOK, WorkerWait, TimerOK
  <2>4. PlacesOK' /\ OrderOK' /\ WaitOK'
    BY <1>4, QuietStep DEF WorkerWait
  <2>5. QED
    BY <1>2, <2>1, <2>2, <2>3, <2>4
<1>5. CASE Tick
  <2>1. TypeOK'
    BY <1>5, QueueConstants DEF TypeOK, Tick
  <2>2. HandsOK' /\ NoLostWakeup'
    BY <1>5, <1>1 DEF TypeOK, Tick, HandsOK, NoLostWakeup
  <2>3. TimerOK'
    BY <1>5, <1>1 DEF TypeOK, Tick, TimerOK
  <2>4. PlacesOK' /\ OrderOK' /\ WaitOK'
    BY <1>5, QuietStep DEF Tick
  <2>5. QED
    BY <1>2, <2>1, <2>2, <2>3, <2>4
<1>6. CASE TimerExpires
  <2>1. TypeOK'
    BY <1>6 DEF TypeOK, TimerExpires
  <2>2. HandsOK' /\ NoLostWakeup'
    BY <1>6, <1>1 DEF TypeOK, TimerExpires, HandsOK, NoLostWakeup
  <2>3. TimerOK'
    BY <1>6, <1>1 DEF TypeOK, TimerExpires, TimerOK
  <2>4. PlacesOK' /\ OrderOK' /\ WaitOK'
    BY <1>6, QuietStep DEF TimerExpires
  <2>5. QED
    BY <1>2, <2>1, <2>2, <2>3, <2>4
<1>7. CASE TimerLock
  <2>1. TypeOK'
    BY <1>7 DEF TypeOK, TimerLock
  <2>2. HandsOK' /\ NoLostWakeup'
    BY <1>7, <1>1 DEF TypeOK, TimerLock, HandsOK, NoLostWakeup
  <2>3. TimerOK'
    BY <1>7, <1>1 DEF TypeOK, TimerLock, TimerOK
  <2>4. PlacesOK' /\ OrderOK' /\ WaitOK'
    BY <1>7, QuietStep DEF TimerLock
  <2>5. QED
    BY <1>2, <2>1, <2>2, <2>3, <2>4
<1>8. CASE TimerUnlock
  <2>1. TypeOK'
    BY <1>8 DEF TypeOK, TimerUnlock
  <2>2. HandsOK' /\ NoLostWakeup'
    BY <1>8, <1>1 DEF TypeOK, TimerUnlock, HandsOK, NoLostWakeup
  <2>3. TimerOK'
    BY <1>8, <1>1 DEF TypeOK, TimerUnlock, TimerOK
  <2>4. PlacesOK' /\ OrderOK' /\ WaitOK'
    BY <1>8, QuietStep DEF TimerUnlock
  <2>5. QED
    BY <1>2, <2>1, <2>2, <2>3, <2>4
<1>9. CASE TimerReturn
  <2>1. TypeOK'
    BY <1>9 DEF TypeOK, TimerReturn
  <2>2. HandsOK' /\ NoLostWakeup'
    BY <1>9, <1>1 DEF TypeOK, TimerReturn, HandsOK, NoLostWakeup
  <2>3. TimerOK'
    BY <1>9, <1>1 DEF TypeOK, TimerReturn, TimerOK
  <2>4. PlacesOK' /\ OrderOK' /\ WaitOK'
    BY <1>9, QuietStep DEF TimerReturn
  <2>5. QED
    BY <1>2, <2>1, <2>2, <2>3, <2>4
<1>10. CASE ShutDownLockDeferred
  <2>1. TypeOK'
    BY <1>10 DEF TypeOK, ShutDownLockDeferred
  <2>2. HandsOK' /\ NoLostWakeup'
    BY <1>10, <1>1 DEF TypeOK, ShutDownLockDeferred, HandsOK, NoLostWakeup
  <2>3. TimerOK'
    BY <1>10, <1>1 DEF TypeOK, ShutDownLockDeferred, TimerOK
  <2>4. PlacesOK' /\ OrderOK' /\ WaitOK'
    BY <1>10, QuietStep DEF ShutDownLockDeferred
  <2>5. QED
    BY <1>2, <2>1, <2>2, <2>3, <2>4
<1>11. CASE ShutDownCancelTimer
  <2>1. TypeOK'
    BY <1>11, QueueConstants DEF TypeOK, ShutDownCancelTimer
  <2>2. HandsOK' /\ NoLostWakeup'
    BY <1>11, <1>1 DEF TypeOK, ShutDownCancelTimer, HandsOK, NoLostWakeup
  <2>3. TimerOK'
    BY <1>11, <1>1 DEF TypeOK, ShutDownCancelTimer, TimerOK
  <2>4. PlacesOK' /\ OrderOK' /\ WaitOK'
    BY <1>11, QuietStep DEF ShutDownCancelTimer
  <2>5. QED
    BY <1>2, <2>1, <2>2, <2>3, <2>4
<1>12. CASE ShutDownKillReturns
  <2>1. TypeOK'
    BY <1>12 DEF TypeOK, ShutDownKillReturns
  <2>2. HandsOK' /\ NoLostWakeup'
    BY <1>12, <1>1 DEF TypeOK, ShutDownKillReturns, HandsOK, NoLostWakeup
  <2>3. TimerOK'
    BY <1>12, <1>1 DEF TypeOK, ShutDownKillReturns, TimerOK
  <2>4. PlacesOK' /\ OrderOK' /\ WaitOK'
    BY <1>12, QuietStep DEF ShutDownKillReturns
  <2>5. QED
    BY <1>2, <2>1, <2>2, <2>3, <2>4
<1>13. CASE ShutDownDelete
  <2>1. TypeOK'
    BY <1>13 DEF TypeOK, ShutDownDelete
  <2>2. HandsOK' /\ NoLostWakeup'
    BY <1>13, <1>1 DEF TypeOK, ShutDownDelete, HandsOK, NoLostWakeup
  <2>3. TimerOK'
    BY <1>13, <1>1 DEF TypeOK, ShutDownDelete, TimerOK
  <2>4. PlacesOK' /\ OrderOK' /\ WaitOK'
    BY <1>13, QuietStep DEF ShutDownDelete
  <2>5. QED
    BY <1>2, <2>1, <2>2, <2>3, <2>4
<1>14. QED
  BY <1>3, <1>4, <1>5, <1>6, <1>7, <1>8, <1>9, <1>10, <1>11, <1>12, <1>13

(* A new item is accepted into the immediate queue. *)
LEMMA ItemAccepted ==
    ASSUME TypeOK, WorkInvariant, NEW i \in Items, fate[i] = "new",
           PutImmediate(i, Priority[i]), fate' = [fate EXCEPT ![i] = "accepted"],
           UNCHANGED <<deferred, carried, executing>>
    PROVE  /\ immediate' \in Seq(ImmediateEntry) /\ semaphore' \in Nat /\ semaphore' > 0
           /\ ItemsOf(immediate') = ItemsOf(immediate) \cup {i}
           /\ PlacesOK' /\ OrderOK' /\ NoLostWakeup'
           /\ DOMAIN fate = Items
<1>1. /\ Distinct(immediate) /\ Distinct(deferred) /\ ByPriority(immediate) /\ ByTime(deferred)
      /\ Placed(ItemsOf(immediate), ItemsOf(deferred), carried, executing, fate)
  BY PlacesAre DEF WorkInvariant, OrderOK
<1>2. Priority[i] \in Nat
  BY QueueConstants
<1>3. /\ immediate' \in Seq(ImmediateEntry) /\ semaphore' \in Nat /\ semaphore' > 0
      /\ ItemsOf(immediate') = ItemsOf(immediate) \cup {i}
      /\ Distinct(immediate) /\ i \notin ItemsOf(immediate) => Distinct(immediate')
      /\ ByPriority(immediate')
  BY <1>2, PutIs DEF WorkInvariant
<1>4. DOMAIN fate = Items
  BY DEF TypeOK
<1>5. fate'[i] = "accepted" /\ \A j \in Items : j # i => fate'[j] = fate[j]
  BY <1>4
<1>6. i \notin ItemsOf(immediate) \cup ItemsOf(deferred) \cup {carried, executing} /\ i # None
  BY <1>1, QueueConstants DEF Placed
<1>7. Placed(ItemsOf(immediate'), ItemsOf(deferred'), carried', executing', fate')
  BY <1>1, <1>3, <1>5, <1>6 DEF Placed
<1>8. PlacesOK' /\ OrderOK'
  BY <1>1, <1>3, <1>6, <1>7, PlacesNext, OrderNext
<1>9. NoLostWakeup'
  BY <1>3 DEF NoLostWakeup
<1>10. QED
  BY <1>3, <1>4, <1>8, <1>9

(* A new item is refused, or executed without being queued. *)
LEMMA ItemNotQueued ==
    ASSUME TypeOK, WorkInvariant, NEW i \in Items, fate[i] = "new",
           NEW f \in {"rejected", "executed"}, fate' = [fate EXCEPT ![i] = f],
           UNCHANGED <<immediate, deferred, carried, executing, waitVars, mpc>>
    PROVE  PlacesOK' /\ OrderOK' /\ WaitOK'
<1>1. /\ Distinct(immediate) /\ Distinct(deferred) /\ ByPriority(immediate) /\ ByTime(deferred)
      /\ Placed(ItemsOf(immediate), ItemsOf(deferred), carried, executing, fate)
  BY PlacesAre DEF WorkInvariant, OrderOK
<1>2. DOMAIN fate = Items
  BY DEF TypeOK
<1>3. fate'[i] = f /\ \A j \in Items : j # i => fate'[j] = fate[j]
  BY <1>2
<1>4. Placed(ItemsOf(immediate'), ItemsOf(deferred'), carried', executing', fate')
  BY <1>1, <1>3 DEF Placed
<1>5. PlacesOK' /\ OrderOK'
  BY <1>1, <1>4, PlacesNext, OrderNext
<1>6. WaitOK'
  <2>1. /\ \A j \in Items : fate'[j] = "accepted" => fate[j] = "accepted" \/ fate[j] = "new"
        /\ \A j \in Items : fate'[j] = "new" => fate[j] = "new"
    BY <1>3
  <2>2. QED
    BY <2>1, WaitKept DEF WorkInvariant
<1>7. QED
  BY <1>5, <1>6

LEMMA EnqueueAndReturnKeeps ==
    ASSUME TypeOK, WorkInvariant, NEW t \in Callers, NEW i \in Items, EnqueueAndReturn(t, i)
    PROVE  TypeOK' /\ WorkInvariant'
<1> USE DEF lockVars, queueVars, timerVars, workerVars, waitVars
<1>1. fate[i] = "new"
      /\ UNCHANGED <<lockVars, deferred, timerVars, workerVars, mpc, waitVars>>
  BY DEF EnqueueAndReturn
<1>2. HandsOK' /\ TimerOK'
  BY <1>1 DEF WorkInvariant, HandsOK, TimerOK
<1>3. CASE PutImmediate(i, Priority[i]) /\ fate' = [fate EXCEPT ![i] = "accepted"]
  <2>1. /\ immediate' \in Seq(ImmediateEntry) /\ semaphore' \in Nat
        /\ ItemsOf(immediate') = ItemsOf(immediate) \cup {i}
        /\ PlacesOK' /\ OrderOK' /\ NoLostWakeup' /\ DOMAIN fate = Items
    BY <1>1, <1>3, ItemAccepted
  <2>2. TypeOK'
    BY <1>1, <1>3, <2>1 DEF TypeOK
  <2>3. WaitOK'
    <3>1. /\ \A j \in Items : fate'[j] = "accepted" => fate[j] = "accepted" \/ fate[j] = "new"
          /\ \A j \in Items : fate'[j] = "new" => fate[j] = "new"
      BY <1>1, <1>3, <2>1
    <3>2. QED
      BY <1>1, <2>1, <3>1, WaitKept DEF WorkInvariant
  <2>4. QED
    BY <1>2, <2>1, <2>2, <2>3 DEF WorkInvariant
<1>4. CASE fate' = [fate EXCEPT ![i] = "rejected"] /\ UNCHANGED <<immediate, semaphore>>
  <2>1. PlacesOK' /\ OrderOK' /\ WaitOK'
    BY <1>1, <1>4, ItemNotQueued
  <2>2. TypeOK'
    BY <1>1, <1>4 DEF TypeOK
  <2>3. NoLostWakeup'
    BY <1>1, <1>4 DEF WorkInvariant, NoLostWakeup
  <2>4. QED
    BY <1>2, <2>1, <2>2, <2>3 DEF WorkInvariant
<1>5. QED
  BY <1>3, <1>4 DEF EnqueueAndReturn

(* enqueueImmediateWorkItemAndWait, by a client or by shutDown. *)
LEMMA EnqueueForWaitKeeps ==
    ASSUME TypeOK, WorkInvariant, NEW t \in Waiters, NEW i \in Items,
           EnqueueForWait(t, i), t \notin waiting, fate[i] = "new",
           UNCHANGED <<lockVars, deferred, timerVars, workerVars, completed>>,
           \/ t # Main /\ mpc' = mpc
           \/ t = Main /\ mpc = "destroyAll"
              /\ mpc' = IF Main \in waiting' THEN "waitDestroy" ELSE "destroyAll"
    PROVE  TypeOK' /\ WorkInvariant'
<1> USE DEF lockVars, queueVars, timerVars, workerVars, waitVars
<1>1. HandsOK'
  BY DEF WorkInvariant, HandsOK
<1>2. TimerOK'
  BY DEF WorkInvariant, TimerOK
<1>3. Main \in waiting <=> mpc = "waitDestroy"
  BY DEF WorkInvariant, WaitOK
<1>4. CASE /\ PutImmediate(i, Priority[i]) /\ fate' = [fate EXCEPT ![i] = "accepted"]
           /\ waiter' = [waiter EXCEPT ![i] = t] /\ waiting' = waiting \cup {t}
  <2>1. /\ immediate' \in Seq(ImmediateEntry) /\ semaphore' \in Nat
        /\ ItemsOf(immediate') = ItemsOf(immediate) \cup {i}
        /\ PlacesOK' /\ OrderOK' /\ NoLostWakeup' /\ DOMAIN fate = Items
    BY <1>4, ItemAccepted
  <2>2. TypeOK'
    BY <1>4, <2>1 DEF TypeOK
  <2>3. Main \in waiting' <=> mpc' = "waitDestroy"
    BY <1>3, <1>4
  <2>4. WaitOK'
    BY <1>4, <2>1, <2>3, WaitBegins DEF WorkInvariant
  <2>5. QED
    BY <1>1, <1>2, <2>1, <2>2, <2>4 DEF WorkInvariant
<1>5. CASE /\ fate' = [fate EXCEPT ![i] = "rejected"]
           /\ UNCHANGED <<immediate, semaphore, waiter, waiting>>
  <2>1. mpc' = mpc
    BY <1>3, <1>5
  <2>2. PlacesOK' /\ OrderOK' /\ WaitOK'
    BY <1>5, <2>1, ItemNotQueued
  <2>3. TypeOK'
    BY <1>5, <2>1 DEF TypeOK
  <2>4. NoLostWakeup'
    BY <1>5 DEF WorkInvariant, NoLostWakeup
  <2>5. QED
    BY <1>1, <1>2, <2>2, <2>3, <2>4 DEF WorkInvariant
<1>6. QED
  BY <1>4, <1>5 DEF EnqueueForWait

LEMMA EnqueueAndWaitKeeps ==
    ASSUME TypeOK, WorkInvariant, NEW t \in Callers, NEW i \in Items, EnqueueAndWait(t, i)
    PROVE  TypeOK' /\ WorkInvariant'
<1>1. t \in Waiters /\ t # Main /\ t \notin waiting
  BY QueueConstants DEF EnqueueAndWait, MayCall, Callers, Waiters
<1>2. QED
  BY <1>1, EnqueueForWaitKeeps DEF EnqueueAndWait

LEMMA ShutDownDestroyKeeps ==
    ASSUME TypeOK, WorkInvariant, NEW i \in Items, ShutDownDestroy(i)
    PROVE  TypeOK' /\ WorkInvariant'
<1>1. Main \in Waiters /\ Main \notin waiting
  BY DEF ShutDownDestroy, Waiters, WorkInvariant, WaitOK
<1>2. QED
  BY <1>1, EnqueueForWaitKeeps DEF ShutDownDestroy

LEMMA ExecuteDirectlyKeeps ==
    ASSUME TypeOK, WorkInvariant, NEW i \in Items, ExecuteDirectly(i)
    PROVE  TypeOK' /\ WorkInvariant'
<1> USE DEF lockVars, queueVars, timerVars, workerVars, waitVars
<1>1. PlacesOK' /\ OrderOK' /\ WaitOK'
  BY ItemNotQueued DEF ExecuteDirectly
<1>2. TypeOK'
  BY DEF ExecuteDirectly, TypeOK
<1>3. HandsOK' /\ NoLostWakeup'
  BY DEF ExecuteDirectly, WorkInvariant, HandsOK, NoLostWakeup
<1>4. TimerOK'
  BY DEF ExecuteDirectly, WorkInvariant, TimerOK
<1>5. QED
  BY <1>1, <1>2, <1>3, <1>4 DEF WorkInvariant

(* The wait of a client or of shutDown ends. *)
LEMMA WaitReturnsKeeps ==
    ASSUME TypeOK, WorkInvariant, NEW t \in Waiters, WaitReturns(t),
           UNCHANGED <<lockVars, queueVars, timerVars, workerVars, fate>>,
           \/ t # Main /\ mpc' = mpc
           \/ t = Main /\ mpc = "waitDestroy" /\ mpc' = "destroyAll"
    PROVE  TypeOK' /\ WorkInvariant'
<1> USE DEF lockVars, queueVars, timerVars, workerVars, waitVars
<1>1. TypeOK'
  <2>1. waiter' \in [Items -> Waiters \cup {None}] /\ waiting' \in SUBSET Waiters
        /\ completed' \in SUBSET Waiters
    BY DEF TypeOK, WaitReturns
  <2>2. QED
    BY <2>1 DEF TypeOK
<1>2. PlacesOK' /\ OrderOK'
  <2>1. /\ Distinct(immediate) /\ Distinct(deferred) /\ ByPriority(immediate) /\ ByTime(deferred)
        /\ Placed(ItemsOf(immediate), ItemsOf(deferred), carried, executing, fate)
    BY PlacesAre DEF WorkInvariant, OrderOK
  <2>2. QED
    BY <2>1, PlacesNext, OrderNext
<1>3. HandsOK' /\ NoLostWakeup'
  BY DEF WorkInvariant, HandsOK, NoLostWakeup
<1>4. TimerOK'
  BY DEF WorkInvariant, TimerOK
<1>5. WaitOK'
  <2>1. Main \in waiting' <=> mpc' = "waitDestroy"
    BY DEF WorkInvariant, WaitOK, WaitReturns
  <2>2. QED
    BY <2>1, WaitEnds DEF WorkInvariant
<1>6. QED
  BY <1>1, <1>2, <1>3, <1>4, <1>5 DEF WorkInvariant

LEMMA WaitActionsKeep ==
    ASSUME TypeOK, WorkInvariant, (\E t \in Clients : ClientWaitReturns(t)) \/ ShutDownDestroyed
    PROVE  TypeOK' /\ WorkInvariant'
<1>1. ASSUME NEW t \in Clients, ClientWaitReturns(t) PROVE TypeOK' /\ WorkInvariant'
  <2>1. t \in Waiters /\ t # Main
    BY QueueConstants DEF Waiters, Callers
  <2>2. QED
    BY <1>1, <2>1, WaitReturnsKeeps DEF ClientWaitReturns
<1>2. CASE ShutDownDestroyed
  <2>1. Main \in Waiters
    BY DEF Waiters
  <2>2. QED
    BY <1>2, <2>1, WaitReturnsKeeps DEF ShutDownDestroyed
<1>3. QED
  BY <1>1, <1>2

(* Items leave the immediate queue and are signalled. *)
LEMMA ImmediateShrinks ==
    ASSUME TypeOK, WorkInvariant, NEW r \in Seq(ImmediateEntry), NEW H,
           SubQueue(r, immediate), H \subseteq ItemsOf(immediate),
           ItemsOf(r) = ItemsOf(immediate) \ H, immediate' = r,
           fate' = [j \in Items |-> IF j \in H THEN "removed" ELSE fate[j]],
           completed' = completed \cup WaitersOf(H),
           UNCHANGED <<deferred, carried, executing, waiter, waiting>>,
           mpc = "waitDestroy" <=> mpc' = "waitDestroy"
    PROVE  /\ PlacesOK' /\ OrderOK' /\ WaitOK'
           /\ fate' \in [Items -> {"new", "accepted", "rejected", "executed", "removed"}]
           /\ completed' \in SUBSET Waiters
           /\ immediate' # <<>> => immediate # <<>>
<1>1. /\ Distinct(immediate) /\ Distinct(deferred) /\ ByPriority(immediate) /\ ByTime(deferred)
      /\ Placed(ItemsOf(immediate), ItemsOf(deferred), carried, executing, fate)
      /\ immediate \in Seq(ImmediateEntry)
  BY PlacesAre DEF WorkInvariant, OrderOK, TypeOK
<1>2. Distinct(r) /\ ByPriority(r)
  BY <1>1, SubQueueKeeps
<1>3. H \subseteq Items
  BY QueuedItems
<1>4. \A j \in Items : fate'[j] = IF j \in H THEN "removed" ELSE fate[j]
  OBVIOUS
<1>5. Placed(ItemsOf(r), ItemsOf(deferred'), carried', executing', fate')
  <2>1. ASSUME NEW j \in H PROVE j \notin ItemsOf(deferred) \cup {carried, executing}
    <3>1. j # None /\ j \in ItemsOf(immediate)
      BY <1>3, QueueConstants
    <3>2. QED
      BY <1>1, <3>1 DEF Placed
  <2>2. QED
    BY <1>1, <1>4, <2>1 DEF Placed
<1>6. PlacesOK' /\ OrderOK'
  BY <1>1, <1>2, <1>5, PlacesNext, OrderNext
<1>7. WaitOK'
  <2>1. /\ \A j \in Items : fate'[j] = "accepted" =>
               j \notin H /\ (fate[j] = "accepted" \/ fate[j] = "new")
        /\ \A j \in Items : fate'[j] = "new" => fate[j] = "new"
    BY <1>4
  <2>2. \A j \in ItemsOf(immediate) \cup {executing} :
            j # None => j \in H \/ j \in ItemsOf(immediate') \cup {executing'}
    OBVIOUS
  <2>3. WaitOK /\ H \in SUBSET Items
    BY <1>3 DEF WorkInvariant
  <2>4. QED
    BY <2>1, <2>2, <2>3, WaitStep
<1>8. fate' \in [Items -> {"new", "accepted", "rejected", "executed", "removed"}]
  BY DEF TypeOK
<1>9. completed' \in SUBSET Waiters
  <2>1. WaitersOf(H) \subseteq Waiters
    BY <1>3 DEF WaitersOf, TypeOK
  <2>2. QED
    BY <2>1 DEF TypeOK
<1>10. immediate = <<>> => r = <<>>
  <2> SUFFICES ASSUME immediate = <<>>, r # <<>> PROVE FALSE
    OBVIOUS
  <2>1. ItemsOf(r) = {}
    BY EmptyQueue
  <2>2. Head(r).item \in ItemsOf(r)
    BY HeadTaken
  <2>3. QED
    BY <2>1, <2>2
<1>11. QED
  BY <1>6, <1>7, <1>8, <1>9, <1>10

(* Items leave the deferred queue; nobody waits for a deferred item. *)
LEMMA DeferredShrinks ==
    ASSUME TypeOK, WorkInvariant, NEW r \in Seq(DeferredEntry), NEW H,
           SubQueue(r, deferred), H \subseteq ItemsOf(deferred),
           ItemsOf(r) = ItemsOf(deferred) \ H, deferred' = r,
           fate' = [j \in Items |-> IF j \in H THEN "removed" ELSE fate[j]],
           UNCHANGED <<immediate, carried, executing, waitVars>>,
           mpc = "waitDestroy" <=> mpc' = "waitDestroy"
    PROVE  /\ PlacesOK' /\ OrderOK' /\ WaitOK'
           /\ fate' \in [Items -> {"new", "accepted", "rejected", "executed", "removed"}]
<1>1. /\ Distinct(immediate) /\ Distinct(deferred) /\ ByPriority(immediate) /\ ByTime(deferred)
      /\ Placed(ItemsOf(immediate), ItemsOf(deferred), carried, executing, fate)
      /\ deferred \in Seq(DeferredEntry)
  BY PlacesAre DEF WorkInvariant, OrderOK, TypeOK
<1>2. Distinct(r) /\ ByTime(r)
  BY <1>1, SubQueueKeeps
<1>3. H \subseteq Items
  BY QueuedItems
<1>4. \A j \in Items : fate'[j] = IF j \in H THEN "removed" ELSE fate[j]
  OBVIOUS
<1>5. Placed(ItemsOf(immediate'), ItemsOf(r), carried', executing', fate')
  <2>1. ASSUME NEW j \in H PROVE j \notin ItemsOf(immediate) \cup {carried, executing}
    <3>1. j # None /\ j \in ItemsOf(deferred)
      BY <1>3, QueueConstants
    <3>2. QED
      BY <1>1, <3>1 DEF Placed
  <2>2. QED
    BY <1>1, <1>4, <2>1 DEF Placed
<1>6. PlacesOK' /\ OrderOK'
  BY <1>1, <1>2, <1>5, PlacesNext, OrderNext
<1>7. WaitOK'
  <2>1. /\ \A j \in Items : fate'[j] = "accepted" => fate[j] = "accepted" \/ fate[j] = "new"
        /\ \A j \in Items : fate'[j] = "new" => fate[j] = "new"
    BY <1>4
  <2>2. QED
    BY <2>1, WaitKept DEF WorkInvariant
<1>8. fate' \in [Items -> {"new", "accepted", "rejected", "executed", "removed"}]
  BY DEF TypeOK
<1>9. QED
  BY <1>6, <1>7, <1>8

LEMMA RemoveImmediateKeeps ==
    ASSUME TypeOK, WorkInvariant, NEW t \in Callers, NEW c \in Criteria, RemoveImmediate(t, c)
    PROVE  TypeOK' /\ WorkInvariant'
<1> USE DEF lockVars, queueVars, timerVars, workerVars, waitVars
<1> DEFINE H == ItemsOf(immediate) \cap c
           r == Without(immediate, c)
<1>1. /\ mgrMutex' = t /\ criterion' = c /\ immediate' = r
      /\ fate' = [i \in Items |-> IF i \in H THEN "removed" ELSE fate[i]]
      /\ completed' = completed \cup WaitersOf(H)
      /\ UNCHANGED <<enqueueingEnabled, deferredMutex, deferred, semaphore,
                     timerVars, workerVars, mpc, waiter, waiting>>
  BY DEF RemoveImmediate
<1>2. r \in Seq(ImmediateEntry) /\ SubQueue(r, immediate) /\ ItemsOf(r) = ItemsOf(immediate) \ H
  <2>1. immediate \in Seq(ImmediateEntry)
    BY DEF TypeOK
  <2>2. /\ r \in Seq(ImmediateEntry) /\ SubQueue(r, immediate)
        /\ ItemsOf(r) = ItemsOf(immediate) \ c
    BY <2>1, RemovedFromQueue
  <2>3. QED
    BY <2>2
<1>3. H \subseteq ItemsOf(immediate)
  OBVIOUS
<1> HIDE DEF H, r
<1>4. /\ PlacesOK' /\ OrderOK' /\ WaitOK'
      /\ fate' \in [Items -> {"new", "accepted", "rejected", "executed", "removed"}]
      /\ completed' \in SUBSET Waiters
      /\ immediate' # <<>> => immediate # <<>>
  BY <1>1, <1>2, <1>3, ImmediateShrinks
<1>5. TypeOK'
  BY <1>1, <1>2, <1>4 DEF TypeOK
<1>6. HandsOK' /\ NoLostWakeup'
  BY <1>1, <1>4 DEF WorkInvariant, HandsOK, NoLostWakeup
<1>7. TimerOK'
  BY <1>1 DEF WorkInvariant, TimerOK
<1>8. QED
  BY <1>4, <1>5, <1>6, <1>7 DEF WorkInvariant

LEMMA RemoveDeferredKeeps ==
    ASSUME TypeOK, WorkInvariant, NEW t \in Callers, RemoveDeferred(t)
    PROVE  TypeOK' /\ WorkInvariant'
<1> USE DEF lockVars, queueVars, timerVars, workerVars, waitVars
<1> DEFINE H == ItemsOf(deferred) \cap criterion
           r == Without(deferred, criterion)
<1>1. /\ mgrMutex' = None /\ criterion' = {} /\ deferred' = r
      /\ fate' = [i \in Items |-> IF i \in H THEN "removed" ELSE fate[i]]
      /\ UNCHANGED <<enqueueingEnabled, deferredMutex, immediate, semaphore, now,
                     tpc, carried, workerVars, mpc, waitVars>>
  BY DEF RemoveDeferred
<1>2. SetTimer(r)
  BY <1>1 DEF RemoveDeferred, SetTimer
<1>3. r \in Seq(DeferredEntry) /\ SubQueue(r, deferred) /\ ItemsOf(r) = ItemsOf(deferred) \ H
  <2>1. deferred \in Seq(DeferredEntry)
    BY DEF TypeOK
  <2>2. /\ r \in Seq(DeferredEntry) /\ SubQueue(r, deferred)
        /\ ItemsOf(r) = ItemsOf(deferred) \ criterion
    BY <2>1, RemovedFromQueue
  <2>3. QED
    BY <2>2
<1>4. H \subseteq ItemsOf(deferred)
  OBVIOUS
<1> HIDE DEF H, r
<1>5. /\ PlacesOK' /\ OrderOK' /\ WaitOK'
      /\ fate' \in [Items -> {"new", "accepted", "rejected", "executed", "removed"}]
  BY <1>1, <1>3, <1>4, DeferredShrinks
<1>6. armed' \in (0 .. MaxTime) \cup {None} /\ pending' \in (0 .. MaxTime) \cup {None}
  BY <1>2, <1>3, TimerTypes
<1>7. TypeOK'
  BY <1>1, <1>3, <1>5, <1>6 DEF TypeOK
<1>8. HandsOK' /\ NoLostWakeup'
  BY <1>1 DEF WorkInvariant, HandsOK, NoLostWakeup
<1>9. TimerOK'
  BY <1>1, <1>2, TimerSet
<1>10. QED
  BY <1>5, <1>7, <1>8, <1>9 DEF WorkInvariant

LEMMA EnqueueDeferredKeeps ==
    ASSUME TypeOK, WorkInvariant, NEW t \in Callers, NEW i \in Items, NEW d \in Delays,
           EnqueueDeferred(t, i, d)
    PROVE  TypeOK' /\ WorkInvariant'
<1> USE DEF lockVars, queueVars, timerVars, workerVars, waitVars
<1>1. /\ fate[i] = "new" /\ now + d <= MaxTime
      /\ UNCHANGED <<lockVars, immediate, semaphore, now, tpc, carried, workerVars,
                     mpc, waitVars>>
  BY DEF EnqueueDeferred
<1>2. HandsOK' /\ NoLostWakeup'
  BY <1>1 DEF WorkInvariant, HandsOK, NoLostWakeup
<1>3. /\ Distinct(immediate) /\ Distinct(deferred) /\ ByPriority(immediate) /\ ByTime(deferred)
      /\ Placed(ItemsOf(immediate), ItemsOf(deferred), carried, executing, fate)
      /\ deferred \in Seq(DeferredEntry) /\ DOMAIN fate = Items
  BY PlacesAre DEF WorkInvariant, OrderOK, TypeOK
<1>4. CASE enqueueingEnabled
  <2> DEFINE e == [item |-> i, due |-> now + d]
             r == InsertByTime(deferred, e)
  <2>1. deferred' = r /\ fate' = [fate EXCEPT ![i] = "accepted"]
    BY <1>4 DEF EnqueueDeferred
  <2>2. SetTimer(r)
    BY <1>4, <2>1 DEF EnqueueDeferred, SetTimer
  <2>3. e \in DeferredEntry /\ e.item = i
    BY <1>1, QueueConstants DEF DeferredEntry, TypeOK
  <2> HIDE DEF e
  <2>4. /\ r \in Seq(DeferredEntry) /\ ItemsOf(r) = ItemsOf(deferred) \cup {i} /\ ByTime(r)
        /\ i \notin ItemsOf(deferred) => Distinct(r)
    BY <1>3, <2>3, TimeInserted
  <2> HIDE DEF r
  <2>5. fate'[i] = "accepted" /\ \A j \in Items : j # i => fate'[j] = fate[j]
    BY <1>3, <2>1
  <2>6. i \notin ItemsOf(immediate) \cup ItemsOf(deferred) \cup {carried, executing} /\ i # None
    BY <1>1, <1>3, QueueConstants DEF Placed
  <2>7. Placed(ItemsOf(immediate'), ItemsOf(r), carried', executing', fate')
    BY <1>1, <1>3, <2>4, <2>5, <2>6 DEF Placed
  <2>8. PlacesOK' /\ OrderOK'
    BY <1>1, <1>3, <2>1, <2>4, <2>6, <2>7, PlacesNext, OrderNext
  <2>9. WaitOK'
    <3>1. /\ \A j \in Items : fate'[j] = "accepted" => fate[j] = "accepted" \/ fate[j] = "new"
          /\ \A j \in Items : fate'[j] = "new" => fate[j] = "new"
      BY <1>1, <2>5
    <3>2. QED
      BY <1>1, <3>1, WaitKept DEF WorkInvariant
  <2>10. armed' \in (0 .. MaxTime) \cup {None} /\ pending' \in (0 .. MaxTime) \cup {None}
    BY <2>2, <2>4, TimerTypes
  <2>11. TypeOK'
    BY <1>1, <2>1, <2>4, <2>10 DEF TypeOK
  <2>12. TimerOK'
    BY <1>1, <2>1, <2>2, TimerSet
  <2>13. QED
    BY <1>2, <2>8, <2>9, <2>11, <2>12 DEF WorkInvariant
<1>5. CASE ~enqueueingEnabled
  <2>1. fate' = [fate EXCEPT ![i] = "rejected"] /\ UNCHANGED <<deferred, armed, pending>>
    BY <1>5 DEF EnqueueDeferred
  <2>2. PlacesOK' /\ OrderOK' /\ WaitOK'
    BY <1>1, <2>1, ItemNotQueued
  <2>3. TypeOK'
    BY <1>1, <2>1 DEF TypeOK
  <2>4. TimerOK'
    BY <1>1, <2>1 DEF WorkInvariant, TimerOK
  <2>5. QED
    BY <1>2, <2>2, <2>3, <2>4 DEF WorkInvariant
<1>6. QED
  BY <1>4, <1>5

LEMMA WorkerDequeueKeeps ==
    ASSUME TypeOK, WorkInvariant, WorkerDequeue PROVE TypeOK' /\ WorkInvariant'
<1> USE DEF lockVars, queueVars, timerVars, workerVars, waitVars
<1>1. /\ wpc = "dequeue"
      /\ UNCHANGED <<lockVars, deferred, semaphore, timerVars, destroyThread, mpc,
                     fate, waitVars>>
  BY DEF WorkerDequeue
<1>2. TimerOK'
  BY <1>1 DEF WorkInvariant, TimerOK
<1>3. CASE immediate = <<>>
  <2>1. wpc' = "wait" /\ UNCHANGED <<immediate, executing>>
    BY <1>3 DEF WorkerDequeue
  <2>2. TypeOK'
    BY <1>1, <2>1 DEF TypeOK
  <2>3. HandsOK' /\ NoLostWakeup'
    BY <1>1, <1>3, <2>1 DEF WorkInvariant, HandsOK, NoLostWakeup
  <2>4. PlacesOK' /\ OrderOK' /\ WaitOK'
    BY <1>1, <2>1, QuietStep
  <2>5. QED
    BY <1>2, <2>2, <2>3, <2>4 DEF WorkInvariant
<1>4. CASE immediate # <<>>
  <2> DEFINE r == Tail(immediate)
             x == Head(immediate).item
  <2>1. wpc' = "execute" /\ executing' = x /\ immediate' = r
    BY <1>4 DEF WorkerDequeue
  <2>2. /\ Distinct(immediate) /\ Distinct(deferred) /\ ByPriority(immediate) /\ ByTime(deferred)
        /\ Placed(ItemsOf(immediate), ItemsOf(deferred), carried, executing, fate)
        /\ immediate \in Seq(ImmediateEntry)
    BY PlacesAre DEF WorkInvariant, OrderOK, TypeOK
  <2>3. /\ r \in Seq(ImmediateEntry) /\ SubQueue(r, immediate)
        /\ ItemsOf(immediate) = ItemsOf(r) \cup {x} /\ x \notin ItemsOf(r)
    BY <1>4, <2>2, HeadTaken
  <2> HIDE DEF r, x
  <2>4. Distinct(r) /\ ByPriority(r)
    BY <2>2, <2>3, SubQueueKeeps
  <2>5. x \in Items /\ x # None /\ executing = None
    BY <1>1, <2>3, QueuedItems DEF WorkInvariant, HandsOK
  <2>6. Placed(ItemsOf(r), ItemsOf(deferred'), carried', executing', fate')
    BY <1>1, <2>1, <2>2, <2>3, <2>5, QueueConstants DEF Placed
  <2>7. PlacesOK' /\ OrderOK'
    BY <1>1, <2>1, <2>2, <2>4, <2>6, PlacesNext, OrderNext
  <2>8. WaitOK'
    <3>1. \A i \in ItemsOf(immediate) \cup {executing} :
              i # None => i \in ItemsOf(immediate') \cup {executing'}
      BY <2>1, <2>3, <2>5
    <3>2. QED
      BY <1>1, <3>1, WaitKept DEF WorkInvariant
  <2>9. TypeOK'
    BY <1>1, <2>1, <2>3, <2>5 DEF TypeOK
  <2>10. HandsOK' /\ NoLostWakeup'
    BY <1>1, <2>1, <2>5 DEF WorkInvariant, HandsOK, NoLostWakeup
  <2>11. QED
    BY <1>2, <2>7, <2>8, <2>9, <2>10 DEF WorkInvariant
<1>5. QED
  BY <1>3, <1>4

LEMMA WorkerExecutedKeeps ==
    ASSUME TypeOK, WorkInvariant, WorkerExecuted PROVE TypeOK' /\ WorkInvariant'
<1> USE DEF lockVars, queueVars, timerVars, workerVars, waitVars
<1>1. /\ wpc = "execute" /\ wpc' = "dequeue" /\ executing' = None
      /\ fate' = [fate EXCEPT ![executing] = "executed"]
      /\ completed' = completed \cup WaitersOf({executing})
      /\ UNCHANGED <<lockVars, queueVars, timerVars, destroyThread, mpc, waiter, waiting>>
  BY DEF WorkerExecuted
<1>2. executing \in Items /\ executing # None
  BY <1>1, QueuedItems DEF WorkInvariant, HandsOK
<1>3. /\ Distinct(immediate) /\ Distinct(deferred) /\ ByPriority(immediate) /\ ByTime(deferred)
      /\ Placed(ItemsOf(immediate), ItemsOf(deferred), carried, executing, fate)
      /\ DOMAIN fate = Items
  BY PlacesAre DEF WorkInvariant, OrderOK, TypeOK
<1>4. fate'[executing] = "executed" /\ \A j \in Items : j # executing => fate'[j] = fate[j]
  BY <1>1, <1>2, <1>3
<1>5. Placed(ItemsOf(immediate'), ItemsOf(deferred'), carried', executing', fate')
  BY <1>1, <1>2, <1>3, <1>4, QueueConstants DEF Placed
<1>6. PlacesOK' /\ OrderOK'
  BY <1>1, <1>3, <1>5, PlacesNext, OrderNext
<1>7. WaitOK'
  <2>1. /\ \A j \in Items : fate'[j] = "accepted" =>
               j \notin {executing} /\ (fate[j] = "accepted" \/ fate[j] = "new")
        /\ \A j \in Items : fate'[j] = "new" => fate[j] = "new"
    BY <1>4
  <2>2. \A j \in ItemsOf(immediate) \cup {executing} :
            j # None => j \in {executing} \/ j \in ItemsOf(immediate') \cup {executing'}
    BY <1>1
  <2>3. WaitOK /\ {executing} \in SUBSET Items
    BY <1>2 DEF WorkInvariant
  <2>4. QED
    BY <1>1, <2>1, <2>2, <2>3, WaitStep
<1>8. TypeOK'
  <2>1. WaitersOf({executing}) \subseteq Waiters
    BY <1>2 DEF WaitersOf, TypeOK
  <2>2. completed' \in SUBSET Waiters
    BY <1>1, <2>1 DEF TypeOK
  <2>3. fate' \in [Items -> {"new", "accepted", "rejected", "executed", "removed"}]
    BY <1>1 DEF TypeOK
  <2>4. /\ wpc' = "dequeue" /\ executing' = None
        /\ UNCHANGED <<lockVars, queueVars, timerVars, destroyThread, mpc, waiter, waiting>>
    BY <1>1
  <2>5. QED
    BY <2>2, <2>3, <2>4 DEF TypeOK
<1>9. HandsOK' /\ NoLostWakeup'
  BY <1>1 DEF WorkInvariant, HandsOK, NoLostWakeup
<1>10. TimerOK'
  BY <1>1 DEF WorkInvariant, TimerOK
<1>11. QED
  BY <1>6, <1>7, <1>8, <1>9, <1>10 DEF WorkInvariant

LEMMA TimerFirstDequeueKeeps ==
    ASSUME TypeOK, WorkInvariant, TimerFirstDequeue PROVE TypeOK' /\ WorkInvariant'
<1> USE DEF lockVars, queueVars, timerVars, workerVars, waitVars
<1>1. /\ tpc = "dequeue" /\ DequeueReady /\ tpc' = "lock"
      /\ UNCHANGED <<lockVars, immediate, semaphore, now, workerVars, mpc, fate, waitVars>>
  BY DEF TimerFirstDequeue
<1>2. /\ Distinct(immediate) /\ Distinct(deferred) /\ ByPriority(immediate)
      /\ Placed(ItemsOf(immediate), ItemsOf(deferred), carried, executing, fate)
  BY PlacesAre DEF WorkInvariant, OrderOK
<1>3. /\ deferred' \in Seq(DeferredEntry) /\ Distinct(deferred') /\ ByTime(deferred')
      /\ carried' \in Items \cup {None}
      /\ armed' \in (0 .. MaxTime) \cup {None} /\ pending' \in (0 .. MaxTime) \cup {None}
      /\ \E q : deferred' = q /\ SetTimer(q)
      /\ \/ carried' = None /\ ItemsOf(deferred') = ItemsOf(deferred)
         \/ /\ carried' \in ItemsOf(deferred)
            /\ ItemsOf(deferred') = ItemsOf(deferred) \ {carried'}
  BY <1>1, <1>2, ReadyIs DEF WorkInvariant
<1>4. carried = None
  BY <1>1 DEF WorkInvariant, HandsOK
<1>5. Placed(ItemsOf(immediate'), ItemsOf(deferred'), carried', executing', fate')
  <2>1. None \notin Items /\ ItemsOf(deferred) \subseteq Items
    BY QueuedItems
  <2>2. CASE carried' = None /\ ItemsOf(deferred') = ItemsOf(deferred)
    BY <1>1, <1>2, <1>4, <2>2 DEF Placed
  <2>3. CASE carried' \in ItemsOf(deferred) /\ ItemsOf(deferred') = ItemsOf(deferred) \ {carried'}
    BY <1>1, <1>2, <1>4, <2>1, <2>3 DEF Placed
  <2>4. QED
    BY <1>3, <2>2, <2>3
<1>6. PlacesOK' /\ OrderOK'
  BY <1>1, <1>2, <1>3, <1>5, PlacesNext, OrderNext
<1>7. WaitOK'
  BY <1>1, WaitKept DEF WorkInvariant
<1>8. TypeOK'
  BY <1>1, <1>3 DEF TypeOK
<1>9. HandsOK' /\ NoLostWakeup'
  BY <1>1 DEF WorkInvariant, HandsOK, NoLostWakeup
<1>10. TimerOK'
  BY <1>1, <1>3, TimerSet
<1>11. QED
  BY <1>6, <1>7, <1>8, <1>9, <1>10 DEF WorkInvariant

LEMMA TimerMoveKeeps ==
    ASSUME TypeOK, WorkInvariant, TimerMove PROVE TypeOK' /\ WorkInvariant'
<1> USE DEF lockVars, queueVars, timerVars, workerVars, waitVars
<1>1. /\ tpc = "move" /\ carried # None /\ PutImmediate(carried, 0) /\ DequeueReady
      /\ UNCHANGED <<lockVars, now, tpc, workerVars, mpc, fate, waitVars>>
  BY DEF TimerMove
<1>2. /\ Distinct(immediate) /\ Distinct(deferred)
      /\ Placed(ItemsOf(immediate), ItemsOf(deferred), carried, executing, fate)
  BY PlacesAre DEF WorkInvariant
<1>3. /\ deferred' \in Seq(DeferredEntry) /\ Distinct(deferred') /\ ByTime(deferred')
      /\ carried' \in Items \cup {None}
      /\ armed' \in (0 .. MaxTime) \cup {None} /\ pending' \in (0 .. MaxTime) \cup {None}
      /\ \E q : deferred' = q /\ SetTimer(q)
      /\ \/ carried' = None /\ ItemsOf(deferred') = ItemsOf(deferred)
         \/ /\ carried' \in ItemsOf(deferred)
            /\ ItemsOf(deferred') = ItemsOf(deferred) \ {carried'}
  BY <1>1, <1>2, ReadyIs DEF WorkInvariant
<1>4. carried \in Items /\ carried \notin ItemsOf(immediate)
  BY <1>1, <1>2, QueuedItems DEF Placed
<1>5. /\ immediate' \in Seq(ImmediateEntry) /\ semaphore' \in Nat /\ semaphore' > 0
      /\ ItemsOf(immediate') = ItemsOf(immediate) \cup {carried}
      /\ Distinct(immediate) /\ carried \notin ItemsOf(immediate) => Distinct(immediate')
      /\ ByPriority(immediate')
  BY <1>1, <1>4, PutIs DEF WorkInvariant
<1>6. Placed(ItemsOf(immediate'), ItemsOf(deferred'), carried', executing', fate')
  <2>1. None \notin Items /\ ItemsOf(deferred) \subseteq Items
    BY QueuedItems
  <2>2. CASE carried' = None /\ ItemsOf(deferred') = ItemsOf(deferred)
    BY <1>1, <1>2, <1>4, <1>5, <2>1, <2>2 DEF Placed
  <2>3. CASE carried' \in ItemsOf(deferred) /\ ItemsOf(deferred') = ItemsOf(deferred) \ {carried'}
    BY <1>1, <1>2, <1>4, <1>5, <2>1, <2>3 DEF Placed
  <2>4. QED
    BY <1>3, <2>2, <2>3
<1>7. PlacesOK' /\ OrderOK'
  BY <1>2, <1>3, <1>4, <1>5, <1>6, PlacesNext, OrderNext
<1>8. WaitOK'
  BY <1>1, <1>5, WaitKept DEF WorkInvariant
<1>9. TypeOK'
  BY <1>1, <1>3, <1>5 DEF TypeOK
<1>10. HandsOK' /\ NoLostWakeup'
  BY <1>1, <1>5 DEF WorkInvariant, HandsOK, NoLostWakeup
<1>11. TimerOK'
  BY <1>1, <1>3, TimerSet
<1>12. QED
  BY <1>7, <1>8, <1>9, <1>10, <1>11 DEF WorkInvariant

(* shutDown empties the immediate queue, when it disables enqueueing and when the *)
(* queue is destroyed.                                                            *)
LEMMA ImmediateEmptiedKeeps ==
    ASSUME TypeOK, WorkInvariant, ShutDownDisable \/ ShutDownJoined
    PROVE  TypeOK' /\ WorkInvariant'
<1> USE DEF lockVars, queueVars, timerVars, workerVars, waitVars
<1> DEFINE H == ItemsOf(immediate)
<1>1. /\ immediate' = <<>>
      /\ fate' = [j \in Items |-> IF j \in H THEN "removed" ELSE fate[j]]
      /\ completed' = completed \cup WaitersOf(H)
      /\ UNCHANGED <<deferredMutex, criterion, deferred, semaphore, timerVars,
                     workerVars, waiter, waiting>>
      /\ mgrMutex' \in {Main, None} /\ enqueueingEnabled' \in BOOLEAN
      /\ \/ mpc = "running" /\ mpc' = "lockDeferred"
         \/ mpc = "join" /\ mpc' = "done"
  BY DEF ShutDownDisable, ShutDownJoined, TypeOK
<1>2. SubQueue(<<>>, immediate) /\ ItemsOf(<<>>) = H \ H
  BY EmptyQueue
<1>3. <<>> \in Seq(ImmediateEntry)
  OBVIOUS
<1>4. /\ PlacesOK' /\ OrderOK' /\ WaitOK'
      /\ fate' \in [Items -> {"new", "accepted", "rejected", "executed", "removed"}]
      /\ completed' \in SUBSET Waiters
  <2> DEFINE r == <<>>
  <2>1. /\ r \in Seq(ImmediateEntry) /\ immediate' = r
        /\ SubQueue(r, immediate) /\ ItemsOf(r) = ItemsOf(immediate) \ H
    BY <1>1, <1>2, <1>3
  <2>2. H \subseteq ItemsOf(immediate)
    OBVIOUS
  <2> HIDE DEF r, H
  <2>3. QED
    BY <1>1, <2>1, <2>2, ImmediateShrinks
<1>5. TypeOK'
  <2>1. /\ mgrMutex' \in Callers \cup {Main, None} /\ immediate' \in Seq(ImmediateEntry)
        /\ mpc' \in {"lockDeferred", "done"}
    BY <1>1, <1>3
  <2> HIDE DEF H
  <2>2. QED
    BY <1>1, <1>4, <2>1 DEF TypeOK
<1>6. HandsOK' /\ NoLostWakeup'
  BY <1>1 DEF WorkInvariant, HandsOK, NoLostWakeup
<1>7. TimerOK'
  BY <1>1 DEF WorkInvariant, TimerOK
<1>8. QED
  BY <1>4, <1>5, <1>6, <1>7 DEF WorkInvariant

LEMMA ShutDownEmptyDeferredKeeps ==
    ASSUME TypeOK, WorkInvariant, ShutDownEmptyDeferred PROVE TypeOK' /\ WorkInvariant'
<1> USE DEF lockVars, queueVars, timerVars, workerVars, waitVars
<1> DEFINE H == ItemsOf(deferred)
<1>1. /\ deferred' = <<>>
      /\ fate' = [j \in Items |-> IF j \in H THEN "removed" ELSE fate[j]]
      /\ deferredMutex' = None /\ mgrMutex' = None
      /\ mpc = "emptyDeferred" /\ mpc' = "destroyAll"
      /\ UNCHANGED <<enqueueingEnabled, criterion, immediate, semaphore, timerVars,
                     workerVars, waitVars>>
  BY DEF ShutDownEmptyDeferred
<1>2. SubQueue(<<>>, deferred) /\ ItemsOf(<<>>) = H \ H
  BY EmptyQueue
<1>3. <<>> \in Seq(DeferredEntry)
  OBVIOUS
<1>4. /\ PlacesOK' /\ OrderOK' /\ WaitOK'
      /\ fate' \in [Items -> {"new", "accepted", "rejected", "executed", "removed"}]
  <2> DEFINE r == <<>>
  <2>1. /\ r \in Seq(DeferredEntry) /\ deferred' = r
        /\ SubQueue(r, deferred) /\ ItemsOf(r) = ItemsOf(deferred) \ H
    BY <1>1, <1>2, <1>3
  <2>2. H \subseteq ItemsOf(deferred)
    OBVIOUS
  <2> HIDE DEF r, H
  <2>3. QED
    BY <1>1, <2>1, <2>2, DeferredShrinks
<1>5. TypeOK'
  BY <1>1, <1>3, <1>4 DEF TypeOK
<1>6. HandsOK' /\ NoLostWakeup'
  BY <1>1 DEF WorkInvariant, HandsOK, NoLostWakeup
<1>7. TimerOK'
  BY <1>1 DEF TimerOK
<1>8. QED
  BY <1>4, <1>5, <1>6, <1>7 DEF WorkInvariant

----------------------------------------------------------------------------
(* The invariant *)

LEMMA InitGives == Init => TypeOK /\ WorkInvariant
<1> SUFFICES ASSUME Init PROVE TypeOK /\ WorkInvariant
  OBVIOUS
<1>1. <<>> \in Seq(ImmediateEntry) /\ <<>> \in Seq(DeferredEntry)
  OBVIOUS
<1>2. TypeOK
  <2>1. now \in 0 .. MaxTime /\ semaphore \in Nat
    BY QueueConstants DEF Init
  <2>2. /\ fate \in [Items -> {"new", "accepted", "rejected", "executed", "removed"}]
        /\ waiter \in [Items -> Waiters \cup {None}]
    BY DEF Init
  <2>3. immediate \in Seq(ImmediateEntry) /\ deferred \in Seq(DeferredEntry)
    BY <1>1 DEF Init
  <2>4. QED
    BY <2>1, <2>2, <2>3 DEF Init, TypeOK
<1>3. immediate = <<>> /\ deferred = <<>>
  BY DEF Init
<1>4. /\ Distinct(immediate) /\ Distinct(deferred) /\ ItemsOf(immediate) = {} /\ ItemsOf(deferred) = {}
      /\ ByPriority(immediate) /\ ByTime(deferred)
  BY <1>3, EmptyQueue
<1>5. PlacesOK
  BY <1>4, QueueConstants DEF Init, PlacesOK
<1>6. OrderOK
  BY <1>4 DEF OrderOK
<1>7. HandsOK /\ TimerOK /\ NoLostWakeup
  BY DEF Init, HandsOK, TimerOK, NoLostWakeup
<1>8. WaitOK
  BY DEF Init, WaitOK, CompletionSemaphoreValid, WaiterHasItem
<1>9. QED
  BY <1>2, <1>5, <1>6, <1>7, <1>8 DEF WorkInvariant

LEMMA NextKeeps == TypeOK /\ WorkInvariant /\ [Next]_vars => TypeOK' /\ WorkInvariant'
<1> SUFFICES ASSUME TypeOK, WorkInvariant, [Next]_vars PROVE TypeOK' /\ WorkInvariant'
  OBVIOUS
<1>1. ASSUME NEW t \in Callers, ClientStep(t) PROVE TypeOK' /\ WorkInvariant'
  BY <1>1, EnqueueAndReturnKeeps, EnqueueAndWaitKeeps, EnqueueDeferredKeeps,
     RemoveImmediateKeeps DEF ClientStep
<1>2. ASSUME NEW t \in Callers, RemoveDeferred(t) PROVE TypeOK' /\ WorkInvariant'
  BY <1>2, RemoveDeferredKeeps
<1>3. ASSUME NEW t \in Clients, ClientWaitReturns(t) PROVE TypeOK' /\ WorkInvariant'
  BY <1>3, WaitActionsKeep
<1>4. ASSUME NEW i \in Items, ExecuteDirectly(i) PROVE TypeOK' /\ WorkInvariant'
  BY <1>4, ExecuteDirectlyKeeps
<1>5. CASE WorkerStep
  BY <1>5, QuietActionsKeep, WorkerDequeueKeeps, WorkerExecutedKeeps DEF WorkerStep
<1>6. CASE Tick \/ TimerExpires
  BY <1>6, QuietActionsKeep
<1>7. CASE TimerStep
  BY <1>7, QuietActionsKeep, TimerFirstDequeueKeeps, TimerMoveKeeps DEF TimerStep
<1>8. CASE ShutDownDisable
  BY <1>8, ImmediateEmptiedKeeps
<1>9. CASE ShutDownStep
  BY <1>9, QuietActionsKeep, ShutDownEmptyDeferredKeeps, WaitActionsKeep,
     ImmediateEmptiedKeeps, ShutDownDestroyKeeps DEF ShutDownStep
<1>10. CASE UNCHANGED vars
  <2>1. UNCHANGED <<lockVars, queueVars, timerVars, workerVars, mpc, fate, waitVars>>
    BY <1>10 DEF vars
  <2> USE DEF lockVars, queueVars, timerVars, workerVars, waitVars
  <2>2. TypeOK'
    BY <2>1 DEF TypeOK
  <2>3. PlacesOK' /\ OrderOK' /\ WaitOK'
    BY <2>1, QuietStep
  <2>4. HandsOK' /\ TimerOK' /\ NoLostWakeup'
    BY <2>1 DEF WorkInvariant, HandsOK, TimerOK, NoLostWakeup
  <2>5. QED
    BY <2>2, <2>3, <2>4 DEF WorkInvariant
<1>11. QED
  BY <1>1, <1>2, <1>3, <1>4, <1>5, <1>6, <1>7, <1>8, <1>9, <1>10 DEF Next

(* The inductive invariant of the work item queues holds for every set of threads and *)
(* work items.                                                                        *)
THEOREM WorkInvariantHolds == Spec => [](TypeOK /\ WorkInvariant)
<1>1. Init => TypeOK /\ WorkInvariant
  BY InitGives
<1>2. TypeOK /\ WorkInvariant /\ [Next]_vars => (TypeOK /\ WorkInvariant)'
  BY NextKeeps
<1>3. QED
  BY <1>1, <1>2, PTL DEF Spec

(* Type correctness of WorkItemQueueManager's queues, timer, work item thread and *)
(* shutdown.                                                                      *)
THEOREM WorkTypeCorrect == Spec => []TypeOK
  BY WorkInvariantHolds, PTL

----------------------------------------------------------------------------
(* Where the work items are *)

(* How often an item is in a queue. *)
LEMMA CopiesQueued ==
    ASSUME NEW E, NEW q \in Seq(E), Distinct(q), NEW i
    PROVE  Cardinality({k \in DOMAIN q : q[k].item = i}) = IF i \in ItemsOf(q) THEN 1 ELSE 0
<1> DEFINE K == {k \in DOMAIN q : q[k].item = i}
<1>1. DOMAIN q = 1 .. Len(q)
  BY SeqShape
<1>2. CASE i \in ItemsOf(q)
  <2>1. PICK k \in 1 .. Len(q) : q[k].item = i
    BY <1>2, ItemsAt
  <2>2. K = {k}
    BY <1>1, <2>1 DEF Distinct
  <2>3. Cardinality({k}) = 1
    BY FS_Singleton
  <2>4. QED
    BY <1>2, <2>2, <2>3
<1>3. CASE i \notin ItemsOf(q)
  <2>1. K = {}
    BY <1>1, <1>3, ItemsAt
  <2>2. Cardinality({}) = 0
    BY FS_EmptySet
  <2>3. QED
    BY <1>3, <2>1, <2>2
<1>4. QED
  BY <1>2, <1>3

LEMMA InvariantGivesConserved == TypeOK /\ WorkInvariant => ItemsConserved
<1> SUFFICES ASSUME TypeOK, WorkInvariant, NEW i \in Items
             PROVE  Copies(i) = IF fate[i] = "accepted" THEN 1 ELSE 0
  BY DEF ItemsConserved
<1>1. /\ Distinct(immediate) /\ Distinct(deferred)
      /\ Placed(ItemsOf(immediate), ItemsOf(deferred), carried, executing, fate)
  BY PlacesAre DEF WorkInvariant
<1>2. immediate \in Seq(ImmediateEntry) /\ deferred \in Seq(DeferredEntry)
  BY DEF TypeOK
<1> DEFINE a == Cardinality({k \in DOMAIN immediate : immediate[k].item = i})
           b == Cardinality({k \in DOMAIN deferred : deferred[k].item = i})
           c == IF carried = i THEN 1 ELSE 0
           x == IF executing = i THEN 1 ELSE 0
<1>3. a = IF i \in ItemsOf(immediate) THEN 1 ELSE 0
  BY <1>1, <1>2, CopiesQueued
<1>4. b = IF i \in ItemsOf(deferred) THEN 1 ELSE 0
  BY <1>1, <1>2, CopiesQueued
<1>5. Copies(i) = a + b + c + x
  BY DEF Copies
<1> HIDE DEF a, b
<1>6. i # None
  BY QueueConstants
<1>7. a + b + c + x = IF fate[i] = "accepted" THEN 1 ELSE 0
  <2>1. fate[i] = "accepted" <=> \/ i \in ItemsOf(immediate) \/ i \in ItemsOf(deferred)
                                 \/ carried = i \/ executing = i
    BY <1>1 DEF Placed
  <2>2. /\ i \in ItemsOf(immediate) => i \notin ItemsOf(deferred) /\ carried # i /\ executing # i
        /\ i \in ItemsOf(deferred) => carried # i /\ executing # i
        /\ carried = i => executing # i
    BY <1>1, <1>6 DEF Placed
  <2> HIDE <1>1
  <2>3. QED
    BY <1>3, <1>4, <2>1, <2>2
<1>8. QED
  BY <1>5, <1>7

(* No accepted work item is lost or run twice, whatever the enqueueing threads, the timer *)
(* callback, removeIfMatches, the work item thread and shutDown do.                       *)
THEOREM WorkItemsConserved == Spec => []ItemsConserved
  BY WorkInvariantHolds, InvariantGivesConserved, PTL

----------------------------------------------------------------------------
(* Waits and wakeups *)

(* A completion semaphore is on its thread's stack for as long as a queue or the work *)
(* item thread can signal it, and is signalled once.                                  *)
THEOREM CompletionSemaphoresValid == Spec => []CompletionSemaphoreValid
<1>1. WorkInvariant => CompletionSemaphoreValid
  BY DEF WorkInvariant, WaitOK
<1>2. QED
  BY <1>1, WorkInvariantHolds, PTL

(* A thread in enqueueImmediateWorkItemAndWait that has not been signalled has its item *)
(* queued or in execution: its semaphore is not forgotten.                              *)
THEOREM WaitersHaveItems == Spec => []WaiterHasItem
<1>1. WorkInvariant => WaiterHasItem
  BY DEF WorkInvariant, WaitOK
<1>2. QED
  BY <1>1, WorkInvariantHolds, PTL

(* The work item thread never sleeps past a queued item. *)
THEOREM WakeupsNotLost == Spec => []NoLostWakeup
<1>1. WorkInvariant => NoLostWakeup
  BY DEF WorkInvariant
<1>2. QED
  BY <1>1, WorkInvariantHolds, PTL

----------------------------------------------------------------------------
(* The timer of the deferred queue *)

LEMMA InvariantGivesTimer == TypeOK /\ WorkInvariant => TimerCoversDeferred
<1> SUFFICES ASSUME TypeOK, WorkInvariant, deferred # <<>>, mpc \in {"running", "lockDeferred"}
             PROVE  LET first == Min({deferred[k].due : k \in DOMAIN deferred}) IN
                    CASE tpc = "idle"    -> armed = first
                      [] tpc = "dequeue" -> TRUE
                      [] OTHER           -> pending = first
  BY DEF TimerCoversDeferred
<1> DEFINE D == {deferred[k].due : k \in DOMAIN deferred}
           h == Head(deferred).due
<1>1. /\ deferred \in Seq(DeferredEntry) /\ Len(deferred) \in Nat
      /\ DOMAIN deferred = 1 .. Len(deferred) /\ 1 \in 1 .. Len(deferred)
      /\ Head(deferred) = deferred[1]
      /\ \A k \in 1 .. Len(deferred) : deferred[k] \in DeferredEntry
  BY SeqShape DEF TypeOK
<1>2. \A k \in 1 .. Len(deferred) : deferred[k].due \in Nat
  BY <1>1, QueueConstants DEF DeferredEntry
<1>3. \A k \in 1 .. Len(deferred) : k = 1 \/ 1 < k
  BY <1>1
<1>4. \A k \in 1 .. Len(deferred) : h <= deferred[k].due
  BY <1>1, <1>2, <1>3 DEF WorkInvariant, OrderOK, ByTime
<1>5. h \in D /\ D \subseteq Nat /\ \A y \in D : h <= y
  BY <1>1, <1>2, <1>4
<1> HIDE DEF D, h
<1>6. Min(D) = h
  <2>1. ASSUME NEW x \in D, \A y \in D : x <= y PROVE x = h
    BY <1>5, <2>1
  <2>2. QED
    BY <1>5, <2>1 DEF Min
<1>7. /\ tpc = "idle" => armed = h
      /\ tpc \notin {"idle", "dequeue"} => pending = h
  BY DEF WorkInvariant, TimerOK, h
<1>8. QED
  BY <1>6, <1>7 DEF D

(* Whenever deferred items exist the timer is set for the earliest of them, or its *)
(* callback is running and will set it.                                            *)
THEOREM TimerCovers == Spec => []TimerCoversDeferred
  BY WorkInvariantHolds, InvariantGivesTimer, PTL

----------------------------------------------------------------------------
(* The order in which items are executed *)

(* What a step can do to the immediate queue: leave entries out, or put one new in, *)
(* behind everything of its priority.                                               *)
Shrunk == SubQueue(immediate', immediate)

Grown ==
    \E e \in ImmediateEntry, p \in Nat :
        /\ e.item \notin ItemsOf(immediate)
        /\ Insertion(immediate', immediate, p, e)
        /\ \A k \in 1 .. Len(immediate) : k >= p => e.prio > immediate[k].prio

LEMMA SameIsShrunk ==
    ASSUME TypeOK, immediate' = immediate PROVE Shrunk
<1> DEFINE f == [i \in 1 .. Len(immediate) |-> i]
<1>1. f \in [1 .. Len(immediate) -> 1 .. Len(immediate)]
      /\ \A i \in 1 .. Len(immediate) : f[i] = i
  OBVIOUS
<1> HIDE DEF f
<1>2. QED
  BY <1>1 DEF Shrunk, SubQueue

LEMMA PutIsGrown ==
    ASSUME TypeOK, WorkInvariant, NEW i \in Items, NEW n \in Nat,
           i \notin ItemsOf(immediate), PutImmediate(i, n)
    PROVE  Grown
<1>1. PICK p : /\ Insertion(immediate', immediate, p, [item |-> i, prio |-> n])
               /\ \A k \in 1 .. Len(immediate) : k >= p => n > immediate[k].prio
  BY PutIs DEF WorkInvariant
<1>2. p \in Nat
  <2>1. Len(immediate) \in Nat
    BY DEF TypeOK
  <2>2. QED
    BY <1>1, <2>1 DEF Insertion
<1> DEFINE e == [item |-> i, prio |-> n]
<1>3. e \in ImmediateEntry /\ e.item = i /\ e.prio = n /\ Insertion(immediate', immediate, p, e)
  BY <1>1 DEF ImmediateEntry
<1> HIDE DEF e
<1>4. QED
  BY <1>1, <1>2, <1>3 DEF Grown

(* A new item is in no queue. *)
LEMMA NewIsNowhere ==
    ASSUME TypeOK, WorkInvariant, NEW i \in Items, fate[i] = "new"
    PROVE  i \notin ItemsOf(immediate) /\ Priority[i] \in Nat
  BY PlacesAre, QueueConstants DEF WorkInvariant, Placed

LEMMA ImmediateMoves ==
    ASSUME TypeOK, WorkInvariant, [Next]_vars PROVE Shrunk \/ Grown
<1> USE DEF lockVars, queueVars, timerVars, workerVars, waitVars
<1>1. ASSUME NEW t \in Callers, ClientStep(t) PROVE Shrunk \/ Grown
  <2>1. ASSUME NEW i \in Items, EnqueueAndReturn(t, i) \/ EnqueueAndWait(t, i)
        PROVE  Shrunk \/ Grown
    <3>1. fate[i] = "new" /\ (PutImmediate(i, Priority[i]) \/ immediate' = immediate)
      BY <2>1 DEF EnqueueAndReturn, EnqueueAndWait, EnqueueForWait
    <3>2. QED
      BY <3>1, NewIsNowhere, PutIsGrown, SameIsShrunk
  <2>2. ASSUME NEW i \in Items, NEW d \in Delays, EnqueueDeferred(t, i, d)
        PROVE  Shrunk \/ Grown
    BY <2>2, SameIsShrunk DEF EnqueueDeferred
  <2>3. ASSUME NEW c \in Criteria, RemoveImmediate(t, c) PROVE Shrunk \/ Grown
    <3>1. immediate' = Without(immediate, c) /\ immediate \in Seq(ImmediateEntry)
      BY <2>3 DEF RemoveImmediate, TypeOK
    <3>2. SubQueue(Without(immediate, c), immediate)
      BY <3>1, RemovedFromQueue
    <3>3. QED
      BY <3>1, <3>2 DEF Shrunk
  <2>4. QED
    BY <1>1, <2>1, <2>2, <2>3 DEF ClientStep
<1>2. ASSUME NEW t \in Callers, RemoveDeferred(t) PROVE Shrunk \/ Grown
  BY <1>2, SameIsShrunk DEF RemoveDeferred
<1>3. ASSUME NEW t \in Clients, ClientWaitReturns(t) PROVE Shrunk \/ Grown
  BY <1>3, SameIsShrunk DEF ClientWaitReturns
<1>4. ASSUME NEW i \in Items, ExecuteDirectly(i) PROVE Shrunk \/ Grown
  BY <1>4, SameIsShrunk DEF ExecuteDirectly
<1>5. CASE WorkerLoop \/ WorkerExecuted \/ WorkerWait
  BY <1>5, SameIsShrunk DEF WorkerLoop, WorkerExecuted, WorkerWait
<1>6. CASE WorkerDequeue
  <2>1. CASE immediate = <<>>
    BY <1>6, <2>1, SameIsShrunk DEF WorkerDequeue
  <2>2. CASE immediate # <<>>
    <3>1. immediate' = Tail(immediate) /\ immediate \in Seq(ImmediateEntry)
      BY <1>6, <2>2 DEF WorkerDequeue, TypeOK
    <3>2. SubQueue(Tail(immediate), immediate)
      BY <2>2, <3>1, HeadTaken
    <3>3. QED
      BY <3>1, <3>2 DEF Shrunk
  <2>3. QED
    BY <2>1, <2>2
<1>7. CASE Tick \/ TimerExpires \/ TimerFirstDequeue \/ TimerLock \/ TimerUnlock \/ TimerReturn
  BY <1>7, SameIsShrunk
     DEF Tick, TimerExpires, TimerFirstDequeue, TimerLock, TimerUnlock, TimerReturn
<1>8. CASE TimerMove
  <2>1. carried # None /\ PutImmediate(carried, 0)
    BY <1>8 DEF TimerMove
  <2>2. carried \in Items /\ carried \notin ItemsOf(immediate)
    BY <2>1, PlacesAre, QueuedItems DEF WorkInvariant, Placed
  <2>3. QED
    BY <2>1, <2>2, PutIsGrown
<1>9. CASE ShutDownDisable \/ ShutDownJoined
  <2>1. immediate' = <<>>
    BY <1>9 DEF ShutDownDisable, ShutDownJoined
  <2>2. QED
    BY <2>1, EmptyQueue DEF Shrunk
<1>10. ASSUME NEW i \in Items, ShutDownDestroy(i) PROVE Shrunk \/ Grown
  <2>1. fate[i] = "new" /\ (PutImmediate(i, Priority[i]) \/ immediate' = immediate)
    BY <1>10 DEF ShutDownDestroy, EnqueueForWait
  <2>2. QED
    BY <2>1, NewIsNowhere, PutIsGrown, SameIsShrunk
<1>11. CASE \/ ShutDownLockDeferred \/ ShutDownCancelTimer \/ ShutDownKillReturns
            \/ ShutDownEmptyDeferred \/ ShutDownDestroyed \/ ShutDownDelete
  BY <1>11, SameIsShrunk
     DEF ShutDownLockDeferred, ShutDownCancelTimer, ShutDownKillReturns,
         ShutDownEmptyDeferred, ShutDownDestroyed, ShutDownDelete
<1>12. CASE UNCHANGED vars
  BY <1>12, SameIsShrunk DEF vars
<1>13. QED
  BY <1>1, <1>2, <1>3, <1>4, <1>5, <1>6, <1>7, <1>8, <1>9, <1>10, <1>11, <1>12
     DEF Next, WorkerStep, TimerStep, ShutDownStep

LEMMA ShrunkKeepsTurns ==
    ASSUME TypeOK, TypeOK', Shrunk PROVE KeepsTurns
<1>1. /\ immediate \in Seq(ImmediateEntry) /\ immediate' \in Seq(ImmediateEntry)
  BY DEF TypeOK
<1>2. /\ DOMAIN immediate = 1 .. Len(immediate) /\ DOMAIN immediate' = 1 .. Len(immediate')
  BY <1>1, SeqShape
<1>3. PICK f \in [1 .. Len(immediate') -> 1 .. Len(immediate)] :
          /\ \A i \in 1 .. Len(immediate') : immediate'[i] = immediate[f[i]]
          /\ \A i, j \in 1 .. Len(immediate') : i < j => f[i] < f[j]
  BY DEF Shrunk, SubQueue
<1>4. \A k \in 1 .. Len(immediate) : immediate[k].item \in ItemsOf(immediate)
  BY <1>1, ItemsAt
<1>5. ASSUME NEW j \in 1 .. Len(immediate'), NEW k \in 1 .. Len(immediate'), j < k
      PROVE  /\ immediate'[j].item \in ItemsOf(immediate)
             /\ \E m, n \in 1 .. Len(immediate) :
                    /\ m < n /\ immediate[m].item = immediate'[j].item
                    /\ immediate[n].item = immediate'[k].item
  BY <1>3, <1>4, <1>5
<1>6. QED
  <2> SUFFICES ASSUME NEW j \in DOMAIN immediate', NEW k \in DOMAIN immediate', j < k
               PROVE  /\ immediate'[j].item \in ItemsOf(immediate)
                      /\ \E m, n \in DOMAIN immediate :
                             /\ m < n /\ immediate[m].item = immediate'[j].item
                             /\ immediate[n].item = immediate'[k].item
    BY Zenon DEF KeepsTurns
  <2>1. j \in 1 .. Len(immediate') /\ k \in 1 .. Len(immediate')
    BY <1>2
  <2>2. /\ immediate'[j].item \in ItemsOf(immediate)
        /\ \E m, n \in 1 .. Len(immediate) :
               /\ m < n /\ immediate[m].item = immediate'[j].item
               /\ immediate[n].item = immediate'[k].item
    BY <1>5, <2>1
  <2>3. QED
    BY <1>2, <2>2

LEMMA GrownKeepsTurns ==
    ASSUME TypeOK, TypeOK', Grown PROVE KeepsTurns
<1>1. /\ immediate \in Seq(ImmediateEntry) /\ immediate' \in Seq(ImmediateEntry)
  BY DEF TypeOK
<1>2. /\ DOMAIN immediate = 1 .. Len(immediate) /\ DOMAIN immediate' = 1 .. Len(immediate')
      /\ Len(immediate) \in Nat
  BY <1>1, SeqShape
<1>3. PICK e \in ImmediateEntry, p \in Nat :
          /\ e.item \notin ItemsOf(immediate)
          /\ Insertion(immediate', immediate, p, e)
          /\ \A k \in 1 .. Len(immediate) : k >= p => e.prio > immediate[k].prio
  BY DEF Grown
<1>4. /\ p \in 1 .. Len(immediate) + 1 /\ Len(immediate') = Len(immediate) + 1
      /\ \A i \in 1 .. Len(immediate) + 1 : immediate'[i] =
             IF i < p THEN immediate[i] ELSE IF i = p THEN e ELSE immediate[i - 1]
  BY <1>3 DEF Insertion
<1> DEFINE old == ItemsOf(immediate)
           back(i) == IF i < p THEN i ELSE i - 1
<1>5. ASSUME NEW i \in 1 .. Len(immediate'), i # p
      PROVE  back(i) \in 1 .. Len(immediate) /\ immediate'[i] = immediate[back(i)]
  <2>1. CASE i < p
    BY <1>2, <1>4, <2>1
  <2>2. CASE ~(i < p)
    <3>1. i - 1 \in 1 .. Len(immediate) /\ i \in 1 .. Len(immediate) + 1
      BY <1>2, <1>4, <1>5, <2>2
    <3>2. QED
      BY <1>4, <1>5, <2>2, <3>1
  <2>3. QED
    BY <2>1, <2>2
<1>6. ASSUME NEW i \in 1 .. Len(immediate'), NEW j \in 1 .. Len(immediate'), i < j, i # p, j # p
      PROVE  back(i) < back(j)
  BY <1>2, <1>4, <1>6
<1>7. immediate'[p] = e
  BY <1>2, <1>4
<1>8. \A k \in 1 .. Len(immediate) : immediate[k].item \in old
  BY <1>1, ItemsAt
<1>9. ASSUME NEW j \in 1 .. Len(immediate'), NEW k \in 1 .. Len(immediate'), j < k,
             immediate'[k].item \in old
      PROVE  IF immediate'[j].item \in old
               THEN \E m, n \in 1 .. Len(immediate) :
                      /\ m < n /\ immediate[m].item = immediate'[j].item
                      /\ immediate[n].item = immediate'[k].item
               ELSE immediate'[j].prio > immediate'[k].prio
  <2>1. k # p
    BY <1>3, <1>7, <1>9
  <2>2. CASE j = p
    <3>1. immediate'[j].item \notin old
      BY <1>3, <1>7, <2>2
    <3>2. back(k) >= p
      BY <1>2, <1>4, <1>9, <2>2
    <3> HIDE DEF back
    <3>3. e.prio > immediate[back(k)].prio
      BY <1>3, <1>5, <2>1, <3>2
    <3>4. QED
      BY <1>5, <1>7, <2>1, <2>2, <3>1, <3>3
  <2>3. CASE j # p
    <3> HIDE DEF back
    <3>1. /\ back(j) \in 1 .. Len(immediate) /\ back(k) \in 1 .. Len(immediate)
          /\ back(j) < back(k)
          /\ immediate'[j] = immediate[back(j)] /\ immediate'[k] = immediate[back(k)]
      BY <1>5, <1>6, <1>9, <2>1, <2>3
    <3>2. QED
      BY <1>8, <3>1
  <2>4. QED
    BY <2>2, <2>3
<1>10. QED
  BY <1>2, <1>9 DEF KeepsTurns

(* An item that enters the immediate queue is put behind every item of its priority or a *)
(* higher one, and no step changes the order of the items that stay: ready deferred      *)
(* items, which enter with priority 0, included.                                         *)
THEOREM ItemsKeepTheirTurn == Spec => NoOvertaking
<1>1. TypeOK /\ WorkInvariant /\ [Next]_vars => KeepsTurns
  <2> SUFFICES ASSUME TypeOK, WorkInvariant, [Next]_vars PROVE KeepsTurns
    OBVIOUS
  <2>1. TypeOK'
    BY NextKeeps
  <2>2. QED
    BY <2>1, ImmediateMoves, ShrunkKeepsTurns, GrownKeepsTurns
<1>2. QED
  BY <1>1, WorkInvariantHolds, PTL DEF Spec, NoOvertaking

====
