----------------------- MODULE PlaybookExecutorProofs -----------------------
(***************************************************************************)
(* Theorems about PlaybookExecutor, for every project, every list of plays,*)
(* hosts, conditions and tags, and every failure; and about what cuts its  *)
(* hosts into batches and selects its tasks (PlayCalls).                   *)
(*                                                                         *)
(* The argument, from the bottom up:                                       *)
(*   Typed    what the variables hold, and when;                           *)
(*   Path     the stack is a path in the project: a frame executes its own *)
(*            list, for a block on the list of the frame below;            *)
(*   Heard    every failure in the history has had its consequence - its   *)
(*            rescue, or the end of the playbook - or is still on its way  *)
(*            up the stack;                                                *)
(*   Caused   every frame that failed, and every rescue, has its failure;  *)
(*   Cleaned  a block that was entered is being executed still, or has had *)
(*            its always section;                                          *)
(*   Inherited every executor has the tags and conditions of what it is in;*)
(*   Covering what a play has run on and the batches left are its hosts.   *)
(***************************************************************************)
EXTENDS PlaybookExecutor, PlayCalls, TLAPS, WellFoundedInduction, SequenceTheorems

-----------------------------------------------------------------------------
\* Numbers, and functions that are defined step by step.

\* A set of numbers has a least one, as < is well-founded.
LEMMA LeastNumber ==
  ASSUME NEW T \in SUBSET Nat, T # {}
  PROVE  \E x \in T : \A y \in T : x <= y
  <1>1. \E x \in T : \A y \in T : ~(<<y, x>> \in OpToRel(<, Nat))
    BY NatLessThanWellFounded, WFMin
  <1>2. OpToRel(<, Nat) = {ss \in Nat \X Nat : ss[1] < ss[2]}
    BY Zenon DEF OpToRel
  <1>3. PICK x \in T : \A y \in T : ~(<<y, x>> \in {ss \in Nat \X Nat : ss[1] < ss[2]})
    BY <1>1, <1>2, Zenon
  <1>4. ASSUME NEW y \in T PROVE x <= y
    <2>1. ~(<<y, x>> \in {ss \in Nat \X Nat : ss[1] < ss[2]})
      BY <1>3
    <2>2. x \in Nat /\ y \in Nat
      OBVIOUS
    <2>3. <<y, x>> \in Nat \X Nat /\ <<y, x>>[1] = y /\ <<y, x>>[2] = x
      BY <2>2
    <2>4. ~(y < x)
      BY <2>1, <2>3
    <2> QED BY <2>2, <2>4
  <1> QED BY <1>4

\* Induction over the numbers up to m, for a set of numbers.
LEMMA InductionUpTo ==
  ASSUME NEW S, NEW m \in Nat, 0 \in S, \A n \in 1 .. m : n - 1 \in S => n \in S
  PROVE  0 .. m \subseteq S
  <1> SUFFICES ASSUME (0 .. m) \ S # {} PROVE FALSE
    OBVIOUS
  <1>1. PICK x \in (0 .. m) \ S : \A y \in (0 .. m) \ S : x <= y
    <2>1. (0 .. m) \ S \in SUBSET Nat
      OBVIOUS
    <2> QED BY <2>1, LeastNumber
  <1>2. x # 0
    BY <1>1
  <1>3. x - 1 \in 0 .. m /\ ~(x <= x - 1)
    BY <1>1, <1>2
  <1>4. x - 1 \in S
    BY <1>1, <1>3
  <1> QED BY <1>1, <1>2, <1>3, <1>4

\* f follows the steps of G from v0 on, up to n.
Follows(f, G, v0, n) ==
  DOMAIN f = 0 .. n /\ f[0] = v0 /\ \A k \in 1 .. n : f[k] = G[k][f[k - 1]]

\* There is such a function, whatever the steps are ...
LEMMA FollowsExists ==
  ASSUME NEW n \in Nat, NEW G, NEW v0
  PROVE  \E f : f = [k \in 0 .. n |-> f[k]] /\ Follows(f, G, v0, n)
  <1> DEFINE Upto(m) == \E f : f = [k \in 0 .. m |-> f[k]] /\ Follows(f, G, v0, m)
             S == {m \in 0 .. n : Upto(m)}
  <1>1. 0 \in S
    <2> DEFINE f == [k \in 0 .. 0 |-> v0]
    <2>1. f = [k \in 0 .. 0 |-> f[k]] /\ Follows(f, G, v0, 0)
      BY DEF Follows
    <2> HIDE DEF f
    <2> QED BY <2>1
  <1>2. \A m \in 1 .. n : m - 1 \in S => m \in S
    <2> SUFFICES ASSUME NEW m \in 1 .. n, m - 1 \in S PROVE m \in S
      OBVIOUS
    <2>1. PICK f : Follows(f, G, v0, m - 1)
      BY Zenon
    <2> DEFINE g == [k \in 0 .. m |-> IF k = m THEN G[m][f[m - 1]] ELSE f[k]]
    <2>2. DOMAIN g = 0 .. m /\ g[0] = v0
      BY <2>1 DEF Follows
    <2>3. ASSUME NEW k \in 1 .. m PROVE g[k] = G[k][g[k - 1]]
      BY <2>1 DEF Follows
    <2>4. g = [k \in 0 .. m |-> g[k]]
      OBVIOUS
    <2> HIDE DEF g
    <2>5. Follows(g, G, v0, m)
      BY <2>2, <2>3 DEF Follows
    <2>6. Upto(m)
      BY <2>4, <2>5
    <2> QED BY <2>6
  <1> HIDE DEF S
  <1>3. 0 .. n \subseteq S
    BY <1>1, <1>2, InductionUpTo
  <1>4. n \in S
    BY <1>3
  <1> QED BY <1>4 DEF S

\* ... and its values stay where the steps stay.
LEMMA FollowsType ==
  ASSUME NEW n \in Nat, NEW V, NEW G, NEW v0 \in V, NEW f, Follows(f, G, v0, n),
         \A k \in 1 .. n, v \in V : G[k][v] \in V
  PROVE  \A k \in 0 .. n : f[k] \in V
  <1> DEFINE S == {k \in 0 .. n : f[k] \in V}
  <1>1. 0 \in S
    BY DEF Follows
  <1>2. \A k \in 1 .. n : k - 1 \in S => k \in S
    BY DEF Follows
  <1> HIDE DEF S
  <1>3. 0 .. n \subseteq S
    BY <1>1, <1>2, InductionUpTo
  <1> QED BY <1>3 DEF S

-----------------------------------------------------------------------------
(* How the hosts of a play are cut into batches *)

\* SumUpTo adds the sizes up, from zero on.
LEMMA SumSteps ==
  ASSUME NEW sizes \in Seq(Int)
  PROVE  /\ SumUpTo(sizes)[0] = 0
         /\ \A k \in 0 .. Len(sizes) : SumUpTo(sizes)[k] \in Int
         /\ \A k \in 1 .. Len(sizes) : SumUpTo(sizes)[k] = SumUpTo(sizes)[k - 1] + sizes[k]
  <1> DEFINE n == Len(sizes)
             G == [k \in 1 .. n |-> [v \in Int |-> v + sizes[k]]]
             Eq(f) == f = [k \in 0 .. n |-> IF k = 0 THEN 0 ELSE f[k - 1] + sizes[k]]
             sum == CHOOSE f : Eq(f)
  <1>1. n \in Nat /\ 0 \in Int /\ \A k \in 1 .. n : sizes[k] \in Int
    OBVIOUS
  <1>2. \A k \in 1 .. n, v \in Int : G[k][v] \in Int /\ G[k][v] = v + sizes[k]
    BY <1>1
  <1>3. SumUpTo(sizes) = sum
    BY DEF SumUpTo
  <1> HIDE DEF n, G
  <1>4. PICK f : f = [k \in 0 .. n |-> f[k]] /\ Follows(f, G, 0, n)
    BY <1>1, FollowsExists
  <1>5. \A k \in 0 .. n : f[k] \in Int
    BY <1>1, <1>2, <1>4, FollowsType
  <1>6. \A k \in 0 .. n : f[k] = IF k = 0 THEN 0 ELSE f[k - 1] + sizes[k]
    <2>1. f[0] = 0
      BY <1>4 DEF Follows
    <2>2. ASSUME NEW k \in 1 .. n PROVE f[k] = f[k - 1] + sizes[k]
      <3>1. k - 1 \in 0 .. n
        BY <1>1
      <3> QED BY <1>2, <1>4, <1>5, <3>1 DEF Follows
    <2> QED BY <1>1, <2>1, <2>2
  <1>7. Eq(f)
    BY <1>4, <1>6
  <1>8. Eq(sum)
    BY <1>7
  <1> HIDE DEF sum
  <1> DEFINE T == {k \in 0 .. n : sum[k] \in Int}
  <1>9. 0 \in T
    BY <1>1, <1>8
  <1>10. \A k \in 1 .. n : k - 1 \in T => k \in T
    <2> SUFFICES ASSUME NEW k \in 1 .. n, k - 1 \in T PROVE k \in T
      OBVIOUS
    <2>1. k \in 0 .. n /\ k # 0 /\ sizes[k] \in Int /\ sum[k - 1] \in Int
      BY <1>1
    <2>2. sum[k] = sum[k - 1] + sizes[k]
      BY <1>8, <2>1
    <2> QED BY <2>1, <2>2
  <1> HIDE DEF T
  <1>11. 0 .. n \subseteq T
    BY <1>1, <1>9, <1>10, InductionUpTo
  <1>12. sum[0] = 0 /\ \A k \in 1 .. n : sum[k] = sum[k - 1] + sizes[k]
    BY <1>1, <1>8
  <1> QED BY <1>3, <1>11, <1>12 DEF T, n

\* Ends adds them up, but never beyond the hosts.
LEMMA EndSteps ==
  ASSUME NEW sizes \in Seq(Int), NEW top \in Nat
  PROVE  /\ Ends(sizes, top)[0] = 0
         /\ \A k \in 0 .. Len(sizes) : Ends(sizes, top)[k] \in Int
         /\ \A k \in 1 .. Len(sizes) :
              Ends(sizes, top)[k] = IF Ends(sizes, top)[k - 1] + sizes[k] > top THEN top
                                    ELSE Ends(sizes, top)[k - 1] + sizes[k]
  <1> DEFINE n == Len(sizes)
             G == [k \in 1 .. n |-> [v \in Int |-> IF v + sizes[k] > top THEN top ELSE v + sizes[k]]]
             Eq(f) == f = [k \in 0 .. n |-> IF k = 0 THEN 0
                                           ELSE IF f[k - 1] + sizes[k] > top THEN top
                                           ELSE f[k - 1] + sizes[k]]
             end == CHOOSE f : Eq(f)
  <1>1. n \in Nat /\ 0 \in Int /\ \A k \in 1 .. n : sizes[k] \in Int
    OBVIOUS
  <1>2. \A k \in 1 .. n, v \in Int :
          G[k][v] \in Int /\ G[k][v] = IF v + sizes[k] > top THEN top ELSE v + sizes[k]
    BY <1>1
  <1>3. Ends(sizes, top) = end
    BY DEF Ends
  <1> HIDE DEF n, G
  <1>4. PICK f : f = [k \in 0 .. n |-> f[k]] /\ Follows(f, G, 0, n)
    BY <1>1, FollowsExists
  <1>5. \A k \in 0 .. n : f[k] \in Int
    BY <1>1, <1>2, <1>4, FollowsType
  <1>6. \A k \in 0 .. n : f[k] = IF k = 0 THEN 0
                                 ELSE IF f[k - 1] + sizes[k] > top THEN top ELSE f[k - 1] + sizes[k]
    <2>1. f[0] = 0
      BY <1>4 DEF Follows
    <2>2. ASSUME NEW k \in 1 .. n
          PROVE  f[k] = IF f[k - 1] + sizes[k] > top THEN top ELSE f[k - 1] + sizes[k]
      <3>1. k - 1 \in 0 .. n
        BY <1>1
      <3> QED BY <1>2, <1>4, <1>5, <3>1 DEF Follows
    <2> QED BY <1>1, <2>1, <2>2
  <1>7. Eq(f)
    BY <1>4, <1>6
  <1>8. Eq(end)
    BY <1>7
  <1> HIDE DEF end
  <1> DEFINE T == {k \in 0 .. n : end[k] \in Int}
  <1>9. 0 \in T
    BY <1>1, <1>8
  <1>10. \A k \in 1 .. n : k - 1 \in T => k \in T
    <2> SUFFICES ASSUME NEW k \in 1 .. n, k - 1 \in T PROVE k \in T
      OBVIOUS
    <2>1. k \in 0 .. n /\ k # 0 /\ sizes[k] \in Int /\ end[k - 1] \in Int
      BY <1>1
    <2>2. end[k] = IF end[k - 1] + sizes[k] > top THEN top ELSE end[k - 1] + sizes[k]
      BY <1>8, <2>1
    <2> QED BY <2>1, <2>2
  <1> HIDE DEF T
  <1>11. 0 .. n \subseteq T
    BY <1>1, <1>9, <1>10, InductionUpTo
  <1>12. end[0] = 0 /\ \A k \in 1 .. n :
           end[k] = IF end[k - 1] + sizes[k] > top THEN top ELSE end[k - 1] + sizes[k]
    BY <1>1, <1>8
  <1> QED BY <1>3, <1>11, <1>12 DEF T, n

LEMMA CeilDivInt ==
  ASSUME NEW x \in Int, NEW y \in Nat, y > 0
  PROVE  /\ CeilDiv(x, y) \in Int /\ CeilDiv(x, y) * y >= x
         /\ x > 0 => CeilDiv(x, y) > 0 /\ (CeilDiv(x, y) - 1) * y < x
  BY DEF CeilDiv

LEMMA SizesType ==
  ASSUME NEW serial \in Seq(SerialEntry(Int)), NEW n \in Nat
  PROVE  Sizes(serial, n) \in Seq(Int) /\ Len(Sizes(serial, n)) = Len(serial)
  <1>1. ASSUME NEW e \in SerialEntry(Int) PROVE SizeOf(e, n) \in Int
    <2>1. n * e.n \in Int
      BY DEF SerialEntry
    <2> DEFINE x == n * e.n
    <2>2. (x + 100 - 1) \div 100 \in Int
      <3> HIDE DEF x
      <3> QED BY <2>1 DEF x
    <2> QED BY <2>2 DEF SizeOf, SerialEntry, CeilDiv
  <1> QED BY <1>1 DEF Sizes

\* The sizes are repeated as often as it takes to use up the hosts.
LEMMA RepeatsSuffice ==
  ASSUME NEW given \in Seq(Int), given # << >>, NEW n \in Nat
  PROVE  /\ Extended(given, n) \in Seq(Int)
         /\ Len(Extended(given, n)) \in Nat /\ Len(Extended(given, n)) >= Len(given)
         /\ given[Len(given)] <= 0 => Extended(given, n) = given
         /\ \/ SumUpTo(Extended(given, n))[Len(Extended(given, n))] >= n
            \/ given[Len(given)] <= 0
         /\ \A k \in 1 .. Len(Extended(given, n)) :
              Extended(given, n)[k] = IF k <= Len(given) THEN given[k] ELSE given[Len(given)]
         /\ given[Len(given)] > 0 /\ SumUpTo(given)[Len(given) - 1] < n =>
              SumUpTo(Extended(given, n))[Len(Extended(given, n)) - 1] < n
  <1> DEFINE L == Len(given)
             last == given[L]
             total == SumUpTo(given)
             left == n - total[L]
             r == Repeats(given, n)
             ext == Extended(given, n)
             sum == SumUpTo(ext)
  <1>1. L \in Nat /\ L > 0 /\ last \in Int /\ (\A k \in 1 .. L : given[k] \in Int)
    OBVIOUS
  <1>2. \A k \in 0 .. L : total[k] \in Int
    BY SumSteps
  <1>3. left \in Int
    BY <1>1, <1>2
  <1>4. /\ r \in Nat
        /\ left > 0 /\ last > 0 => r > 0 /\ r * last >= left /\ (r - 1) * last < left
        /\ left <= 0 \/ last <= 0 => r = 0
    <2>1. CASE left > 0 /\ last > 0
      <3>1. last > 0 /\ last \in Nat
        BY <1>1, <2>1, <1>2
      <3>2. r = CeilDiv(left, last)
        BY <2>1, <3>1 DEF Repeats
      <3>3. /\ CeilDiv(left, last) \in Int /\ CeilDiv(left, last) * last >= left
            /\ CeilDiv(left, last) > 0 /\ (CeilDiv(left, last) - 1) * last < left
        BY <1>3, <2>1, <3>1, CeilDivInt
      <3> QED BY <2>1, <3>1, <3>2, <3>3, <1>3
    <2>2. CASE ~ (left > 0 /\ last > 0)
      <3>1. r = 0
        BY <2>2 DEF Repeats
      <3> QED BY <2>2, <3>1
    <2> QED BY <2>1, <2>2, <1>1, <1>3
  <1>5. /\ ext \in Seq(Int) /\ Len(ext) = L + r
        /\ \A k \in 1 .. L : ext[k] = given[k]
        /\ \A k \in L + 1 .. L + r : ext[k] = last
        /\ r = 0 => ext = given
    <2> DEFINE more == [i \in 1 .. r |-> last]
    <2>1. more \in Seq(Int) /\ Len(more) = r
      BY <1>1, <1>4
    <2>2. ext = given \o more
      BY DEF Extended
    <2> QED BY SMTT(30), <2>1, <2>2, <1>1, <1>4
  <1> HIDE DEF L, r, ext, last, total
  <1>6. /\ sum[0] = 0 /\ (\A k \in 0 .. L + r : sum[k] \in Int)
        /\ \A k \in 1 .. L + r : sum[k] = sum[k - 1] + ext[k]
    BY <1>5, SumSteps
  <1>7. total[0] = 0 /\ \A k \in 1 .. L : total[k] = total[k - 1] + given[k]
    BY SumSteps DEF L, total
  <1> HIDE DEF sum
  <1> DEFINE T == {k \in 0 .. L : sum[k] = total[k]}
  <1>8. 0 .. L \subseteq T
    <2>1. 0 \in T
      BY <1>1, <1>6, <1>7
    <2>2. \A k \in 1 .. L : k - 1 \in T => k \in T
      <3> SUFFICES ASSUME NEW k \in 1 .. L, k - 1 \in T PROVE k \in T
        OBVIOUS
      <3>1. sum[k - 1] = total[k - 1]
        OBVIOUS
      <3>2. k \in 1 .. L + r
        BY <1>1, <1>4
      <3>3. sum[k] = sum[k - 1] + given[k]
        BY <1>5, <1>6, <3>2
      <3> QED BY <1>7, <3>1, <3>3
    <2> HIDE DEF T
    <2> QED BY <1>1, <2>1, <2>2, InductionUpTo
  <1>9. sum[L] = total[L]
    BY <1>1, <1>8
  <1> HIDE DEF T
  <1> DEFINE U == {k \in 0 .. r : sum[L + k] = total[L] + k * last}
  <1>10. 0 .. r \subseteq U
    <2>1. 0 \in U
      <3>1. 0 * last = 0 /\ L + 0 = L /\ total[L] + 0 = total[L]
        BY <1>1, <1>2
      <3>2. sum[L + 0] = total[L] + 0 * last
        BY <1>9, <3>1
      <3> QED BY <1>4, <3>2
    <2>2. \A k \in 1 .. r : k - 1 \in U => k \in U
      <3> SUFFICES ASSUME NEW k \in 1 .. r, k - 1 \in U PROVE k \in U
        OBVIOUS
      <3>1. sum[L + (k - 1)] = total[L] + (k - 1) * last
        OBVIOUS
      <3>2. L + k \in L + 1 .. L + r /\ L + k \in 1 .. L + r /\ (L + k) - 1 = L + (k - 1)
        BY <1>1, <1>4
      <3>3. sum[L + k] = sum[L + (k - 1)] + last
        BY <1>5, <1>6, <3>2
      <3>4. k * last = (k - 1) * last + last /\ (k - 1) * last \in Int /\ k * last \in Int
        BY <1>1, <1>4
      <3>5. total[L] \in Int
        BY <1>1, <1>2
      <3>6. sum[L + k] = total[L] + k * last
        <4> DEFINE x == k * last
                   y == (k - 1) * last
        <4> HIDE DEF x, y
        <4>1. x = y + last /\ x \in Int /\ y \in Int
          BY <3>4 DEF x, y
        <4>2. sum[L + k] = total[L] + y + last
          BY <3>1, <3>3 DEF y
        <4>3. sum[L + k] = total[L] + x
          BY <4>1, <4>2, <3>5, <1>1
        <4> QED BY <4>3 DEF x
      <3> QED BY <3>6
    <2> HIDE DEF U
    <2> QED BY <1>4, <2>1, <2>2, InductionUpTo
  <1>11. sum[L + r] = total[L] + r * last
    BY <1>4, <1>10
  <1>12. sum[L + r] >= n \/ last <= 0
    <2>1. total[L] \in Int /\ r * last \in Int /\ left = n - total[L]
      BY <1>1, <1>2, <1>4 DEF left
    <2>2. CASE left > 0 /\ last > 0
      BY <1>4, <1>11, <2>1, <2>2
    <2>3. CASE left <= 0
      <3>1. r * last = 0
        BY <1>1, <1>4, <2>3
      <3> QED BY <1>11, <2>1, <2>3, <3>1
    <2> QED BY <1>1, <1>3, <2>2, <2>3
  <1>13. last <= 0 => ext = given
    BY <1>1, <1>4, <1>5
  <1>14. ASSUME last > 0, total[L - 1] < n PROVE sum[L + r - 1] < n
    <2>1. CASE left <= 0
      <3>1. r = 0 /\ L - 1 \in 0 .. L /\ L + r - 1 = L - 1
        BY <1>1, <1>4, <2>1
      <3> QED BY <1>8, <1>14, <3>1 DEF T
    <2>2. CASE left > 0
      <3>1. r - 1 \in 0 .. r /\ L + r - 1 = L + (r - 1)
        BY <1>1, <1>4, <1>14, <2>2
      <3>2. sum[L + r - 1] = total[L] + (r - 1) * last
        BY <1>10, <3>1
      <3>3. (r - 1) * last < n - total[L]
        BY <1>4, <1>14, <2>2 DEF left
      <3> DEFINE x == (r - 1) * last
      <3>4. x \in Int /\ total[L] \in Int
        BY <1>1, <1>2, <1>4
      <3> HIDE DEF x
      <3>5. total[L] + x < n
        BY <3>3, <3>4 DEF x
      <3> QED BY <3>2, <3>5 DEF x
    <2> QED BY <1>3, <2>1, <2>2
  <1>15. \A k \in 1 .. L + r : ext[k] = IF k <= L THEN given[k] ELSE last
    BY <1>1, <1>4, <1>5
  <1> QED BY <1>1, <1>4, <1>5, <1>12, <1>13, <1>14, <1>15 DEF sum, ext, L, last, total

\* b cuts want, from position cut[0] on, into pieces.
Cuts(b, want, cut) ==
  /\ cut \in [0 .. Len(b) -> 0 .. Len(want)]
  /\ cut[Len(b)] = Len(want)
  /\ \A i \in 1 .. Len(b) : cut[i - 1] <= cut[i] /\ b[i] = SubSeq(want, cut[i - 1] + 1, cut[i])

\* The batches of GroupHostBySerial, when there are any, are the hosts from the first
\* to the last one, in order and each once, for every list of sizes.
THEOREM SerialCuts ==
  ASSUME NEW S, NEW want \in Seq(S), NEW serial \in Seq(SerialEntry(Int)),
         GroupHostBySerial(want, serial).kind = "ok"
  PROVE  /\ GroupHostBySerial(want, serial).batches \in Seq(Seq(S))
         /\ \E cut : Cuts(GroupHostBySerial(want, serial).batches, want, cut) /\ cut[0] = 0
  <1> DEFINE n == Len(want)
             given == Sizes(serial, n)
             sizes == Extended(given, n)
             begin == Begins(sizes)
             sum == SumUpTo(sizes)
             end == Ends(sizes, n)
             b == GroupHostBySerial(want, serial).batches
             m == Len(sizes)
  <1>0. n \in Nat
    OBVIOUS
  <1>1. CASE serial = << >>
    <2>1. b = <<want>>
      BY <1>1 DEF GroupHostBySerial, Batches
    <2> DEFINE cut == [i \in 0 .. 1 |-> IF i = 0 THEN 0 ELSE n]
    <2>2. Len(b) = 1 /\ b \in Seq(Seq(S)) /\ b[1] = want
      BY <2>1
    <2>3. cut \in [0 .. 1 -> 0 .. n] /\ cut[0] = 0 /\ cut[1] = n
      OBVIOUS
    <2>4. want = SubSeq(want, 0 + 1, n)
      OBVIOUS
    <2> HIDE DEF cut, b
    <2>5. Cuts(b, want, cut)
      BY <2>2, <2>3, <2>4 DEF Cuts
    <2> QED BY <2>2, <2>3, <2>5 DEF b
  <1>2. CASE serial # << >>
    <2>1. given \in Seq(Int) /\ Len(given) = Len(serial) /\ given # << >>
      BY <1>2, SizesType
    <2>2. /\ \A i \in DOMAIN given : given[i] # 0
          /\ \A i \in DOMAIN sizes : ~ (begin[i] < 0 \/ begin[i] > end[i])
          /\ b = [i \in DOMAIN sizes |-> SubSeq(want, begin[i] + 1, end[i])]
      <3> HIDE DEF begin, end, sizes, given, n
      <3> QED BY <1>2 DEF GroupHostBySerial, Batches, SerialError, SerialPanic, n, given, sizes, begin, end
    <2>3. /\ sizes \in Seq(Int) /\ m \in Nat /\ m >= Len(given)
          /\ given[Len(given)] <= 0 => sizes = given
          /\ sum[m] >= n \/ given[Len(given)] <= 0
      BY <1>0, <2>1, RepeatsSuffice
    <2>4. m > 0 /\ DOMAIN sizes = 1 .. m /\ \A i \in 1 .. m : sizes[i] \in Int /\ begin[i] = sum[i - 1]
      BY <2>1, <2>3 DEF Begins
    <2> HIDE DEF given, sizes
    <2>5. /\ sum[0] = 0 /\ (\A k \in 0 .. m : sum[k] \in Int)
          /\ \A k \in 1 .. m : sum[k] = sum[k - 1] + sizes[k]
      BY <2>3, SumSteps
    <2>6. /\ end[0] = 0 /\ (\A k \in 0 .. m : end[k] \in Int)
          /\ \A k \in 1 .. m : end[k] = IF end[k - 1] + sizes[k] > n THEN n ELSE end[k - 1] + sizes[k]
      BY <1>0, <2>3, EndSteps
    <2> HIDE DEF sum, end, begin, m, n
    <2>s. \A k \in 1 .. m : /\ k - 1 \in 0 .. m /\ k \in 0 .. m
                            /\ sum[k - 1] \in Int /\ end[k - 1] \in Int /\ end[k] \in Int
      BY <2>3, <2>5, <2>6
    <2>7. \A k \in 1 .. m : 0 <= sum[k - 1] /\ sum[k - 1] <= end[k]
      BY <2>2, <2>4, <2>s
    <2>8. \A k \in 1 .. m : end[k] <= n
      <3> SUFFICES ASSUME NEW k \in 1 .. m PROVE end[k] <= n
        OBVIOUS
      <3>1. end[k - 1] \in Int /\ sizes[k] \in Int /\ n \in Int
        BY <1>0, <2>4, <2>s
      <3>2. end[k] = IF end[k - 1] + sizes[k] > n THEN n ELSE end[k - 1] + sizes[k]
        BY <2>6
      <3> QED BY <3>1, <3>2
    <2> DEFINE T == {k \in 0 .. m - 1 : end[k] = sum[k]}
    <2>9. 0 .. m - 1 \subseteq T
      <3>1. 0 \in T
        BY <2>3, <2>4, <2>5, <2>6
      <3>2. \A k \in 1 .. m - 1 : k - 1 \in T => k \in T
        <4> SUFFICES ASSUME NEW k \in 1 .. m - 1, k - 1 \in T PROVE k \in T
          OBVIOUS
        <4>1. end[k - 1] = sum[k - 1] /\ k \in 1 .. m /\ k + 1 \in 1 .. m /\ k \in 0 .. m /\ (k + 1) - 1 = k
          BY <2>3, <2>4
        <4>2. sum[k] <= end[k + 1] /\ end[k + 1] <= n /\ end[k + 1] \in Int
          BY <2>6, <2>7, <2>8, <4>1
        <4>3. sum[k] <= n
          BY <1>0, <2>5, <4>1, <4>2
        <4> QED BY <1>0, <2>4, <2>5, <2>6, <4>1, <4>3
      <3>3. m - 1 \in Nat
        BY <2>3, <2>4
      <3> HIDE DEF T
      <3> QED BY <3>1, <3>2, <3>3, InductionUpTo
    <2>10. \A k \in 0 .. m - 1 : end[k] = sum[k]
      BY <2>9
    <2>11. end[m] = n
      <3>1. end[m - 1] = sum[m - 1] /\ m \in 1 .. m /\ sum[m - 1] <= end[m]
        BY <2>3, <2>4, <2>7, <2>10
      <3>2. sizes[m] > 0 \/ sum[m] >= n
        <4>1. CASE given[Len(given)] > 0 \/ sum[m] >= n
          BY <2>3, <4>1, <2>1
        <4>2. CASE given[Len(given)] <= 0
          <5>1. Len(given) \in DOMAIN given /\ given[Len(given)] \in Int
            BY <2>1
          <5>2. given[Len(given)] < 0 /\ m = Len(given) /\ sizes = given
            BY <2>2, <2>3, <4>2, <5>1 DEF m
          <5>3. sizes[m] \in Int /\ sizes[m] < 0
            BY <5>1, <5>2
          <5> QED BY <1>0, <2>6, <2>8, <2>s, <3>1, <5>3
        <4> QED BY <2>1, <4>1, <4>2
      <3> QED BY SMTT(30), <1>0, <2>3, <2>4, <2>5, <2>6, <3>1, <3>2
    <2> DEFINE cut == [i \in 0 .. m |-> end[i]]
    <2>12. cut \in [0 .. m -> 0 .. n]
      <3>1. ASSUME NEW k \in 0 .. m PROVE end[k] \in 0 .. n
        <4>1. CASE k = 0
          BY <1>0, <2>6, <4>1
        <4>2. CASE k \in 1 .. m
          BY SMTT(30), <1>0, <2>7, <2>8, <2>s, <4>2
        <4> QED BY <2>3, <4>1, <4>2
      <3> QED BY <3>1
    <2>13. Len(b) = m /\ \A i \in 1 .. m : b[i] = SubSeq(want, cut[i - 1] + 1, cut[i])
      <3>1. Len(b) = m
        BY <2>2, <2>3, <2>4
      <3>2. ASSUME NEW i \in 1 .. m PROVE b[i] = SubSeq(want, cut[i - 1] + 1, cut[i])
        <4>1. b[i] = SubSeq(want, sum[i - 1] + 1, end[i])
          BY <2>2, <2>4
        <4>2. i - 1 \in 0 .. m - 1
          BY <2>3
        <4>3. cut[i - 1] = sum[i - 1] /\ cut[i] = end[i]
          BY <2>10, <2>s, <4>2
        <4> QED BY <4>1, <4>3
      <3> QED BY <3>1, <3>2
    <2>14. \A i \in 1 .. m : cut[i - 1] <= cut[i]
      <3> SUFFICES ASSUME NEW i \in 1 .. m PROVE cut[i - 1] <= cut[i]
        OBVIOUS
      <3>1. i - 1 \in 0 .. m - 1
        BY <2>3
      <3>2. cut[i - 1] = sum[i - 1] /\ cut[i] = end[i]
        BY <2>10, <2>s, <3>1
      <3> QED BY <2>7, <3>2
    <2>15. cut[0] = 0 /\ cut[m] = n
      BY <2>3, <2>6, <2>11
    <2>16. b \in Seq(Seq(S))
      <3>1. ASSUME NEW i \in 1 .. m PROVE SubSeq(want, begin[i] + 1, end[i]) \in Seq(S)
        <4>1. begin[i] \in Int /\ end[i] \in Int /\ 0 <= begin[i] /\ end[i] <= n
          BY <2>4, <2>7, <2>8, <2>s
        <4>2. \A k \in begin[i] + 1 .. end[i] : want[k] \in S
          BY <4>1 DEF n
        <4> QED BY <4>1, <4>2
      <3>2. b = [i \in 1 .. m |-> SubSeq(want, begin[i] + 1, end[i])]
        BY <2>2, <2>4
      <3> QED BY <2>3, <3>1, <3>2
    <2> HIDE DEF cut, b
    <2>17. Cuts(b, want, cut)
      BY <2>12, <2>13, <2>14, <2>15 DEF Cuts, n
    <2> QED BY <2>15, <2>16, <2>17 DEF b
  <1> QED BY <1>1, <1>2

\* When the sizes are positive and leave hosts for the last one, there are batches, none
\* of them empty and each of its size, but that the last one may be smaller.
LEMMA BatchesFit ==
  ASSUME NEW S, NEW want \in Seq(S), NEW serial \in Seq(SerialEntry(Int)), serial # << >>,
         NEW given, given = Sizes(serial, Len(want)), \A i \in DOMAIN serial : given[i] > 0,
         SumUpTo(given)[Len(serial) - 1] < Len(want),
         NEW b, b = GroupHostBySerial(want, serial).batches
  PROVE  /\ GroupHostBySerial(want, serial).kind = "ok"
         /\ \A i \in DOMAIN b :
              LET size == IF i <= Len(serial) THEN given[i] ELSE given[Len(serial)]
              IN  b[i] # << >> /\ Len(b[i]) <= size /\ (i < Len(b) => Len(b[i]) = size)
  <1> DEFINE n == Len(want)
             sizes == Extended(given, n)
             begin == Begins(sizes)
             sum == SumUpTo(sizes)
             end == Ends(sizes, n)
             m == Len(sizes)
             L == Len(serial)
             size(i) == IF i <= L THEN given[i] ELSE given[L]
  <1>0. n \in Nat /\ L \in Nat /\ L > 0 /\ DOMAIN serial = 1 .. L
    OBVIOUS
  <1>1. given \in Seq(Int) /\ Len(given) = L /\ given # << >> /\ \A i \in 1 .. L : given[i] > 0
    <2>1. Sizes(serial, n) \in Seq(Int) /\ Len(Sizes(serial, n)) = L
      BY <1>0, SizesType
    <2>2. given \in Seq(Int) /\ Len(given) = L
      BY <2>1
    <2> QED BY <1>0, <2>2
  <1>2. /\ sizes \in Seq(Int) /\ m \in Nat /\ m >= L
        /\ sum[m] >= n /\ sum[m - 1] < n
        /\ \A k \in 1 .. m : sizes[k] = size(k)
    <2>1. given[Len(given)] > 0 /\ given[Len(given)] \in Int
      BY <1>0, <1>1
    <2> QED BY SMTT(30), <1>0, <1>1, <2>1, RepeatsSuffice
  <1>3. m > 0 /\ DOMAIN sizes = 1 .. m /\ \A k \in 1 .. m : size(k) \in Nat /\ size(k) > 0
    BY SMTT(30), <1>0, <1>1, <1>2
  <1>4. \A k \in 1 .. m : begin[k] = sum[k - 1]
    BY <1>3 DEF Begins
  <1>5. /\ sum[0] = 0 /\ (\A k \in 0 .. m : sum[k] \in Int)
        /\ \A k \in 1 .. m : sum[k] = sum[k - 1] + size(k)
    BY <1>2, SumSteps
  <1>6. /\ end[0] = 0 /\ (\A k \in 0 .. m : end[k] \in Int)
        /\ \A k \in 1 .. m : end[k] = IF end[k - 1] + size(k) > n THEN n ELSE end[k - 1] + size(k)
    <2>1. /\ end[0] = 0 /\ (\A k \in 0 .. m : end[k] \in Int)
          /\ \A k \in 1 .. m : end[k] = IF end[k - 1] + sizes[k] > n THEN n ELSE end[k - 1] + sizes[k]
      <3> HIDE DEF sizes, n
      <3> QED BY <1>0, <1>2, EndSteps
    <2>2. \A k \in 1 .. m : sizes[k] = size(k)
      BY <1>2
    <2> HIDE DEF end, sizes, size, m, n
    <2> QED BY <2>1, <2>2
  <1>7. GroupHostBySerial(want, serial) =
          IF \E i \in 1 .. m : begin[i] < 0 \/ begin[i] > end[i] THEN SerialPanic
          ELSE Batches([i \in 1 .. m |-> SubSeq(want, begin[i] + 1, end[i])])
    <2>1. ~ \E i \in DOMAIN given : given[i] = 0
      BY <1>0, <1>1
    <2> QED BY <1>3, <2>1 DEF GroupHostBySerial
  <1> HIDE DEF n, sizes, begin, sum, end, m, L, size
  <1>s. \A k \in 1 .. m : k - 1 \in 0 .. m /\ k \in 0 .. m /\ sum[k - 1] \in Int /\ sum[k] \in Int
    BY <1>2, <1>5
  <1>8. \A k \in 0 .. m - 1 : sum[m - 1 - k] < n
    <2> DEFINE T == {k \in 0 .. m - 1 : sum[m - 1 - k] < n}
    <2>1. 0 \in T
      BY <1>2, <1>3
    <2>2. \A k \in 1 .. m - 1 : k - 1 \in T => k \in T
      <3> SUFFICES ASSUME NEW k \in 1 .. m - 1, k - 1 \in T PROVE k \in T
        OBVIOUS
      <3>1. m - k \in 1 .. m /\ m - 1 - (k - 1) = m - k /\ (m - k) - 1 = m - 1 - k
        BY <1>2
      <3>2. sum[m - k] < n /\ sum[m - k] = sum[m - 1 - k] + size(m - k)
        BY <1>5, <3>1
      <3>3. sum[m - 1 - k] < n
        BY <1>0, <1>3, <1>s, <3>1, <3>2
      <3> QED BY <3>3
    <2>3. m - 1 \in Nat
      BY <1>2, <1>3
    <2> HIDE DEF T
    <2>4. 0 .. m - 1 \subseteq T
      BY <2>1, <2>2, <2>3, InductionUpTo
    <2> QED BY <2>4 DEF T
  <1>9. \A k \in 0 .. m - 1 : sum[k] < n
    <2> SUFFICES ASSUME NEW k \in 0 .. m - 1 PROVE sum[k] < n
      OBVIOUS
    <2>1. m - 1 - k \in 0 .. m - 1 /\ m - 1 - (m - 1 - k) = k
      BY <1>2
    <2> QED BY <1>8, <2>1
  <1>10. \A k \in 0 .. m - 1 : sum[k] >= 0 /\ end[k] = sum[k]
    <2> DEFINE T == {k \in 0 .. m - 1 : sum[k] >= 0 /\ end[k] = sum[k]}
    <2>1. 0 \in T
      BY <1>2, <1>3, <1>5, <1>6
    <2>2. \A k \in 1 .. m - 1 : k - 1 \in T => k \in T
      <3> SUFFICES ASSUME NEW k \in 1 .. m - 1, k - 1 \in T PROVE k \in T
        OBVIOUS
      <3>1. k \in 1 .. m /\ k \in 0 .. m - 1
        BY <1>2
      <3>2. end[k - 1] = sum[k - 1] /\ sum[k - 1] >= 0 /\ sum[k] < n
        BY <1>9, <3>1
      <3>3. size(k) \in Nat /\ sum[k - 1] \in Int /\ sum[k] = sum[k - 1] + size(k)
        BY <1>3, <1>5, <1>s, <3>1
      <3>4. end[k] = sum[k]
        BY <1>0, <1>6, <3>1, <3>2, <3>3
      <3> QED BY <3>1, <3>2, <3>3, <3>4
    <2>3. m - 1 \in Nat
      BY <1>2, <1>3
    <2> HIDE DEF T
    <2>4. 0 .. m - 1 \subseteq T
      BY <2>1, <2>2, <2>3, InductionUpTo
    <2> QED BY <2>4 DEF T
  <1>11. \A k \in 1 .. m : /\ 0 <= sum[k - 1] /\ sum[k - 1] < end[k] /\ end[k] <= n /\ end[k] \in Int
                           /\ end[k] <= sum[k - 1] + size(k)
                           /\ k < m => end[k] = sum[k - 1] + size(k)
    <2> SUFFICES ASSUME NEW k \in 1 .. m
                 PROVE  /\ 0 <= sum[k - 1] /\ sum[k - 1] < end[k] /\ end[k] <= n /\ end[k] \in Int
                        /\ end[k] <= sum[k - 1] + size(k)
                        /\ k < m => end[k] = sum[k - 1] + size(k)
      OBVIOUS
    <2>1. k - 1 \in 0 .. m - 1 /\ end[k - 1] = sum[k - 1] /\ sum[k - 1] >= 0 /\ sum[k - 1] < n
      BY <1>2, <1>9, <1>10
    <2>2. /\ sum[k - 1] \in Int /\ end[k] \in Int /\ size(k) \in Nat /\ size(k) > 0
          /\ sum[k] = sum[k - 1] + size(k)
      BY <1>3, <1>5, <1>6, <1>s
    <2>3. end[k] = IF sum[k - 1] + size(k) > n THEN n ELSE sum[k - 1] + size(k)
      BY <1>6, <2>1
    <2>4. k < m => sum[k] < n
      <3>1. ASSUME k < m PROVE k \in 0 .. m - 1
        BY <1>2, <3>1
      <3> QED BY <1>9, <3>1
    <2> QED BY <1>0, <2>1, <2>2, <2>3, <2>4
  <1>12. ~ \E i \in 1 .. m : begin[i] < 0 \/ begin[i] > end[i]
    BY <1>4, <1>11, <1>s
  <1>13. /\ GroupHostBySerial(want, serial).kind = "ok"
         /\ b = [i \in 1 .. m |-> SubSeq(want, begin[i] + 1, end[i])]
    BY <1>7, <1>12 DEF Batches
  <1>14. DOMAIN b = 1 .. m /\ Len(b) = m
    BY <1>2, <1>13
  <1>15. ASSUME NEW i \in 1 .. m
         PROVE  b[i] # << >> /\ Len(b[i]) <= size(i) /\ (i < m => Len(b[i]) = size(i))
    <2>1. b[i] = SubSeq(want, sum[i - 1] + 1, end[i])
      BY <1>4, <1>13
    <2>2. sum[i - 1] \in Int /\ size(i) \in Nat
      BY <1>3, <1>s
    <2>3. Len(b[i]) = end[i] - sum[i - 1]
      BY SMTT(30), <1>11, <2>1, <2>2
    <2>4. Len(b[i]) > 0
      BY <1>11, <2>2, <2>3
    <2> QED BY <1>11, <2>2, <2>3, <2>4
  <1> QED BY <1>13, <1>14, <1>15 DEF size, L

\* Batches that cut the hosts are the hosts again, one after the other.
LEMMA FlattenedCuts ==
  ASSUME NEW S, NEW want \in Seq(S), NEW b \in Seq(Seq(S)), NEW cut, Cuts(b, want, cut), cut[0] = 0
  PROVE  Flattened(b) = want
  <1> DEFINE n == Len(b)
             G == [k \in 1 .. n |-> [v \in Seq(S) |-> v \o b[k]]]
             Eq(f) == f = [k \in 0 .. n |-> IF k = 0 THEN << >> ELSE f[k - 1] \o b[k]]
             flat == CHOOSE f : Eq(f)
  <1>1. n \in Nat /\ << >> \in Seq(S) /\ \A k \in 1 .. n : b[k] \in Seq(S)
    OBVIOUS
  <1>2. \A k \in 1 .. n, v \in Seq(S) : G[k][v] \in Seq(S) /\ G[k][v] = v \o b[k]
    BY <1>1
  <1>3. Flattened(b) = flat[n]
    BY DEF Flattened
  <1>c. /\ \A i \in 0 .. n : cut[i] \in 0 .. Len(want)
        /\ cut[n] = Len(want)
        /\ \A i \in 1 .. n : cut[i - 1] <= cut[i] /\ b[i] = SubSeq(want, cut[i - 1] + 1, cut[i])
    BY DEF Cuts
  <1> HIDE DEF n, G
  <1>4. PICK f : f = [k \in 0 .. n |-> f[k]] /\ Follows(f, G, << >>, n)
    BY <1>1, FollowsExists
  <1>5. \A k \in 0 .. n : f[k] \in Seq(S)
    BY <1>1, <1>2, <1>4, FollowsType
  <1>6. \A k \in 0 .. n : f[k] = IF k = 0 THEN << >> ELSE f[k - 1] \o b[k]
    <2>1. f[0] = << >>
      BY <1>4 DEF Follows
    <2>2. ASSUME NEW k \in 1 .. n PROVE f[k] = f[k - 1] \o b[k]
      <3>1. k - 1 \in 0 .. n
        BY <1>1
      <3>2. f[k] = G[k][f[k - 1]] /\ f[k - 1] \in Seq(S)
        BY <1>4, <1>5, <3>1 DEF Follows
      <3> QED BY <1>2, <3>2
    <2>3. ASSUME NEW k \in 0 .. n PROVE k = 0 \/ k \in 1 .. n
      BY <1>1
    <2>4. \A k \in 1 .. n : k # 0
      BY <1>1
    <2> QED BY <2>1, <2>2, <2>3, <2>4, Zenon
  <1>7. Eq(f)
    BY <1>4, <1>6
  <1>8. Eq(flat)
    BY <1>7
  <1> HIDE DEF flat
  <1> DEFINE T == {k \in 0 .. n : flat[k] = SubSeq(want, 1, cut[k])}
  <1>9. 0 \in T
    <2>1. flat[0] = << >>
      BY <1>1, <1>8
    <2>2. SubSeq(want, 1, 0) = << >>
      OBVIOUS
    <2>3. flat[0] = SubSeq(want, 1, cut[0])
      BY <2>1, <2>2
    <2>4. 0 \in 0 .. n
      BY <1>1
    <2> QED BY <2>3, <2>4
  <1>10. \A k \in 1 .. n : k - 1 \in T => k \in T
    <2> SUFFICES ASSUME NEW k \in 1 .. n, k - 1 \in T PROVE k \in T
      OBVIOUS
    <2>1. k \in 0 .. n /\ k - 1 \in 0 .. n /\ k # 0
      BY <1>1
    <2>2. flat[k] = SubSeq(want, 1, cut[k - 1]) \o SubSeq(want, cut[k - 1] + 1, cut[k])
      BY <1>8, <1>c, <2>1
    <2>3. cut[k - 1] \in Nat /\ cut[k] \in Nat /\ cut[k - 1] <= cut[k] /\ cut[k] <= Len(want)
      BY <1>c, <2>1
    <2>4. \A x, y \in Nat : x <= y /\ y <= Len(want) =>
                              SubSeq(want, 1, x) \o SubSeq(want, x + 1, y) = SubSeq(want, 1, y)
      OBVIOUS
    <2> QED BY <2>1, <2>2, <2>3, <2>4
  <1> HIDE DEF T
  <1>11. n \in T
    <2>1. 0 .. n \subseteq T
      BY <1>1, <1>9, <1>10, InductionUpTo
    <2> QED BY <1>1, <2>1
  <1>12. SubSeq(want, 1, Len(want)) = want
    OBVIOUS
  <1> QED BY <1>3, <1>11, <1>12, <1>c DEF T

-----------------------------------------------------------------------------
(* The calls on their own, of PlayCalls *)

\* A call is answered with what its function returns.
Replied ==
  /\ call \in SerialCalls \cup TagCalls
  /\ \/ answer = [op |-> "none"]
     \/ call.op = "serial" /\ answer = [op |-> "serial", out |-> GroupHostBySerial(call.hosts, call.serial)]
     \/ /\ call.op = "tags"
        /\ answer = [op |-> "tags",
                     out |-> IsEnabled(JoinTag(call.child, call.parent), call.only, call.skip)]

LEMMA RepliedAlways == PlayCallsSpec => []Replied
  <1>1. CallInit(SerialCalls \cup TagCalls) => Replied
    BY DEF CallInit, Replied
  <1>2. Replied /\ [PlayNext]_callVars => Replied'
    <2> SUFFICES ASSUME Replied, [PlayNext]_callVars PROVE Replied'
      OBVIOUS
    <2>1. CASE CutHosts
      BY <2>1 DEF CutHosts, CallStep, Replied
    <2>2. CASE SelectTask
      BY <2>2 DEF SelectTask, CallStep, Replied
    <2>3. CASE UNCHANGED callVars
      BY <2>3 DEF callVars, Replied
    <2> QED BY <2>1, <2>2, <2>3 DEF PlayNext
  <1> QED BY <1>1, <1>2, PTL DEF PlayCallsSpec

\* What is cut is a list of hosts that is not empty.
LEMMA CutOf ==
  ASSUME Replied, Cut
  PROVE  /\ \E S : call.hosts \in Seq(S)
         /\ call.hosts # << >> /\ call.serial \in Seq(SerialEntry(Int))
         /\ answer.out = GroupHostBySerial(call.hosts, call.serial)
  <1>1. answer = [op |-> "serial", out |-> GroupHostBySerial(call.hosts, call.serial)] /\ call.op = "serial"
    BY DEF Replied, Cut
  <1>2. call \in SerialCalls
    BY <1>1 DEF Replied, SerialCalls, TagCalls
  <1>3. call.hosts \in HostLists /\ call.serial \in SerialLists
    BY <1>2 DEF SerialCalls
  <1> QED BY <1>1, <1>3, PlayCallsAssumption

\* One after the other, the batches of a call that returns some are its hosts.
LEMMA BatchesAreHosts ==
  ASSUME Replied, Cut, answer.out.kind = "ok"
  PROVE  Flattened(answer.out.batches) = call.hosts
  <1>1. PICK S : call.hosts \in Seq(S)
    BY CutOf
  <1> DEFINE b == GroupHostBySerial(call.hosts, call.serial).batches
  <1>2. answer.out.batches = b /\ call.serial \in Seq(SerialEntry(Int))
    BY CutOf
  <1>3. GroupHostBySerial(call.hosts, call.serial).kind = "ok"
    BY CutOf
  <1>4. b \in Seq(Seq(S)) /\ \E cut : Cuts(b, call.hosts, cut) /\ cut[0] = 0
    BY <1>1, <1>2, <1>3, SerialCuts
  <1>5. PICK cut : Cuts(b, call.hosts, cut) /\ cut[0] = 0
    BY <1>4
  <1> HIDE DEF b
  <1>6. Flattened(b) = call.hosts
    BY <1>1, <1>4, <1>5, FlattenedCuts
  <1> QED BY <1>2, <1>6

\* GroupHostBySerial keeps what 002-playbook.md says of serial: whenever the sizes are
\* positive and leave hosts for the last entry, its batches are the hosts of the play in
\* order, each host in one batch, none empty, each of its size but that the last may be
\* smaller.  This for every list of hosts and every serial, of numbers and percentages.
THEOREM BatchesAlwaysPartition == PlayCallsSpec => []BatchesPartition
  <1>1. ASSUME Replied PROVE BatchesPartition
    <2> SUFFICES ASSUME Cut, AllPositive, LastIsReached PROVE Documented
      BY DEF BatchesPartition
    <2> DEFINE b == answer.out.batches
    <2>1. /\ call.hosts # << >> /\ call.serial \in Seq(SerialEntry(Int))
          /\ answer.out = GroupHostBySerial(call.hosts, call.serial)
      BY <1>1, CutOf
    <2>2. CASE call.serial = << >>
      <3>1. answer.out = Batches(<<call.hosts>>)
        BY <2>1, <2>2 DEF GroupHostBySerial
      <3>2. answer.out.kind = "ok" /\ b = <<call.hosts>>
        BY <3>1 DEF Batches
      <3>3. \A i \in DOMAIN b : b[i] # << >>
        BY <2>1, <3>2
      <3>4. Flattened(b) = call.hosts
        BY <1>1, <3>2, BatchesAreHosts
      <3> QED BY <2>2, <3>2, <3>3, <3>4 DEF Documented
    <2>3. CASE call.serial # << >>
      <3>1. PICK S : call.hosts \in Seq(S)
        BY <1>1, CutOf
      <3>2. \A i \in DOMAIN call.serial : Sizes(call.serial, Len(call.hosts))[i] > 0
        BY DEF AllPositive, Wanted
      <3>3. SumUpTo(Sizes(call.serial, Len(call.hosts)))[Len(call.serial) - 1] < Len(call.hosts)
        BY <2>3 DEF LastIsReached, Wanted
      <3>4. /\ answer.out.kind = "ok"
            /\ \A i \in DOMAIN b :
                 /\ b[i] # << >> /\ Len(b[i]) <= WantedSize(i)
                 /\ i < Len(b) => Len(b[i]) = WantedSize(i)
        <4> DEFINE given == Sizes(call.serial, Len(call.hosts))
                   bs == GroupHostBySerial(call.hosts, call.serial).batches
                   size(i) == IF i <= Len(call.serial) THEN given[i] ELSE given[Len(call.serial)]
        <4> HIDE DEF given, bs
        <4>1. /\ given = Sizes(call.serial, Len(call.hosts))
              /\ bs = GroupHostBySerial(call.hosts, call.serial).batches
          BY DEF given, bs
        <4>2. \A i \in DOMAIN call.serial : given[i] > 0
          BY <3>2, <4>1
        <4>3. SumUpTo(given)[Len(call.serial) - 1] < Len(call.hosts)
          BY <3>3, <4>1
        <4>4. /\ GroupHostBySerial(call.hosts, call.serial).kind = "ok"
              /\ \A i \in DOMAIN bs : /\ bs[i] # << >> /\ Len(bs[i]) <= size(i)
                                      /\ i < Len(bs) => Len(bs[i]) = size(i)
          <5> DEFINE want == call.hosts
                     serial == call.serial
          <5>1. want \in Seq(S) /\ serial \in Seq(SerialEntry(Int)) /\ serial # << >>
            BY <2>1, <2>3, <3>1
          <5>2. given = Sizes(serial, Len(want)) /\ bs = GroupHostBySerial(want, serial).batches
            BY <4>1
          <5>3. (\A i \in DOMAIN serial : given[i] > 0) /\ SumUpTo(given)[Len(serial) - 1] < Len(want)
            BY <4>2, <4>3
          <5> HIDE DEF want, serial
          <5>4. /\ GroupHostBySerial(want, serial).kind = "ok"
                /\ \A i \in DOMAIN bs :
                     LET s == IF i <= Len(serial) THEN given[i] ELSE given[Len(serial)]
                     IN  bs[i] # << >> /\ Len(bs[i]) <= s /\ (i < Len(bs) => Len(bs[i]) = s)
            BY <5>1, <5>2, <5>3, BatchesFit
          <5> QED BY <5>4 DEF want, serial
        <4>5. b = bs /\ \A i : WantedSize(i) = size(i)
          BY <2>1, <4>1 DEF WantedSize, Wanted
        <4> QED BY <2>1, <4>4, <4>5
      <3>5. Flattened(b) = call.hosts
        BY <1>1, <3>4, BatchesAreHosts
      <3> QED BY <3>4, <3>5 DEF Documented
    <2> QED BY <2>2, <2>3
  <1> QED BY <1>1, RepliedAlways, PTL

\* Without always and never a block decides for all that is in it: when --skip-tags takes
\* the block out, no task in it runs, and when --tags asks for it and nothing is skipped, its
\* tasks run.  This for all tags of the block, of the task and of the command.
THEOREM SubtreeSelected == PlayCallsSpec => []SubtreeSelection
  <1>1. ASSUME Replied PROVE SubtreeSelection
    <2> SUFFICES ASSUME answer.op = "tags"
                 PROVE  /\ Skipped(call.parent, call.skip) => ~ answer.out
                        /\ Selected(call.parent, call.only) /\ NeverTag \notin call.child \cup call.parent
                             /\ call.skip = {} => answer.out
      BY DEF SubtreeSelection, AllTagsOf
    <2> DEFINE t == JoinTag(call.child, call.parent)
    <2>1. answer.out = (Selected(t, call.only) /\ ~ Skipped(t, call.skip))
      BY <1>1 DEF Replied, IsEnabled
    <2>2. call.parent \subseteq t /\ t \subseteq call.child \cup call.parent
      BY DEF JoinTag
    <2>3. ASSUME Skipped(call.parent, call.skip) PROVE Skipped(t, call.skip)
      BY <2>2, <2>3 DEF Skipped, isdisjoint, JoinTag, AlwaysTag, AllTag, TaggedTag
    <2>4. ASSUME Selected(call.parent, call.only), NeverTag \notin call.child \cup call.parent,
                 call.skip = {}
          PROVE  Selected(t, call.only) /\ ~ Skipped(t, call.skip)
      BY <2>2, <2>4 DEF Selected, Skipped, isdisjoint, JoinTag
    <2> QED BY <2>1, <2>3, <2>4
  <1> QED BY <1>1, RepliedAlways, PTL

-----------------------------------------------------------------------------
(* The recursive definitions about the project *)

\* f collects B over the graph M.
Solves(f, N, B, M) == \A n \in N : \A x : x \in f[n] <=> x \in B[n] \/ \E m \in M[n] : x \in f[m]

\* Sets that are defined by recursion over a graph exist, even if it has a cycle.
LEMMA LeastSolution ==
  \A N, B, M : (\A n \in N : M[n] \subseteq N) =>
    \E V : \E f \in [N -> V] : Solves(f, N, B, M)
  <1> SUFFICES ASSUME NEW N, NEW B, NEW M, \A n \in N : M[n] \subseteq N
               PROVE  \E V : \E f \in [N -> V] : Solves(f, N, B, M)
    BY Zenon
  <1> DEFINE X == UNION {B[n] : n \in N}
             Apply(g) == [n \in N |-> B[n] \cup UNION {g[m] : m \in M[n]}]
             Closed0 == {g \in [N -> SUBSET X] : \A n \in N : Apply(g)[n] \subseteq g[n]}
             f == [n \in N |-> {x \in X : \A g \in Closed0 : x \in g[n]}]
  <1>1. f \in [N -> SUBSET X]
    OBVIOUS
  <1>2. \A g \in Closed0, n \in N : f[n] \subseteq g[n]
    OBVIOUS
  <1>3. ASSUME NEW g \in [N -> SUBSET X], NEW h \in [N -> SUBSET X], \A n \in N : g[n] \subseteq h[n],
               NEW n \in N
        PROVE  Apply(g)[n] \subseteq Apply(h)[n]
    <2>1. Apply(g)[n] = B[n] \cup UNION {g[m] : m \in M[n]}
      OBVIOUS
    <2>2. Apply(h)[n] = B[n] \cup UNION {h[m] : m \in M[n]}
      OBVIOUS
    <2>3. \A m \in M[n] : g[m] \subseteq h[m]
      BY <1>3
    <2> QED BY <2>1, <2>2, <2>3
  <1>4. ASSUME NEW g \in [N -> SUBSET X] PROVE Apply(g) \in [N -> SUBSET X]
    <2>1. \A n \in N : B[n] \cup UNION {g[m] : m \in M[n]} \subseteq X
      OBVIOUS
    <2> QED BY <2>1
  <1> HIDE DEF Apply, X
  <1>5. ASSUME NEW n \in N PROVE Apply(f)[n] \subseteq f[n]
    <2>1. ASSUME NEW g \in Closed0 PROVE Apply(f)[n] \subseteq g[n]
      <3>1. Apply(f)[n] \subseteq Apply(g)[n]
        <4> HIDE DEF f
        <4> QED BY <1>1, <1>2, <1>3
      <3> QED BY <3>1
    <2>2. Apply(f)[n] \in SUBSET X
      <3> HIDE DEF f
      <3> QED BY <1>1, <1>4
    <2> HIDE DEF Closed0
    <2> QED BY <2>1, <2>2
  <1> HIDE DEF f
  <1>6. Apply(f) \in Closed0
    <2>1. Apply(f) \in [N -> SUBSET X]
      BY <1>1, <1>4
    <2>2. ASSUME NEW n \in N PROVE Apply(Apply(f))[n] \subseteq Apply(f)[n]
      BY <1>1, <1>3, <1>5, <2>1
    <2> QED BY <2>1, <2>2
  <1>7. \A n \in N : f[n] = Apply(f)[n]
    BY <1>2, <1>5, <1>6
  <1>9. \A n \in N : f[n] = B[n] \cup UNION {f[m] : m \in M[n]}
    BY <1>7 DEF Apply
  <1>10. Solves(f, N, B, M)
    BY <1>9 DEF Solves
  <1> QED BY <1>1, <1>10

\* What a project is.
LEMMA Constants ==
  /\ \A n \in Node : /\ Tree[n] \in NodeRecord
                     /\ Tree[n].kind = "block" => Tree[n].main # << >>
                     /\ Tree[n].kind = "role" => Tree[n].rescue = << >> /\ Tree[n].always = << >>
  /\ Plays \in Seq(PlayRecord)
  BY TreeAssumption, PlaysAssumption

\* The section of a node, and what is above it.
LEMMA EnclosingIs ==
  ASSUME NEW n \in Node
  PROVE  Enclosing[n] = {n} \cup UNION {Enclosing[S[1]] : S \in SectionOf[n]}
  <1> DEFINE Eq(up) == up = [m \in Node |-> {m} \cup UNION {up[S[1]] : S \in SectionOf[m]}]
             B == [m \in Node |-> {m}]
             M == [m \in Node |-> {S[1] : S \in SectionOf[m]}]
             up == CHOOSE up : Eq(up)
  <1>0. \A m \in Node : SectionOf[m] \subseteq Sections
    BY DEF SectionOf
  <1>1. \A m \in Node : M[m] \subseteq Node
    BY <1>0 DEF Sections
  <1>2. \E V : \E f \in [Node -> V] : Solves(f, Node, B, M)
    <2> HIDE DEF M, B
    <2> QED BY <1>1, LeastSolution, Zenon
  <1>v. PICK V : \E f \in [Node -> V] : Solves(f, Node, B, M)
    BY <1>2
  <1>f. PICK f \in [Node -> V] : Solves(f, Node, B, M)
    BY <1>v
  <1>3. \A m \in Node : f[m] = {m} \cup UNION {f[S[1]] : S \in SectionOf[m]}
    BY <1>f DEF Solves
  <1>4. Eq(f)
    BY <1>f, <1>3
  <1>5. Eq(up)
    BY <1>4
  <1>6. Enclosing = [m \in Node |-> up[m]]
    BY DEF Enclosing
  <1> HIDE DEF up
  <1>7. \A m \in Node : Enclosing[m] = up[m]
    BY <1>6
  <1>8. up[n] = {n} \cup UNION {up[S[1]] : S \in SectionOf[n]}
    BY <1>5
  <1>9. \A S \in SectionOf[n] : S[1] \in Node
    BY <1>0 DEF Sections
  <1> QED BY <1>7, <1>8, <1>9

\* An error of section S is not rescued there.
Through(S) == ~ (S[2] = "main" /\ Tree[S[1]].rescue # << >>)

LEMMA FailedSectionsIs ==
  ASSUME NEW n \in Node
  PROVE  FailedSections[n] =
           IF SectionOf[n] = {} THEN {Root}
           ELSE SectionOf[n] \cup UNION {FailedSections[S[1]] : S \in {T \in SectionOf[n] : Through(T)}}
  <1> DEFINE Val(fails, m) ==
               IF SectionOf[m] = {} THEN {Root}
               ELSE UNION {{S} \cup (IF S[2] = "main" /\ Tree[S[1]].rescue # << >>
                                     THEN {} ELSE fails[S[1]]) : S \in SectionOf[m]}
             Eq(fails) == fails = [m \in Node |-> Val(fails, m)]
             B == [m \in Node |-> IF SectionOf[m] = {} THEN {Root} ELSE SectionOf[m]]
             M == [m \in Node |-> {S[1] : S \in {T \in SectionOf[m] : Through(T)}}]
             fails == CHOOSE fails : Eq(fails)
  <1>0. \A m \in Node : SectionOf[m] \subseteq Sections
    BY DEF SectionOf
  <1>1. \A m \in Node : M[m] \subseteq Node
    BY <1>0 DEF Sections
  <1>2. \E V : \E f \in [Node -> V] : Solves(f, Node, B, M)
    <2> HIDE DEF M, B
    <2> QED BY <1>1, LeastSolution, Zenon
  <1>v. PICK V : \E f \in [Node -> V] : Solves(f, Node, B, M)
    BY <1>2
  <1>f. PICK f \in [Node -> V] : Solves(f, Node, B, M)
    BY <1>v
  <1>3. ASSUME NEW m \in Node, NEW g
        PROVE  /\ \A x : x \in Val(g, m) <=> x \in B[m] \/ \E k \in M[m] : x \in g[k]
               /\ Val(g, m) = IF SectionOf[m] = {} THEN {Root}
                              ELSE SectionOf[m]
                                     \cup UNION {g[S[1]] : S \in {T \in SectionOf[m] : Through(T)}}
    <2>1. CASE SectionOf[m] = {}
      BY <2>1
    <2>2. CASE SectionOf[m] # {}
      <3> DEFINE Part(S) == {S} \cup (IF S[2] = "main" /\ Tree[S[1]].rescue # << >>
                                      THEN {} ELSE g[S[1]])
      <3>0. Val(g, m) = UNION {Part(S) : S \in SectionOf[m]}
        BY <2>2
      <3>1. \A S, x : x \in Part(S) <=> x = S \/ (Through(S) /\ x \in g[S[1]])
        BY DEF Through
      <3> HIDE DEF M, B, Part, Val
      <3>2. \A x : x \in Val(g, m) <=>
                     \E S \in SectionOf[m] : x = S \/ (Through(S) /\ x \in g[S[1]])
        BY <3>0, <3>1
      <3>3. B[m] = SectionOf[m] /\ M[m] = {S[1] : S \in {T \in SectionOf[m] : Through(T)}}
        BY <2>2 DEF B, M
      <3>4. Val(g, m) = SectionOf[m]
                          \cup UNION {g[S[1]] : S \in {T \in SectionOf[m] : Through(T)}}
        BY <3>2
      <3>5. \A x : x \in Val(g, m) <=> x \in B[m] \/ \E k \in M[m] : x \in g[k]
        BY <3>2, <3>3
      <3> QED BY <2>2, <3>4, <3>5, <3>2, <3>3
    <2> QED BY <2>1, <2>2
  <1> HIDE DEF Val
  <1>4. Eq(f)
    <2>1. \A m \in Node : f[m] = Val(f, m)
      <3> HIDE DEF B, M
      <3> QED BY <1>f, <1>3 DEF Solves
    <2> QED BY <1>f, <2>1
  <1>5. Eq(fails)
    BY <1>4
  <1>6. FailedSections = [m \in Node |-> fails[m]]
    BY DEF FailedSections, Val
  <1> HIDE DEF fails
  <1>7. \A m \in Node : FailedSections[m] = fails[m]
    BY <1>6
  <1>8. fails[n] = Val(fails, n)
    BY <1>5
  <1>9. \A S \in SectionOf[n] : S[1] \in Node
    BY <1>0 DEF Sections
  <1>10. UNION {fails[S[1]] : S \in {T \in SectionOf[n] : Through(T)}}
            = UNION {FailedSections[S[1]] : S \in {T \in SectionOf[n] : Through(T)}}
    BY <1>7, <1>9
  <1>11. fails[n] = IF SectionOf[n] = {} THEN {Root}
                    ELSE SectionOf[n]
                           \cup UNION {fails[S[1]] : S \in {T \in SectionOf[n] : Through(T)}}
    BY <1>3, <1>8
  <1> QED BY <1>7, <1>10, <1>11

-----------------------------------------------------------------------------
(* The types of the state *)

EnvType == [hosts : Seq(STRING), ignore : Ignore, tags : SUBSET STRING, when : SUBSET Conds]

FrameType ==
    [sec : {"play", "role", "main", "rescue", "always"}, node : Node \cup {"none"},
     todo : Seq(Node), env : EnvType, failed : BOOLEAN, errs : BOOLEAN]

EventType ==
    [what : {"play", "batch", "main", "rescue", "always", "ran", "ignored", "failed", "aborted"},
     node : Node \cup {"none"}, play : Nat, batch : Nat, hosts : Seq(STRING)]

\* The types, and when a play, its hosts and a phase are there.
Typed ==
    /\ TypeOK
    /\ hosts \in Seq(STRING) /\ batches \in Seq(Seq(STRING)) /\ batch \in Nat
    /\ stack \in Seq(FrameType) /\ log \in Seq(EventType)
    /\ pc \in {"gather", "serial"} => hosts # << >>
    /\ pc \in {"gather", "serial", "batch", "exec"} => play \in DOMAIN Plays
    /\ phase = "Running" <=> pc \notin {"sync", "done"}
    /\ pc # "done" => stored = "Running"

-----------------------------------------------------------------------------
(* The stack and the project *)

\* The list of blocks a frame executes.
Section(f) == IF f.sec = "play" THEN Root ELSE <<f.node, IF f.sec = "role" THEN "main" ELSE f.sec>>

\* n is on the list of f.
In(n, f) == n \in Node /\ SectionOf[n] = IF f.sec = "play" THEN {} ELSE {Section(f)}

\* The stack is a path in the project, and every frame executes its own list.
FrameFits(f) ==
    /\ \A k \in DOMAIN f.todo : In(f.todo[k], f)
    /\ f.sec # "play" => f.node \in Node /\ (f.sec = "role" <=> Tree[f.node].kind = "role")
    /\ f.errs => f.sec = "always"

Path ==
    /\ \A k \in DOMAIN stack : FrameFits(stack[k])
    /\ \A k \in DOMAIN stack : k + 1 \in DOMAIN stack => In(stack[k].node, stack[k + 1])
    /\ \A k, m \in DOMAIN stack :
         k <= m /\ m # Len(stack) => stack[m].node \in Enclosing[stack[k].node]

-----------------------------------------------------------------------------
(* Where the errors go *)

\* An error of the list of f is not rescued there.
Passes(f) == f.sec # "play" /\ ~ (f.sec = "main" /\ Tree[f.node].rescue # << >>)

\* f has failed, or will end in an error, which ends section S.
Lost(S, f) == \/ f.failed /\ Section(f) = S
              \/ (f.failed \/ f.errs) /\ Passes(f) /\ S \in FailedSections[f.node]

\* The sections whose failure has a consequence of its own.
Rescuer(b) == b \in Node /\ Tree[b].kind = "block" /\ Tree[b].rescue # << >>
Targets == {Root} \cup {<<b, "main">> : b \in {n \in Node : Rescuer(n)}}

Rescue(b, n, j) == j \in DOMAIN log /\ log[j].what = "rescue" /\ log[j].node = b /\ log[j].batch = n

\* The failure of section S in batch n has had its consequence.
Answered(S, n) == IF S = Root THEN batch = n /\ phase = "Failed"
                  ELSE \E j \in DOMAIN log : Rescue(S[1], n, j)

\* ... or is on its way up the stack.
Pending(S, n) == batch = n /\ \E k \in DOMAIN stack : Lost(S, stack[k])

Heard ==
    \A i \in DOMAIN log : Failure(log[i]) =>
        \A S \in Targets \cap FailedSections[log[i].node] :
            Answered(S, log[i].batch) \/ Pending(S, log[i].batch)

\* Failure e is why the list of f has failed or will end in an error.
Explains(e, f) ==
    /\ Failure(e)
    /\ f.failed => Section(f) \in FailedSections[e.node]
    /\ Passes(f) => FailedSections[f.node] \subseteq FailedSections[e.node]

\* There is a failure of this batch that explains f.
Explained(f) == \E i \in DOMAIN log : log[i].batch = batch /\ Explains(log[i], f)

\* There is a failure that the rescue section of event e was started for.
Due(e) == /\ Tree[e.node].rescue # << >>
          /\ \E i \in DOMAIN log : /\ Failure(log[i]) /\ log[i].batch = e.batch
                                   /\ <<e.node, "main">> \in FailedSections[log[i].node]

Caused ==
    /\ \A k \in DOMAIN stack : stack[k].failed \/ stack[k].errs => Explained(stack[k])
    /\ \A j \in DOMAIN log : log[j].what = "rescue" => Due(log[j])

\* The block of event i is being executed, and nothing else was meanwhile.
Open(i) ==
    /\ log[i].batch = batch
    /\ \E k \in DOMAIN stack : stack[k].sec \in {"main", "rescue"} /\ stack[k].node = log[i].node
    /\ \A l \in i + 1 .. Len(log) :
         log[l].what # "batch" /\ log[i].node \in Enclosing[log[l].node]

\* The always section of the block of event i has been started.
Closed(i) ==
    \E j \in i + 1 .. Len(log) :
        /\ log[j].what = "always" /\ log[j].node = log[i].node /\ log[j].batch = log[i].batch
        /\ \A k \in i + 1 .. j - 1 :
             log[k].what # "batch" /\ log[i].node \in Enclosing[log[k].node]

Cleaned ==
    \A i \in DOMAIN log :
        log[i].what = "main" /\ Tree[log[i].node].always # << >> => Open(i) \/ Closed(i)
-----------------------------------------------------------------------------
(* The lists of the project *)

\* Whatever is on a list of a block or role is in that section, and in no other.
LEMMA Listed ==
  ASSUME NEW b \in Node, NEW s \in {"main", "rescue", "always"}, NEW k \in DOMAIN SectionList(b, s)
  PROVE  SectionList(b, s)[k] \in Node /\ SectionOf[SectionList(b, s)[k]] = {<<b, s>>}
  <1> DEFINE n == SectionList(b, s)[k]
  <1>1. SectionList(b, s) \in Seq(Node)
    BY Constants DEF SectionList, NodeRecord
  <1>2. n \in Node
    BY <1>1
  <1>3. <<b, s>> \in Sections /\ n \in Members[<<b, s>>]
    BY DEF Sections, Members
  <1> HIDE DEF n
  <1>4. <<b, s>> \in SectionOf[n]
    BY <1>2, <1>3 DEF SectionOf
  <1>5. \A T \in SectionOf[n] : T = <<b, s>>
    BY <1>2, <1>4, ForestAssumption
  <1> QED BY <1>2, <1>4, <1>5 DEF n

\* The blocks of a play are in no section.
LEMMA PlayList ==
  ASSUME NEW p \in DOMAIN Plays
  PROVE  /\ PlayOrder(Plays[p]) \in Seq(Node)
         /\ \A k \in DOMAIN PlayOrder(Plays[p]) : SectionOf[PlayOrder(Plays[p])[k]] = {}
  <1>1. Plays[p] \in PlayRecord
    BY Constants
  <1>2. PlayOrder(Plays[p]) \in Seq(Node)
    BY <1>1 DEF PlayOrder, PlayRecord
  <1> QED BY <1>2, ForestAssumption

\* What a failure of a node on the list of f ends.
LEMMA FailsIn ==
  ASSUME NEW f \in FrameType, FrameFits(f), NEW n, In(n, f)
  PROVE  FailedSections[n] = {Section(f)} \cup (IF Passes(f) THEN FailedSections[f.node] ELSE {})
  <1>1. n \in Node
    BY DEF In
  <1>2. CASE f.sec = "play"
    BY <1>1, <1>2, FailedSectionsIs DEF In, Section, Passes
  <1>3. CASE f.sec # "play"
    <2>1. SectionOf[n] = {Section(f)} /\ Section(f)[1] = f.node
      BY <1>3 DEF In, Section
    <2>2. f.sec = "role" => Tree[f.node].rescue = << >>
      BY <1>3, Constants DEF FrameFits
    <2>3. Through(Section(f)) <=> Passes(f)
      BY <1>3, <2>2 DEF Through, Passes, Section, FrameType
    <2>4. FailedSections[n] = SectionOf[n]
            \cup UNION {FailedSections[S[1]] : S \in {T \in SectionOf[n] : Through(T)}}
      BY <1>1, <2>1, FailedSectionsIs
    <2>5. {T \in SectionOf[n] : Through(T)} = IF Passes(f) THEN {Section(f)} ELSE {}
      BY <2>1, <2>3
    <2> QED BY <2>1, <2>4, <2>5
  <1> QED BY <1>2, <1>3

\* What encloses a node on the list of f.
LEMMA EnclosesIn ==
  ASSUME NEW f \in FrameType, NEW n, In(n, f)
  PROVE  /\ n \in Enclosing[n]
         /\ f.sec # "play" => Enclosing[f.node] \subseteq Enclosing[n]
  <1>1. n \in Node
    BY DEF In
  <1>2. f.sec # "play" => SectionOf[n] = {Section(f)} /\ Section(f)[1] = f.node
    BY DEF In, Section
  <1> QED BY <1>1, <1>2, EnclosingIs

-----------------------------------------------------------------------------
(* Stacks *)

\* A frame that goes on, and one that has failed.
LEMMA FrameMoves ==
  ASSUME NEW f \in FrameType
  PROVE  /\ f.todo # << >> => [f EXCEPT !.todo = Tail(@)] \in FrameType
         /\ [f EXCEPT !.todo = << >>, !.failed = TRUE] \in FrameType
  <1>1. f.todo \in Seq(Node) /\ << >> \in Seq(Node) /\ (f.todo # << >> => Tail(f.todo) \in Seq(Node))
    BY DEF FrameType
  <1>2. ASSUME f.todo # << >> PROVE [f EXCEPT !.todo = Tail(@)] \in FrameType
    <2> DEFINE t == Tail(f.todo)
    <2>1. t \in Seq(Node)
      BY <1>1, <1>2
    <2> HIDE DEF t
    <2>2. [f EXCEPT !.todo = t] \in FrameType
      BY <2>1 DEF FrameType
    <2> QED BY <2>2 DEF t
  <1>3. [f EXCEPT !.todo = << >>, !.failed = TRUE] \in FrameType
    BY <1>1 DEF FrameType
  <1> QED BY <1>2, <1>3

LEMMA AdvanceIs ==
  ASSUME NEW s \in Seq(FrameType), s # << >>, s[1].todo # << >>
  PROVE  /\ Advance(s) \in Seq(FrameType) /\ Len(Advance(s)) = Len(s)
         /\ Advance(s)[1] = [s[1] EXCEPT !.todo = Tail(@)]
         /\ \A k \in 2 .. Len(s) : Advance(s)[k] = s[k]
  <1>1. s[1] \in FrameType /\ Tail(s) \in Seq(FrameType) /\ Len(Tail(s)) = Len(s) - 1
    OBVIOUS
  <1>2. [s[1] EXCEPT !.todo = Tail(@)] \in FrameType
    BY <1>1, FrameMoves
  <1> QED BY <1>1, <1>2 DEF Advance

LEMMA AbortIs ==
  ASSUME NEW s \in Seq(FrameType), s # << >>
  PROVE  /\ Abort(s) \in Seq(FrameType) /\ Len(Abort(s)) = Len(s)
         /\ Abort(s)[1] = [s[1] EXCEPT !.todo = << >>, !.failed = TRUE]
         /\ \A k \in 2 .. Len(s) : Abort(s)[k] = s[k]
  <1>1. s[1] \in FrameType /\ Tail(s) \in Seq(FrameType) /\ Len(Tail(s)) = Len(s) - 1
    OBVIOUS
  <1>2. [s[1] EXCEPT !.todo = << >>, !.failed = TRUE] \in FrameType
    BY <1>1, FrameMoves
  <1> QED BY <1>1, <1>2 DEF Abort

LEMMA PushIs ==
  ASSUME NEW s \in Seq(FrameType), NEW f \in FrameType
  PROVE  /\ <<f>> \o s \in Seq(FrameType) /\ Len(<<f>> \o s) = Len(s) + 1
         /\ (<<f>> \o s)[1] = f
         /\ \A k \in 2 .. Len(s) + 1 : (<<f>> \o s)[k] = s[k - 1]
  OBVIOUS

LEMMA RestIs ==
  ASSUME NEW s \in Seq(FrameType), s # << >>
  PROVE  /\ Tail(s) \in Seq(FrameType) /\ Len(Tail(s)) = Len(s) - 1
         /\ \A k \in 1 .. Len(s) - 1 : Tail(s)[k] = s[k + 1]
  OBVIOUS

LEMMA AppendIs ==
  ASSUME NEW e \in EventType, NEW l \in Seq(EventType)
  PROVE  /\ Append(l, e) \in Seq(EventType) /\ Len(Append(l, e)) = Len(l) + 1
         /\ Append(l, e)[Len(l) + 1] = e
         /\ \A k \in 1 .. Len(l) : Append(l, e)[k] = l[k]
  OBVIOUS

\* What a block inherits is of the right type.
LEMMA InheritType ==
  ASSUME NEW env \in EnvType, env.hosts # << >>, NEW n \in Node
  PROVE  Inherit(env, n) \in EnvType /\ Inherit(env, n).hosts # << >>
  <1>1. Tree[n] \in NodeRecord
    BY Constants
  <1>2. SubSeq(env.hosts, 1, 1) \in Seq(STRING) /\ SubSeq(env.hosts, 1, 1) # << >>
    BY DEF EnvType
  <1> DEFINE h == IF Tree[n].runOnce /\ Tree[n].kind # "role" THEN SubSeq(env.hosts, 1, 1) ELSE env.hosts
             i == IF Tree[n].ignore = "unset" THEN env.ignore ELSE Tree[n].ignore
  <1>3. h \in Seq(STRING) /\ h # << >>
    BY <1>2 DEF EnvType
  <1>4. i \in Ignore
    BY <1>1 DEF EnvType, NodeRecord
  <1>5. JoinTag(Tree[n].tags, env.tags) \in SUBSET STRING /\ env.when \cup Tree[n].when \in SUBSET Conds
    BY <1>1 DEF EnvType, NodeRecord, JoinTag
  <1>6. Inherit(env, n) = [hosts |-> h, ignore |-> i, tags |-> JoinTag(Tree[n].tags, env.tags),
                           when |-> env.when \cup Tree[n].when]
    BY DEF Inherit, Env
  <1> HIDE DEF h, i
  <1> QED BY <1>3, <1>4, <1>5, <1>6 DEF EnvType

\* The type of a new frame.
LEMMA FrameTyped ==
  ASSUME NEW sec \in {"play", "role", "main", "rescue", "always"}, NEW n \in Node \cup {"none"},
         NEW list \in Seq(Node), NEW env \in EnvType, NEW errs \in BOOLEAN
  PROVE  Frame(sec, n, list, env, errs) \in FrameType
  BY DEF Frame, FrameType

-----------------------------------------------------------------------------
(* The types are right *)

\* The hosts a play wants to be covered: all, or with run_once the first one.
Want == IF Plays[play].runOnce THEN <<hosts[1]>> ELSE hosts

LEMMA InitTyped == Init => Typed
  <1> SUFFICES ASSUME Init PROVE Typed
    OBVIOUS
  <1>1. Len(Plays) \in Nat
    BY Constants
  <1> QED BY <1>1 DEF Init, Typed, TypeOK

\* The play that is executed, and its batches.
LEMMA PlayIs ==
  ASSUME Typed, play \in DOMAIN Plays
  PROVE  Plays[play] \in PlayRecord /\ play \in 1 .. Len(Plays) /\ Len(Plays) \in Nat
  BY Constants

LEMMA DealTypes ==
  ASSUME Typed, Load \/ DealHosts \/ GatherFacts \/ DealSerial
  PROVE  Typed'
  <1> USE DEF Typed, TypeOK, Finish
  <1>0. Len(Plays) \in Nat
    BY Constants
  <1>1. CASE Load
    BY <1>1 DEF Load
  <1>2. CASE DealHosts
    <2>1. play \in DOMAIN Plays /\ Plays[play] \in PlayRecord
      BY <1>2, Constants DEF DealHosts
    <2>2. PICK h \in Plays[play].hosts :
            \/ h = << >> /\ SkipPlay /\ UNCHANGED <<hosts, log>>
            \/ /\ h # << >> /\ hosts' = h
               /\ pc' = IF Plays[play].gather THEN "gather" ELSE "serial"
               /\ log' = Append(log, Event("play", "none", h))
               /\ UNCHANGED play
      BY <1>2 DEF DealHosts
    <2>3. h \in Seq(STRING)
      BY <2>1 DEF PlayRecord
    <2>4. Event("play", "none", h) \in EventType
      BY <2>3, <1>0, <2>1 DEF Event, EventType
    <2>5. log' \in Seq(EventType)
      <3> DEFINE e == Event("play", "none", h)
      <3> HIDE DEF e
      <3>1. Append(log, e) \in Seq(EventType)
        BY <2>4, AppendIs DEF e
      <3>2. log' = log \/ log' = Append(log, e)
        BY <2>2 DEF e
      <3> QED BY <3>1, <3>2
    <2> QED BY <1>0, <1>2, <2>1, <2>2, <2>3, <2>5 DEF DealHosts, SkipPlay, NextPlay
  <1>3. CASE GatherFacts
    BY <1>3 DEF GatherFacts
  <1>4. CASE DealSerial
    <2> DEFINE g == GroupHostBySerial(hosts, Plays[play].serial)
    <2>0. Plays[play] \in PlayRecord
      BY <1>4, Constants DEF DealSerial
    <2>1. Plays[play].serial \in Seq(SerialEntry(Int))
      BY <2>0 DEF PlayRecord
    <2>2. hosts # << >> /\ hosts \in Seq(STRING) /\ stack = << >>
      BY <1>4 DEF DealSerial
    <2>3. g.kind \in {"ok", "error", "panic"}
      BY DEF GroupHostBySerial, Batches, SerialError, SerialPanic
    <2>4. g.kind = "ok" => g.batches \in Seq(Seq(STRING))
      BY <2>1, <2>2, SerialCuts
    <2>5. <<<<hosts[1]>>>> \in Seq(Seq(STRING))
      BY <2>2
    <2> HIDE DEF g
    <2>6. \/ /\ g.kind = "ok"
             /\ batches' = IF Plays[play].runOnce THEN <<<<hosts[1]>>>> ELSE g.batches
             /\ pc' = "batch" /\ UNCHANGED phase
          \/ Finish("Failed") /\ UNCHANGED batches
          \/ pc' = "crashed" /\ UNCHANGED <<batches, phase>>
      BY <1>4, <2>3 DEF DealSerial, g
    <2>7. batches' \in Seq(Seq(STRING))
      BY <2>4, <2>5, <2>6
    <2> QED BY <1>4, <2>2, <2>6, <2>7 DEF DealSerial
  <1> QED BY <1>1, <1>2, <1>3, <1>4

LEMMA BatchTypes ==
  ASSUME Typed, StartBatch \/ EndPlay \/ EndPlaybook \/ SyncStatus \/ EndBatch
  PROVE  Typed'
  <1> USE DEF Typed, TypeOK, Finish
  <1>0. Len(Plays) \in Nat
    BY Constants
  <1>1. CASE StartBatch
    <2> DEFINE f == Frame("play", "none", PlayOrder(Plays[play]),
                          Env(Head(batches), Plays[play].ignore, Plays[play].tags, {}), FALSE)
               e == [Event("batch", "none", Head(batches)) EXCEPT !.batch = @ + 1]
    <2>1. /\ play \in DOMAIN Plays /\ Plays[play] \in PlayRecord
          /\ Head(batches) \in Seq(STRING) /\ Tail(batches) \in Seq(Seq(STRING)) /\ batch + 1 \in Nat
      BY SMTT(30), <1>1, Constants DEF StartBatch
    <2>2. Env(Head(batches), Plays[play].ignore, Plays[play].tags, {}) \in EnvType
      BY <2>1 DEF PlayRecord, Env, EnvType
    <2>3. f \in FrameType
      BY <2>1, <2>2, PlayList, FrameTyped
    <2>4. /\ f.sec = "play" /\ f.failed = FALSE /\ f.env.hosts = Head(batches)
      BY DEF Frame, Env
    <2>5. e \in EventType
      <3>1. e = [what |-> "batch", node |-> "none", play |-> play, batch |-> batch + 1,
                 hosts |-> Head(batches)]
        BY SMTT(30) DEF Event
      <3>2. play \in Nat
        BY <1>0, <2>1
      <3> DEFINE h == Head(batches)
      <3> HIDE DEF h
      <3>3. h \in Seq(STRING) /\ batch + 1 \in Nat
        BY <2>1 DEF h
      <3>4. [what |-> "batch", node |-> "none", play |-> play, batch |-> batch + 1, hosts |-> h]
              \in EventType
        BY <3>2, <3>3 DEF EventType
      <3> QED BY <3>1, <3>4 DEF h
    <2> HIDE DEF f, e
    <2>6. /\ <<f>> \in Seq(FrameType) /\ Len(<<f>>) = 1 /\ <<f>>[1] = f /\ <<f>> # << >>
          /\ Append(log, e) \in Seq(EventType)
      BY <2>3, <2>5
    <2>7. \/ Finish("Failed") /\ UNCHANGED <<stack, log>>
          \/ /\ Head(batches) # << >> /\ stack' = <<f>> /\ log' = Append(log, e)
             /\ pc' = "exec" /\ UNCHANGED phase
      BY <1>1 DEF StartBatch, f, e
    <2>8. /\ pc = "batch" /\ batches' = Tail(batches) /\ batch' = batch + 1
          /\ UNCHANGED <<play, hosts, stored, cancelled, holds>>
      BY <1>1 DEF StartBatch
    <2>9. CASE Finish("Failed") /\ UNCHANGED <<stack, log>>
      BY <2>1, <2>8, <2>9
    <2>10. CASE /\ Head(batches) # << >> /\ stack' = <<f>> /\ log' = Append(log, e)
                /\ pc' = "exec" /\ UNCHANGED phase
      <3>1. \A i \in DOMAIN stack' :
              /\ stack'[i].sec = "play" <=> i = Len(stack')
              /\ stack'[i].failed => stack'[i].todo = << >>
              /\ stack'[i].env.hosts # << >>
        <4>1. DOMAIN stack' = {1} /\ stack'[1] = f /\ Len(stack') = 1
          BY <2>6, <2>10
        <4> QED BY <2>4, <2>10, <4>1
      <3> QED BY <2>1, <2>6, <2>8, <2>10, <3>1
    <2> QED BY <2>7, <2>9, <2>10
  <1>2. CASE EndPlay
    BY <1>0, <1>2 DEF EndPlay, NextPlay
  <1>3. CASE EndPlaybook
    BY <1>3 DEF EndPlaybook
  <1>4. CASE SyncStatus
    BY <1>4 DEF SyncStatus
  <1>5. CASE EndBatch
    BY <1>5 DEF EndBatch
  <1> QED BY <1>1, <1>2, <1>3, <1>4, <1>5

-----------------------------------------------------------------------------
(* What a step does to the stack and to the history *)

Quiet == pc = "exec" /\ pc' = pc /\ UNCHANGED <<play, hosts, batches, batch, phase, stored>>

Logs(what, n, h) == log' = Append(log, Event(what, n, h))

\* The list goes on after its next block.
Forward == /\ Working /\ Quiet /\ stack' = Advance(stack)
           /\ \/ log' = log
              \/ \E w \in {"ran", "ignored"}, h \in Seq(STRING) : Logs(w, This, h)

\* The next block fails.
Fails == /\ Working /\ Quiet /\ stack' = Abort(stack)
         /\ \E w \in {"failed", "aborted"}, h \in Seq(STRING) : Logs(w, This, h)

\* The frame of the main section of n, or of a role.
MainFrame(n, env) == Frame(IF Tree[n].kind = "role" THEN "role" ELSE "main", n, Tree[n].main, env, FALSE)

Enters == /\ Working /\ Quiet
          /\ Tree[This].kind \in {"block", "role"}
          /\ stack' = <<MainFrame(This, ThisEnv)>> \o Advance(stack)
          /\ Logs("main", This, ThisEnv.hosts)

Ending == pc = "exec" /\ Top.todo = << >> /\ Top.sec # "play"

\* A list that failed and whose block has a rescue section.
Rescued(f) == f.sec = "main" /\ f.failed /\ Tree[f.node].rescue # << >>

\* The always section of the block is next.
IsCleaned(f) == ~ Rescued(f) /\ f.sec \in {"main", "rescue"} /\ Tree[f.node].always # << >>

Rescues == /\ Ending /\ Quiet /\ Rescued(Top)
           /\ stack' = <<Frame("rescue", Top.node, Tree[Top.node].rescue, Top.env, FALSE)>> \o Rest
           /\ Logs("rescue", Top.node, Top.env.hosts)

Cleans == /\ Ending /\ Quiet /\ IsCleaned(Top)
          /\ stack' = <<Frame("always", Top.node, Tree[Top.node].always, Top.env, Top.failed)>> \o Rest
          /\ Logs("always", Top.node, Top.env.hosts)

Returns == /\ Ending /\ Quiet /\ ~ Rescued(Top) /\ ~ IsCleaned(Top)
           /\ stack' = IF Top.failed \/ Top.errs THEN Abort(Rest) ELSE Rest
           /\ log' = log

\* What there is while a block is executed.
LEMMA ExecIs ==
  ASSUME Typed, Path, pc = "exec"
  PROVE  /\ stack \in Seq(FrameType) /\ stack # << >> /\ Len(stack) \in Nat /\ Len(stack) > 0
         /\ log \in Seq(EventType) /\ Len(log) \in Nat
         /\ Top \in FrameType /\ FrameFits(Top) /\ Top.env.hosts # << >> /\ Top.env \in EnvType
         /\ \A k \in DOMAIN stack : stack[k] \in FrameType /\ FrameFits(stack[k])
         /\ Top.sec = "play" <=> Len(stack) = 1
  <1>1. stack \in Seq(FrameType) /\ stack # << >> /\ log \in Seq(EventType)
    BY DEF Typed, TypeOK
  <1>2. 1 \in DOMAIN stack /\ Len(stack) \in Nat /\ Len(stack) > 0 /\ Len(log) \in Nat
    BY <1>1
  <1>3. \A k \in DOMAIN stack : stack[k] \in FrameType
    BY <1>1
  <1>4. Top.env \in EnvType
    BY <1>2, <1>3 DEF FrameType, Top
  <1> QED BY <1>1, <1>2, <1>3, <1>4 DEF Typed, TypeOK, Path, Top

LEMMA WorkingIs ==
  ASSUME Typed, Path, Working
  PROVE  /\ This \in Node /\ In(This, Top) /\ ThisEnv \in EnvType /\ ThisEnv.hosts # << >>
         /\ Top.todo \in Seq(Node) /\ Top.todo # << >> /\ ~ Top.failed
         /\ Tree[This] \in NodeRecord
  <1>1. pc = "exec" /\ Top.todo # << >>
    BY DEF Working
  <1>2. Top.todo \in Seq(Node)
    BY <1>1, ExecIs DEF FrameType
  <1>3. 1 \in DOMAIN Top.todo /\ This = Top.todo[1] /\ This \in Node
    BY <1>1, <1>2 DEF This
  <1>4. In(This, Top)
    BY <1>1, <1>3, ExecIs DEF FrameFits
  <1>5. ThisEnv \in EnvType /\ ThisEnv.hosts # << >>
    BY <1>1, <1>3, ExecIs, InheritType DEF ThisEnv
  <1>6. ~ Top.failed
    BY <1>1, ExecIs DEF Typed, TypeOK, Top
  <1> QED BY <1>1, <1>2, <1>3, <1>4, <1>5, <1>6, Constants

\* There is an executor below one that is not of a play.
LEMMA EndingIs ==
  ASSUME Typed, Path, Ending
  PROVE  /\ Rest \in Seq(FrameType) /\ Rest # << >> /\ Len(Rest) = Len(stack) - 1
         /\ \A k \in 1 .. Len(stack) - 1 : Rest[k] = stack[k + 1]
         /\ Top.node \in Node /\ In(Top.node, stack[2]) /\ stack[2] \in FrameType
         /\ 2 \in DOMAIN stack
         /\ Tree[Top.node] \in NodeRecord
  <1>1. pc = "exec" /\ Top.sec # "play"
    BY DEF Ending
  <1>2. Len(stack) > 1 /\ Len(stack) \in Nat /\ stack \in Seq(FrameType) /\ stack # << >>
    <2>1. Len(stack) \in Nat /\ Len(stack) > 0 /\ stack \in Seq(FrameType) /\ stack # << >>
      BY <1>1, ExecIs
    <2> DEFINE n == Len(stack)
    <2>2. n # 1
      BY <1>1, ExecIs
    <2>3. n \in Nat /\ n > 0
      BY <2>1
    <2> HIDE DEF n
    <2>4. n > 1
      BY <2>2, <2>3
    <2> QED BY <2>1, <2>4 DEF n
  <1>3. 2 \in DOMAIN stack /\ 1 \in DOMAIN stack
    BY <1>2
  <1>4. Top.node \in Node /\ In(Top.node, stack[2])
    BY <1>1, <1>3, ExecIs DEF Path, FrameFits, Top
  <1>5. stack[2] \in FrameType
    BY <1>2, <1>3
  <1>6. /\ Rest \in Seq(FrameType) /\ Len(Rest) = Len(stack) - 1
        /\ \A k \in 1 .. Len(stack) - 1 : Rest[k] = stack[k + 1]
    BY <1>2, RestIs DEF Rest
  <1>7. Rest # << >>
    BY <1>2, <1>6
  <1> QED BY <1>3, <1>4, <1>5, <1>6, <1>7, Constants

LEMMA ExecSteps ==
  ASSUME Typed, Path,
         \/ MergeFails \/ Enter \/ SkipInclude \/ SkipTask \/ TaskSkipped \/ TaskRuns \/ TaskAborted
         \/ EndList
  PROVE  Forward \/ Fails \/ Enters \/ Rescues \/ Cleans \/ Returns
  <1> USE DEF Quiet, Unchanged, Logs
  <1>0. Working => pc = "exec"
    BY DEF Working
  <1>e. << >> \in Seq(STRING)
    OBVIOUS
  <1>1. CASE MergeFails
    BY <1>0, <1>e, <1>1 DEF MergeFails, Fails
  <1>2. CASE Enter
    BY <1>0, <1>2 DEF Enter, Enters, MainFrame
  <1>3. CASE SkipInclude
    BY <1>0, <1>3 DEF SkipInclude, Forward
  <1>4. CASE SkipTask
    BY <1>0, <1>4 DEF SkipTask, Forward
  <1>5. CASE TaskSkipped
    BY <1>0, <1>5 DEF TaskSkipped, Forward
  <1>6. CASE TaskRuns
    <2>1. ThisEnv.hosts \in Seq(STRING)
      BY <1>6, WorkingIs DEF TaskRuns, EnvType
    <2>2. PICK r \in {"ran", "failed"} :
            /\ stack' = Ended(stack, r = "failed" /\ ~ Ignores(This))
            /\ log' = Append(log, Event(IF r = "failed" /\ Ignores(This) THEN "ignored" ELSE r,
                                        This, ThisEnv.hosts))
      BY <1>6 DEF TaskRuns
    <2>3. Working /\ Quiet
      BY <1>0, <1>6 DEF TaskRuns
    <2>4. CASE r = "failed" /\ ~ Ignores(This)
      BY <2>1, <2>2, <2>3, <2>4 DEF Fails, Ended
    <2>5. CASE ~ (r = "failed" /\ ~ Ignores(This))
      BY <2>1, <2>2, <2>3, <2>5 DEF Forward, Ended
    <2> QED BY <2>4, <2>5
  <1>7. CASE TaskAborted
    BY <1>0, <1>e, <1>7 DEF TaskAborted, Fails
  <1>8. CASE EndList
    <2>1. Ending /\ Quiet /\ stack' = AfterList(Top, Rest) /\ log' = log \o Started(stack')
      BY <1>8 DEF EndList, Ending
    <2>2. /\ Top.sec \in {"role", "main", "rescue", "always"} /\ Top.failed \in BOOLEAN
          /\ Top.errs \in BOOLEAN /\ (Top.errs => Top.sec = "always")
      BY <2>1, ExecIs DEF Ending, FrameType, FrameFits
    <2>3. Len(stack) \in Nat /\ log \in Seq(EventType)
      BY <2>1, ExecIs DEF Ending
    <2>4. Abort(Rest) \in Seq(FrameType) /\ Len(Abort(Rest)) = Len(stack) - 1
      BY <2>1, EndingIs, AbortIs
    <2>n. Top.node \in Node /\ Tree[Top.node] \in NodeRecord /\ Top.env \in EnvType /\ pc = "exec"
      BY <2>1, EndingIs, ExecIs DEF Ending
    <2>5. ASSUME NEW sec \in {"rescue", "always"}, NEW list \in Seq(Node), NEW errs \in BOOLEAN,
                 stack' = <<Frame(sec, Top.node, list, Top.env, errs)>> \o Rest
          PROVE  Logs(sec, Top.node, Top.env.hosts)
      <3> DEFINE f == Frame(sec, Top.node, list, Top.env, errs)
      <3>1. f \in FrameType /\ f.sec = sec /\ f.node = Top.node /\ f.env = Top.env
        <4>1. f \in FrameType
          BY <2>n, FrameTyped
        <4> QED BY <4>1 DEF Frame
      <3> HIDE DEF f
      <3>2. stack' = <<f>> \o Rest
        BY <2>5 DEF f
      <3>3. stack' # << >> /\ stack'[1] = f /\ Len(stack') = Len(stack)
        BY <2>1, <2>3, <3>1, <3>2, EndingIs, PushIs
      <3>4. Started(stack') = <<Event(sec, Top.node, Top.env.hosts)>>
        BY <3>1, <3>3 DEF Started
      <3>5. Event(sec, Top.node, Top.env.hosts) \in EventType
        BY <2>n DEF Event, EventType, EnvType, Typed, TypeOK
      <3> QED BY <2>1, <2>3, <3>4, <3>5
    <2>6. ASSUME stack' = Rest \/ stack' = Abort(Rest) PROVE log' = log
      <3>1. Len(stack') # Len(stack)
        BY <2>1, <2>3, <2>4, <2>6, EndingIs
      <3>2. Started(stack') = << >>
        BY <3>1 DEF Started
      <3> QED BY <2>1, <2>3, <3>2
    <2>7. CASE Rescued(Top)
      <3>1. stack' = <<Frame("rescue", Top.node, Tree[Top.node].rescue, Top.env, FALSE)>> \o Rest
        BY <2>1, <2>7 DEF Rescued, AfterList, AfterMain
      <3>2. Tree[Top.node].rescue \in Seq(Node)
        BY <2>n DEF NodeRecord
      <3> QED BY <2>1, <2>5, <2>7, <3>1, <3>2 DEF Rescues
    <2>8. CASE IsCleaned(Top)
      <3>1. stack' = <<Frame("always", Top.node, Tree[Top.node].always, Top.env, Top.failed)>> \o Rest
        BY <2>1, <2>2, <2>8 DEF IsCleaned, Rescued, AfterList, AfterMain, Always
      <3>2. Tree[Top.node].always \in Seq(Node)
        BY <2>n DEF NodeRecord
      <3> QED BY <2>1, <2>2, <2>5, <2>8, <3>1, <3>2 DEF Cleans
    <2>9. CASE ~ Rescued(Top) /\ ~ IsCleaned(Top)
      <3>1. stack' = IF Top.failed \/ Top.errs THEN Abort(Rest) ELSE Rest
        BY <2>1, <2>2, <2>9 DEF IsCleaned, Rescued, AfterList, AfterMain, Always
      <3> QED BY <2>1, <2>6, <2>9, <3>1 DEF Returns
    <2> QED BY <2>7, <2>8, <2>9
  <1> QED BY <1>1, <1>2, <1>3, <1>4, <1>5, <1>6, <1>7, <1>8

\* g is f after a step: the same list, with no more blocks left.
Kept(g, f) ==
  /\ g \in FrameType
  /\ g.sec = f.sec /\ g.node = f.node /\ g.env = f.env /\ g.errs = f.errs
  /\ \A i \in DOMAIN g.todo : \E j \in DOMAIN f.todo : g.todo[i] = f.todo[j]

LEMMA KeptIs ==
  ASSUME NEW f \in FrameType
  PROVE  /\ Kept(f, f)
         /\ f.todo # << >> => /\ Kept([f EXCEPT !.todo = Tail(@)], f)
                              /\ [f EXCEPT !.todo = Tail(@)].failed = f.failed
         /\ Kept([f EXCEPT !.todo = << >>, !.failed = TRUE], f)
         /\ [f EXCEPT !.todo = << >>, !.failed = TRUE].failed
         /\ [f EXCEPT !.todo = << >>, !.failed = TRUE].todo = << >>
  <1> DEFINE g == [f EXCEPT !.todo = << >>, !.failed = TRUE]
             h == [f EXCEPT !.todo = Tail(@)]
  <1>1. /\ g.sec = f.sec /\ g.node = f.node /\ g.env = f.env /\ g.errs = f.errs
        /\ g.todo = << >> /\ g.failed
        /\ h.sec = f.sec /\ h.node = f.node /\ h.env = f.env /\ h.errs = f.errs
        /\ h.todo = Tail(f.todo) /\ h.failed = f.failed
    BY DEF FrameType
  <1>2. g \in FrameType /\ (f.todo # << >> => h \in FrameType)
    BY FrameMoves
  <1>3. f.todo \in Seq(Node)
    BY DEF FrameType
  <1> HIDE DEF g, h
  <1>4. Kept(g, f)
    BY <1>1, <1>2 DEF Kept
  <1>5. ASSUME f.todo # << >> PROVE Kept(h, f)
    <2>1. ASSUME NEW i \in DOMAIN h.todo PROVE \E j \in DOMAIN f.todo : h.todo[i] = f.todo[j]
      <3>1. i + 1 \in DOMAIN f.todo /\ h.todo[i] = f.todo[i + 1]
        BY <1>1, <1>3, <1>5
      <3> QED BY <3>1
    <2> QED BY <1>1, <1>2, <1>5, <2>1 DEF Kept
  <1> QED BY <1>1, <1>4, <1>5 DEF Kept, g, h

LEMMA KeptFits ==
  ASSUME NEW f, NEW g, Kept(g, f), FrameFits(f)
  PROVE  /\ FrameFits(g) /\ Section(g) = Section(f) /\ (Passes(g) <=> Passes(f))
         /\ \A n : In(n, g) <=> In(n, f)
  <1>1. Section(g) = Section(f) /\ (Passes(g) <=> Passes(f)) /\ \A n : In(n, g) <=> In(n, f)
    BY DEF Kept, Section, Passes, In
  <1>2. FrameFits(g)
    <2>1. \A k \in DOMAIN g.todo : In(g.todo[k], g)
      BY <1>1 DEF Kept, FrameFits
    <2> QED BY <2>1 DEF Kept, FrameFits
  <1> QED BY <1>1, <1>2

LEMMA ForwardStack ==
  ASSUME Typed, Path, Forward
  PROVE  /\ stack' \in Seq(FrameType) /\ Len(stack') = Len(stack)
         /\ Kept(stack'[1], stack[1]) /\ ~ stack'[1].failed
         /\ \A k \in 2 .. Len(stack) : stack'[k] = stack[k]
  <1>1. pc = "exec" /\ Working /\ stack' = Advance(stack)
    BY DEF Forward, Quiet
  <1>2. stack \in Seq(FrameType) /\ stack # << >> /\ Top \in FrameType /\ Top.todo # << >> /\ ~ Top.failed
    BY <1>1, ExecIs, WorkingIs
  <1>3. Kept([stack[1] EXCEPT !.todo = Tail(@)], stack[1]) /\ ~ [stack[1] EXCEPT !.todo = Tail(@)].failed
    BY <1>2, KeptIs DEF Top
  <1> QED BY <1>1, <1>2, <1>3, AdvanceIs DEF Top

LEMMA FailsStack ==
  ASSUME Typed, Path, Fails
  PROVE  /\ stack' \in Seq(FrameType) /\ Len(stack') = Len(stack)
         /\ Kept(stack'[1], stack[1]) /\ stack'[1].failed /\ stack'[1].todo = << >>
         /\ \A k \in 2 .. Len(stack) : stack'[k] = stack[k]
  <1>1. pc = "exec" /\ Working /\ stack' = Abort(stack)
    BY DEF Fails, Quiet
  <1>2. stack \in Seq(FrameType) /\ stack # << >> /\ Top \in FrameType
    BY <1>1, ExecIs
  <1> DEFINE g == [stack[1] EXCEPT !.todo = << >>, !.failed = TRUE]
  <1>3. Kept(g, stack[1]) /\ g.failed /\ g.todo = << >>
    BY <1>2, KeptIs DEF Top
  <1> HIDE DEF g
  <1>4. /\ Abort(stack) \in Seq(FrameType) /\ Len(Abort(stack)) = Len(stack)
        /\ Abort(stack)[1] = g
        /\ \A k \in 2 .. Len(stack) : Abort(stack)[k] = stack[k]
    BY <1>2, AbortIs DEF g
  <1> QED BY <1>1, <1>3, <1>4

LEMMA EntersStack ==
  ASSUME Typed, Path, Enters
  PROVE  /\ stack' \in Seq(FrameType) /\ Len(stack') = Len(stack) + 1
         /\ stack'[1] = MainFrame(This, ThisEnv) /\ MainFrame(This, ThisEnv) \in FrameType
         /\ Kept(stack'[2], stack[1]) /\ ~ stack'[2].failed
         /\ \A k \in 3 .. Len(stack) + 1 : stack'[k] = stack[k - 1]
  <1>1. pc = "exec" /\ Working /\ stack' = <<MainFrame(This, ThisEnv)>> \o Advance(stack)
    BY DEF Enters, Quiet
  <1>2. /\ stack \in Seq(FrameType) /\ stack # << >> /\ Len(stack) \in Nat /\ Len(stack) > 0
        /\ Top \in FrameType /\ Top.todo # << >> /\ ~ Top.failed
    BY <1>1, ExecIs, WorkingIs
  <1>3. MainFrame(This, ThisEnv) \in FrameType
    BY <1>1, WorkingIs, FrameTyped DEF MainFrame, NodeRecord
  <1> DEFINE f == MainFrame(This, ThisEnv)
             g == [stack[1] EXCEPT !.todo = Tail(@)]
             s == Advance(stack)
  <1>4. Kept(g, stack[1]) /\ ~ g.failed
    BY <1>2, KeptIs DEF Top
  <1>5. /\ s \in Seq(FrameType) /\ Len(s) = Len(stack) /\ s[1] = g
        /\ \A k \in 2 .. Len(stack) : s[k] = stack[k]
    BY <1>2, AdvanceIs DEF Top
  <1> HIDE DEF f, g, s
  <1>6. /\ <<f>> \o s \in Seq(FrameType) /\ Len(<<f>> \o s) = Len(s) + 1
        /\ (<<f>> \o s)[1] = f
        /\ \A k \in 2 .. Len(s) + 1 : (<<f>> \o s)[k] = s[k - 1]
    BY <1>3, <1>5, PushIs DEF f
  <1>7. stack' = <<f>> \o s
    BY <1>1 DEF f, s
  <1>8. stack'[2] = g
    BY <1>2, <1>5, <1>6, <1>7
  <1>9. \A k \in 3 .. Len(stack) + 1 : stack'[k] = stack[k - 1]
    <2> SUFFICES ASSUME NEW k \in 3 .. Len(stack) + 1 PROVE stack'[k] = stack[k - 1]
      OBVIOUS
    <2>1. k \in 2 .. Len(s) + 1 /\ k - 1 \in 2 .. Len(stack)
      BY <1>2, <1>5
    <2> QED BY <1>5, <1>6, <1>7, <2>1
  <1> QED BY <1>3, <1>4, <1>5, <1>6, <1>7, <1>8, <1>9 DEF f

LEMMA SectionStack ==
  ASSUME Typed, Path, Ending, NEW f \in FrameType, stack' = <<f>> \o Rest
  PROVE  /\ stack' \in Seq(FrameType) /\ Len(stack') = Len(stack)
         /\ stack'[1] = f
         /\ \A k \in 2 .. Len(stack) : stack'[k] = stack[k]
  <1>1. /\ Rest \in Seq(FrameType) /\ Len(Rest) = Len(stack) - 1 /\ Len(stack) \in Nat
        /\ \A k \in 1 .. Len(stack) - 1 : Rest[k] = stack[k + 1]
    BY EndingIs, ExecIs DEF Ending
  <1>2. /\ <<f>> \o Rest \in Seq(FrameType) /\ Len(<<f>> \o Rest) = Len(Rest) + 1
        /\ (<<f>> \o Rest)[1] = f
        /\ \A k \in 2 .. Len(Rest) + 1 : (<<f>> \o Rest)[k] = Rest[k - 1]
    BY <1>1, PushIs
  <1>3. \A k \in 2 .. Len(stack) : stack'[k] = stack[k]
    BY <1>1, <1>2
  <1> QED BY <1>1, <1>2, <1>3

LEMMA RescuesStack ==
  ASSUME Typed, Path, Rescues
  PROVE  /\ stack' \in Seq(FrameType) /\ Len(stack') = Len(stack)
         /\ stack'[1] \in FrameType
         /\ stack'[1].sec = "rescue" /\ stack'[1].node = Top.node /\ stack'[1].env = Top.env
         /\ stack'[1].todo = Tree[Top.node].rescue /\ ~ stack'[1].failed /\ ~ stack'[1].errs
         /\ \A k \in 2 .. Len(stack) : stack'[k] = stack[k]
  <1> DEFINE f == Frame("rescue", Top.node, Tree[Top.node].rescue, Top.env, FALSE)
  <1>1. Ending /\ pc = "exec" /\ stack' = <<f>> \o Rest
    BY DEF Rescues, Ending
  <1>2. f \in FrameType
    BY <1>1, EndingIs, ExecIs, FrameTyped DEF NodeRecord
  <1>3. /\ f.sec = "rescue" /\ f.node = Top.node /\ f.env = Top.env
        /\ f.todo = Tree[Top.node].rescue /\ ~ f.failed /\ ~ f.errs
    BY DEF Frame
  <1> HIDE DEF f
  <1> QED BY <1>1, <1>2, <1>3, SectionStack

LEMMA CleansStack ==
  ASSUME Typed, Path, Cleans
  PROVE  /\ stack' \in Seq(FrameType) /\ Len(stack') = Len(stack)
         /\ stack'[1] \in FrameType
         /\ stack'[1].sec = "always" /\ stack'[1].node = Top.node /\ stack'[1].env = Top.env
         /\ stack'[1].todo = Tree[Top.node].always /\ ~ stack'[1].failed
         /\ stack'[1].errs = Top.failed
         /\ \A k \in 2 .. Len(stack) : stack'[k] = stack[k]
  <1> DEFINE f == Frame("always", Top.node, Tree[Top.node].always, Top.env, Top.failed)
  <1>1. Ending /\ pc = "exec" /\ stack' = <<f>> \o Rest
    BY DEF Cleans, Ending
  <1>2. Top.failed \in BOOLEAN
    BY <1>1, ExecIs DEF FrameType
  <1>3. f \in FrameType
    BY <1>1, <1>2, EndingIs, ExecIs, FrameTyped DEF NodeRecord
  <1>4. /\ f.sec = "always" /\ f.node = Top.node /\ f.env = Top.env
        /\ f.todo = Tree[Top.node].always /\ ~ f.failed /\ f.errs = Top.failed
    BY DEF Frame
  <1> HIDE DEF f
  <1> QED BY <1>1, <1>3, <1>4, SectionStack

LEMMA ReturnsStack ==
  ASSUME Typed, Path, Returns
  PROVE  /\ stack' \in Seq(FrameType) /\ Len(stack') = Len(stack) - 1
         /\ Kept(stack'[1], stack[2])
         /\ IF Top.failed \/ Top.errs THEN stack'[1].failed /\ stack'[1].todo = << >>
            ELSE stack'[1] = stack[2]
         /\ \A k \in 2 .. Len(stack) - 1 : stack'[k] = stack[k + 1]
  <1>1. Ending /\ pc = "exec" /\ stack' = IF Top.failed \/ Top.errs THEN Abort(Rest) ELSE Rest
    BY DEF Returns, Ending
  <1>2. /\ Rest \in Seq(FrameType) /\ Rest # << >> /\ Len(Rest) = Len(stack) - 1
        /\ \A k \in 1 .. Len(stack) - 1 : Rest[k] = stack[k + 1]
        /\ stack[2] \in FrameType /\ Len(stack) \in Nat /\ Len(stack) >= 2
    BY <1>1, EndingIs, ExecIs
  <1>3. Rest[1] = stack[2]
    BY <1>2
  <1>4. CASE Top.failed \/ Top.errs
    <2> DEFINE g == [Rest[1] EXCEPT !.todo = << >>, !.failed = TRUE]
    <2>1. Kept(g, stack[2]) /\ g.failed /\ g.todo = << >>
      BY <1>2, <1>3, KeptIs
    <2>2. /\ Abort(Rest) \in Seq(FrameType) /\ Len(Abort(Rest)) = Len(Rest)
          /\ Abort(Rest)[1] = g
          /\ \A k \in 2 .. Len(Rest) : Abort(Rest)[k] = Rest[k]
      BY <1>2, AbortIs
    <2> HIDE DEF g
    <2>3. \A k \in 2 .. Len(stack) - 1 : stack'[k] = stack[k + 1]
      BY <1>1, <1>2, <1>4, <2>2
    <2> QED BY <1>1, <1>2, <1>4, <2>1, <2>2, <2>3
  <1>5. CASE ~ (Top.failed \/ Top.errs)
    <2>1. stack' = Rest
      BY <1>1, <1>5
    <2>2. Kept(stack[2], stack[2])
      BY <1>2, KeptIs
    <2>3. \A k \in 2 .. Len(stack) - 1 : Rest[k] = stack[k + 1]
      BY <1>2
    <2> QED BY <1>2, <1>3, <1>5, <2>1, <2>2, <2>3
  <1> QED BY <1>4, <1>5

\* A path of frames, from the top to the play.
Sound(s) ==
  \A k \in DOMAIN s : /\ s[k].sec = "play" <=> k = Len(s)
                      /\ s[k].failed => s[k].todo = << >>
                      /\ s[k].env.hosts # << >>

LEMMA LogTyped ==
  ASSUME Typed, Path, NEW w \in {"main", "rescue", "always", "ran", "ignored", "failed", "aborted"},
         NEW n \in Node, NEW h \in Seq(STRING), Logs(w, n, h)
  PROVE  /\ log' \in Seq(EventType) /\ Len(log') = Len(log) + 1
         /\ log'[Len(log) + 1] = Event(w, n, h)
         /\ \A k \in 1 .. Len(log) : log'[k] = log[k]
         /\ Event(w, n, h).what = w /\ Event(w, n, h).node = n /\ Event(w, n, h).batch = batch
  <1>1. play \in Nat /\ batch \in Nat /\ log \in Seq(EventType)
    BY Constants DEF Typed, TypeOK
  <1>2. Event(w, n, h) \in EventType
    BY <1>1 DEF Event, EventType
  <1>3. Event(w, n, h).what = w /\ Event(w, n, h).node = n /\ Event(w, n, h).batch = batch
    BY DEF Event
  <1> QED BY <1>1, <1>2, <1>3, AppendIs DEF Logs

\* How the history grows in a step of the executors.
LEMMA ExecLog ==
  ASSUME Typed, Path, Forward \/ Fails \/ Enters \/ Rescues \/ Cleans \/ Returns
  PROVE  /\ log' \in Seq(EventType)
         /\ \/ log' = log
            \/ \E w \in {"main", "rescue", "always", "ran", "ignored", "failed", "aborted"}, n \in Node,
                  h \in Seq(STRING) : Logs(w, n, h)
  <1>0. pc = "exec"
    BY DEF Forward, Fails, Enters, Rescues, Cleans, Returns, Quiet
  <1>5. \/ log' = log
        \/ \E w \in {"main", "rescue", "always", "ran", "ignored", "failed", "aborted"}, n \in Node,
              h \in Seq(STRING) : Logs(w, n, h)
    <2>1. CASE Forward \/ Fails
      BY <2>1, WorkingIs DEF Forward, Fails
    <2>2. CASE Enters
      <3>1. This \in Node /\ ThisEnv.hosts \in Seq(STRING) /\ Logs("main", This, ThisEnv.hosts)
        BY <2>2, WorkingIs DEF Enters, EnvType
      <3> QED BY <3>1
    <2>3. CASE Rescues \/ Cleans
      <3>1. Top.node \in Node /\ Top.env.hosts \in Seq(STRING)
        BY <1>0, <2>3, EndingIs, ExecIs DEF Rescues, Cleans, EnvType
      <3>2. Logs("rescue", Top.node, Top.env.hosts) \/ Logs("always", Top.node, Top.env.hosts)
        BY <2>3 DEF Rescues, Cleans
      <3> QED BY <3>1, <3>2
    <2>4. CASE Returns
      BY <2>4 DEF Returns
    <2> QED BY <2>1, <2>2, <2>3, <2>4
  <1>6. log' \in Seq(EventType)
    BY <1>5, LogTyped DEF Typed
  <1> QED BY <1>5, <1>6

LEMMA ExecTypes ==
  ASSUME Typed, Path, Forward \/ Fails \/ Enters \/ Rescues \/ Cleans \/ Returns
  PROVE  Typed'
  <1>0. Quiet
    BY DEF Forward, Fails, Enters, Rescues, Cleans, Returns
  <1>s. /\ stack \in Seq(FrameType) /\ Len(stack) \in Nat /\ Len(stack) > 0 /\ stack # << >>
        /\ \A k \in DOMAIN stack : /\ stack[k].sec = "play" <=> k = Len(stack)
                                   /\ stack[k].failed => stack[k].todo = << >>
                                   /\ stack[k].env.hosts # << >>
    BY <1>0, ExecIs DEF Typed, TypeOK, Quiet
  <1>d. DOMAIN stack = 1 .. Len(stack)
    BY <1>s
  <1>1. stack' \in Seq(FrameType) /\ stack' # << >> /\ Sound(stack')
    <2> USE DEF Sound
    <2>1. CASE Forward
      <3>1. /\ stack' \in Seq(FrameType) /\ Len(stack') = Len(stack)
            /\ Kept(stack'[1], stack[1]) /\ ~ stack'[1].failed
            /\ \A k \in 2 .. Len(stack) : stack'[k] = stack[k]
        BY <2>1, ForwardStack
      <3>2. DOMAIN stack' = 1 .. Len(stack) /\ stack' # << >>
        BY <1>s, <3>1
      <3> QED BY <1>s, <1>d, <3>1, <3>2 DEF Kept
    <2>2. CASE Fails
      <3>1. /\ stack' \in Seq(FrameType) /\ Len(stack') = Len(stack)
            /\ Kept(stack'[1], stack[1]) /\ stack'[1].todo = << >>
            /\ \A k \in 2 .. Len(stack) : stack'[k] = stack[k]
        BY <2>2, FailsStack
      <3>2. DOMAIN stack' = 1 .. Len(stack) /\ stack' # << >>
        BY <1>s, <3>1
      <3> QED BY <1>s, <1>d, <3>1, <3>2 DEF Kept
    <2>3. CASE Enters
      <3>1. /\ stack' \in Seq(FrameType) /\ Len(stack') = Len(stack) + 1
            /\ stack'[1] = MainFrame(This, ThisEnv)
            /\ Kept(stack'[2], stack[1]) /\ ~ stack'[2].failed
            /\ \A k \in 3 .. Len(stack) + 1 : stack'[k] = stack[k - 1]
        BY <2>3, EntersStack
      <3>2. DOMAIN stack' = 1 .. Len(stack) + 1 /\ stack' # << >>
        BY <1>s, <3>1
      <3>3. /\ stack'[1].sec \in {"role", "main"} /\ ~ stack'[1].failed
            /\ stack'[1].env.hosts # << >>
        BY <2>3, <3>1, WorkingIs DEF Enters, MainFrame, Frame
      <3>4. ASSUME NEW k \in 3 .. Len(stack) + 1
            PROVE  k - 1 \in DOMAIN stack /\ (k - 1 = Len(stack) <=> k = Len(stack) + 1)
        BY <1>s
      <3>5. ASSUME NEW k \in DOMAIN stack'
            PROVE  /\ stack'[k].sec = "play" <=> k = Len(stack')
                   /\ stack'[k].failed => stack'[k].todo = << >>
                   /\ stack'[k].env.hosts # << >>
        <4>1. CASE k = 1
          BY <1>s, <3>1, <3>3, <4>1
        <4>2. CASE k = 2
          BY <1>s, <1>d, <3>1, <4>2 DEF Kept
        <4>3. CASE k \in 3 .. Len(stack) + 1
          BY <1>s, <3>1, <3>4, <4>3
        <4> QED BY <1>s, <3>2, <4>1, <4>2, <4>3
      <3> QED BY <3>1, <3>2, <3>5
    <2>4. CASE Rescues \/ Cleans
      <3>1. /\ stack' \in Seq(FrameType) /\ Len(stack') = Len(stack)
            /\ stack'[1].sec # "play" /\ stack'[1].env = Top.env /\ ~ stack'[1].failed
            /\ \A k \in 2 .. Len(stack) : stack'[k] = stack[k]
        BY <2>4, RescuesStack, CleansStack
      <3>2. DOMAIN stack' = 1 .. Len(stack) /\ stack' # << >>
        BY <1>s, <3>1
      <3>3. Top.sec # "play" /\ Top = stack[1]
        BY <2>4 DEF Rescues, Cleans, Ending, Top
      <3> QED BY <1>s, <1>d, <3>1, <3>2, <3>3
    <2>5. CASE Returns
      <3>1. /\ stack' \in Seq(FrameType) /\ Len(stack') = Len(stack) - 1
            /\ Kept(stack'[1], stack[2])
            /\ (stack'[1].failed /\ stack'[1].todo = << >>) \/ stack'[1] = stack[2]
            /\ \A k \in 2 .. Len(stack) - 1 : stack'[k] = stack[k + 1]
        BY <2>5, ReturnsStack
      <3>2. 2 \in DOMAIN stack
        BY <2>5, EndingIs DEF Returns
      <3>3. DOMAIN stack' = 1 .. Len(stack) - 1 /\ stack' # << >>
        BY <1>s, <1>d, <3>1, <3>2
      <3>4. ASSUME NEW k \in 2 .. Len(stack) - 1
            PROVE  k + 1 \in DOMAIN stack /\ (k + 1 = Len(stack) <=> k = Len(stack) - 1)
        BY <1>s
      <3>5. ASSUME NEW k \in DOMAIN stack'
            PROVE  /\ stack'[k].sec = "play" <=> k = Len(stack')
                   /\ stack'[k].failed => stack'[k].todo = << >>
                   /\ stack'[k].env.hosts # << >>
        <4>1. CASE k = 1
          BY <1>s, <3>1, <3>2, <4>1 DEF Kept
        <4>2. CASE k \in 2 .. Len(stack) - 1
          BY SMTT(30), <1>s, <3>1, <3>4, <4>2
        <4> QED BY <1>s, <3>3, <4>1, <4>2
      <3> QED BY <3>1, <3>3, <3>5
    <2> QED BY <2>1, <2>2, <2>3, <2>4, <2>5
  <1>2. log' \in Seq(EventType)
    BY ExecLog
  <1> QED BY <1>0, <1>1, <1>2 DEF Typed, TypeOK, Quiet, Sound

-----------------------------------------------------------------------------
(* The stack is a path in the project *)

\* A new frame executes its own list.
LEMMA NewFits ==
  ASSUME NEW f \in FrameType, f.node \in Node, f.sec # "play",
         f.sec = "role" <=> Tree[f.node].kind = "role",
         f.todo = SectionList(f.node, Section(f)[2]),
         f.errs => f.sec = "always"
  PROVE  FrameFits(f)
  <1> DEFINE b == f.node
             s == Section(f)[2]
  <1>1. Section(f) = <<b, s>> /\ s \in {"main", "rescue", "always"}
    BY DEF Section, FrameType
  <1>2. ASSUME NEW k \in DOMAIN f.todo PROVE In(f.todo[k], f)
    <2>1. SectionList(b, s)[k] \in Node /\ SectionOf[SectionList(b, s)[k]] = {<<b, s>>}
      <3> HIDE DEF s
      <3> QED BY <1>1, Listed DEF s
    <2> QED BY <1>1, <2>1 DEF In
  <1> QED BY <1>2 DEF FrameFits

LEMMA InitPath == Init => Path
  BY DEF Init, Path

\* The path stays where the frames below the top stay and the nodes are the same.
LEMMA PathSame ==
  ASSUME Typed, Path, pc = "exec", stack' \in Seq(FrameType), Len(stack') = Len(stack),
         FrameFits(stack'[1]), stack'[1].node = stack[1].node,
         \A k \in 2 .. Len(stack) : stack'[k] = stack[k]
  PROVE  Path'
  <1>0. Len(stack) \in Nat /\ Len(stack) > 0 /\ DOMAIN stack = 1 .. Len(stack) /\ DOMAIN stack' = 1 .. Len(stack)
    BY ExecIs
  <1>1. \A k \in 1 .. Len(stack) : stack'[k].node = stack[k].node
    BY <1>0
  <1>2. \A k \in DOMAIN stack' : FrameFits(stack'[k])
    BY <1>0 DEF Path
  <1>3. ASSUME NEW k \in DOMAIN stack', k + 1 \in DOMAIN stack' PROVE In(stack'[k].node, stack'[k + 1])
    <2>1. k + 1 \in 2 .. Len(stack)
      BY <1>0, <1>3
    <2> QED BY <1>0, <1>1, <1>3, <2>1 DEF Path
  <1>4. \A k, m \in DOMAIN stack' :
          k <= m /\ m # Len(stack') => stack'[m].node \in Enclosing[stack'[k].node]
    BY <1>0, <1>1 DEF Path
  <1> QED BY <1>2, <1>3, <1>4 DEF Path

LEMMA EntersPath ==
  ASSUME Typed, Path, Enters
  PROVE  Path'
  <1> DEFINE f == MainFrame(This, ThisEnv)
             n == Len(stack)
  <1>0. pc = "exec" /\ n \in Nat /\ n > 0 /\ DOMAIN stack = 1 .. n /\ (Top.sec = "play" <=> n = 1)
    BY ExecIs DEF Enters, Quiet
  <1>1. /\ stack' \in Seq(FrameType) /\ Len(stack') = n + 1 /\ DOMAIN stack' = 1 .. n + 1
        /\ stack'[1] = f /\ f \in FrameType /\ Kept(stack'[2], stack[1])
        /\ \A k \in 3 .. n + 1 : stack'[k] = stack[k - 1]
    BY EntersStack
  <1>2. This \in Node /\ In(This, Top) /\ Tree[This] \in NodeRecord /\ Tree[This].kind \in {"block", "role"}
    BY WorkingIs DEF Enters
  <1>3. /\ f.sec = IF Tree[This].kind = "role" THEN "role" ELSE "main"
        /\ f.node = This /\ f.todo = Tree[This].main /\ ~ f.errs
    BY DEF MainFrame, Frame
  <1> HIDE DEF f, n
  <1>4. FrameFits(f)
    BY <1>1, <1>2, <1>3, NewFits DEF Section, SectionList
  <1>5. \A k \in 2 .. n + 1 : Kept(stack'[k], stack[k - 1])
    <2>1. \A k \in 3 .. n + 1 : k - 1 \in DOMAIN stack
      BY <1>0
    <2>2. \A k \in 3 .. n + 1 : Kept(stack'[k], stack[k - 1])
      BY <1>0, <1>1, <2>1, ExecIs, KeptIs
    <2>3. ASSUME NEW k \in 2 .. n + 1 PROVE Kept(stack'[k], stack[k - 1])
      <3>1. CASE k = 2
        BY <1>1, <3>1
      <3>2. CASE k \in 3 .. n + 1
        BY <2>2, <3>2
      <3> QED BY <1>0, <3>1, <3>2
    <2> QED BY <2>3
  <1>6. \A k \in 2 .. n + 1 : k - 1 \in DOMAIN stack
    BY <1>0
  <1>7. \A k \in 2 .. n + 1 : /\ FrameFits(stack'[k]) /\ stack'[k].node = stack[k - 1].node
                              /\ \A m : In(m, stack'[k]) <=> In(m, stack[k - 1])
    BY SMTT(30), <1>5, <1>6, KeptFits DEF Path, Kept
  <1>8. \A k \in DOMAIN stack' : FrameFits(stack'[k])
    <2> SUFFICES ASSUME NEW k \in 1 .. n + 1 PROVE FrameFits(stack'[k])
      BY <1>1
    <2>1. CASE k = 1
      BY <1>1, <1>4, <2>1
    <2>2. CASE k \in 2 .. n + 1
      BY <1>7, <2>2
    <2> QED BY <1>0, <2>1, <2>2
  <1>9. ASSUME NEW k \in DOMAIN stack', k + 1 \in DOMAIN stack' PROVE In(stack'[k].node, stack'[k + 1])
    <2>1. k \in 1 .. n /\ k + 1 \in 2 .. n + 1 /\ (k + 1) - 1 = k
      BY <1>0, <1>1, <1>9
    <2>2. CASE k = 1
      BY <1>1, <1>2, <1>3, <1>7, <2>1, <2>2 DEF Top
    <2>3. CASE k \in 2 .. n
      <3>1. k \in 2 .. n + 1 /\ k - 1 \in DOMAIN stack /\ (k - 1) + 1 = k /\ k \in DOMAIN stack
        BY <1>0, <2>3
      <3>2. In(stack[k - 1].node, stack[k])
        BY <3>1 DEF Path
      <3> QED BY <1>7, <2>1, <3>1, <3>2
    <2> QED BY <1>0, <2>1, <2>2, <2>3
  <1>10. ASSUME NEW k \in DOMAIN stack', NEW m \in DOMAIN stack', k <= m, m # Len(stack')
         PROVE  stack'[m].node \in Enclosing[stack'[k].node]
    <2>1. k \in 1 .. n + 1 /\ m \in 1 .. n
      BY <1>0, <1>1, <1>10
    <2>2. CASE m = 1
      BY <1>0, <1>1, <1>2, <1>3, <1>10, <2>1, <2>2, ExecIs, EnclosesIn
    <2>3. CASE m \in 2 .. n /\ k = 1
      <3>1. m - 1 \in DOMAIN stack /\ 1 \in DOMAIN stack /\ 1 <= m - 1 /\ m - 1 # n /\ m \in 2 .. n + 1
        BY <1>0, <2>3
      <3>2. stack[m - 1].node \in Enclosing[Top.node]
        BY <3>1 DEF Path, Top, n
      <3>3. Enclosing[Top.node] \subseteq Enclosing[This]
        BY <1>0, <1>2, <3>1, ExecIs, EnclosesIn
      <3> QED BY <1>1, <1>3, <1>7, <2>3, <3>1, <3>2, <3>3
    <2>4. CASE m \in 2 .. n /\ k \in 2 .. n
      <3>1. /\ m - 1 \in DOMAIN stack /\ k - 1 \in DOMAIN stack /\ k - 1 <= m - 1 /\ m - 1 # n
            /\ m \in 2 .. n + 1 /\ k \in 2 .. n + 1
        BY <1>0, <1>10, <2>4
      <3>2. stack[m - 1].node \in Enclosing[stack[k - 1].node]
        BY <3>1 DEF Path, n
      <3> QED BY <1>7, <3>1, <3>2
    <2> QED BY <1>0, <1>10, <2>1, <2>2, <2>3, <2>4
  <1> QED BY <1>8, <1>9, <1>10 DEF Path

LEMMA ReturnsPath ==
  ASSUME Typed, Path, Returns
  PROVE  Path'
  <1> DEFINE n == Len(stack)
  <1>0. pc = "exec" /\ n \in Nat /\ n >= 2 /\ DOMAIN stack = 1 .. n
    BY EndingIs, ExecIs DEF Returns, Ending
  <1>1. /\ stack' \in Seq(FrameType) /\ Len(stack') = n - 1 /\ DOMAIN stack' = 1 .. n - 1
        /\ Kept(stack'[1], stack[2])
        /\ \A k \in 2 .. n - 1 : stack'[k] = stack[k + 1]
    <2>1. /\ stack' \in Seq(FrameType) /\ Len(stack') = n - 1 /\ Kept(stack'[1], stack[2])
          /\ \A k \in 2 .. n - 1 : stack'[k] = stack[k + 1]
      BY ReturnsStack
    <2>2. DOMAIN stack' = 1 .. n - 1
      BY <2>1
    <2> QED BY <2>1, <2>2
  <1> HIDE DEF n
  <1>2. \A k \in 1 .. n - 1 : k + 1 \in DOMAIN stack
    BY <1>0
  <1>3. \A k \in 1 .. n - 1 : Kept(stack'[k], stack[k + 1])
    <2> SUFFICES ASSUME NEW k \in 1 .. n - 1 PROVE Kept(stack'[k], stack[k + 1])
      OBVIOUS
    <2>1. CASE k = 1
      BY <1>1, <2>1
    <2>2. CASE k \in 2 .. n - 1
      BY <1>0, <1>1, <1>2, <2>2, ExecIs, KeptIs
    <2> QED BY <1>0, <2>1, <2>2
  <1>4. \A k \in 1 .. n - 1 : /\ FrameFits(stack'[k]) /\ stack'[k].node = stack[k + 1].node
                              /\ \A m : In(m, stack'[k]) <=> In(m, stack[k + 1])
    <2> SUFFICES ASSUME NEW k \in 1 .. n - 1
                 PROVE  /\ FrameFits(stack'[k]) /\ stack'[k].node = stack[k + 1].node
                        /\ \A m : In(m, stack'[k]) <=> In(m, stack[k + 1])
      OBVIOUS
    <2>1. Kept(stack'[k], stack[k + 1]) /\ FrameFits(stack[k + 1])
      BY <1>2, <1>3 DEF Path
    <2> QED BY <2>1, KeptFits DEF Kept
  <1>5. ASSUME NEW k \in DOMAIN stack', k + 1 \in DOMAIN stack' PROVE In(stack'[k].node, stack'[k + 1])
    <2>1. k \in 1 .. n - 1 /\ k + 1 \in 1 .. n - 1 /\ k + 1 \in DOMAIN stack /\ (k + 1) + 1 \in DOMAIN stack
      BY <1>0, <1>1, <1>5
    <2>2. In(stack[k + 1].node, stack[(k + 1) + 1])
      BY <2>1 DEF Path
    <2> QED BY <1>4, <2>1, <2>2
  <1>6. ASSUME NEW k \in DOMAIN stack', NEW m \in DOMAIN stack', k <= m, m # Len(stack')
        PROVE  stack'[m].node \in Enclosing[stack'[k].node]
    <2>1. /\ k \in 1 .. n - 1 /\ m \in 1 .. n - 1 /\ k + 1 \in DOMAIN stack /\ m + 1 \in DOMAIN stack
          /\ k + 1 <= m + 1 /\ m + 1 # n
      BY SMTT(30), <1>0, <1>1, <1>6
    <2>2. stack[m + 1].node \in Enclosing[stack[k + 1].node]
      BY <2>1 DEF Path, n
    <2> QED BY <1>4, <2>1, <2>2
  <1> QED BY <1>1, <1>4, <1>5, <1>6 DEF Path

LEMMA ExecPath ==
  ASSUME Typed, Path, Forward \/ Fails \/ Enters \/ Rescues \/ Cleans \/ Returns
  PROVE  Path'
  <1>0. pc = "exec" /\ 1 \in DOMAIN stack /\ Top = stack[1]
    BY ExecIs DEF Forward, Fails, Enters, Rescues, Cleans, Returns, Quiet, Top
  <1>1. CASE Forward
    BY <1>0, <1>1, ForwardStack, ExecIs, KeptFits, PathSame DEF Kept
  <1>2. CASE Fails
    BY <1>0, <1>2, FailsStack, ExecIs, KeptFits, PathSame DEF Kept
  <1>3. CASE Rescues
    <2>1. FrameFits(Top) /\ Top.node \in Node /\ Top.sec = "main"
      BY <1>0, <1>3, ExecIs, EndingIs DEF Rescues, Rescued
    <2>2. FrameFits(stack'[1])
      BY <1>3, <2>1, RescuesStack, NewFits DEF Section, SectionList, FrameFits
    <2> QED BY <1>0, <1>3, <2>2, RescuesStack, PathSame
  <1>4. CASE Cleans
    <2>1. FrameFits(Top) /\ Top.node \in Node /\ Top.sec \in {"main", "rescue"}
      BY <1>0, <1>4, ExecIs, EndingIs DEF Cleans, IsCleaned
    <2>2. FrameFits(stack'[1])
      BY <1>4, <2>1, CleansStack, NewFits DEF Section, SectionList, FrameFits
    <2> QED BY <1>0, <1>4, <2>2, CleansStack, PathSame
  <1> QED BY <1>1, <1>2, <1>3, <1>4, EntersPath, ReturnsPath

-----------------------------------------------------------------------------
(* All steps *)

\* Before, between and after the batches.
Between ==
  /\ pc # "exec" /\ pc' # "exec" /\ stack' = stack /\ batch' = batch
  /\ UNCHANGED phase \/ phase = "Running"
  /\ \/ log' = log
     \/ pc = "play" /\ \E h \in Seq(STRING) : log' = Append(log, Event("play", "none", h))

\* The frame a batch starts with, and its event.
PlayFrame == Frame("play", "none", PlayOrder(Plays[play]),
                   Env(Head(batches), Plays[play].ignore, Plays[play].tags, {}), FALSE)
BatchEvent == [Event("batch", "none", Head(batches)) EXCEPT !.batch = @ + 1]

\* Nothing but the cancellation changes.
Idle == UNCHANGED <<pc, play, hosts, batches, batch, stack, phase, stored, log>>

Executes == Forward \/ Fails \/ Enters \/ Rescues \/ Cleans \/ Returns

LEMMA BetweenIs ==
  ASSUME Typed, Load \/ DealHosts \/ GatherFacts \/ DealSerial \/ EndPlay \/ EndPlaybook \/ SyncStatus
  PROVE  Between
  <1> USE DEF Between, Finish
  <1>1. CASE Load
    BY <1>1 DEF Load, Typed
  <1>2. CASE DealHosts
    <2>1. Plays[play] \in PlayRecord
      BY <1>2, Constants DEF DealHosts, Typed, TypeOK
    <2>2. PICK h \in Plays[play].hosts :
            \/ h = << >> /\ SkipPlay /\ UNCHANGED <<hosts, log>>
            \/ /\ h # << >> /\ hosts' = h
               /\ pc' = IF Plays[play].gather THEN "gather" ELSE "serial"
               /\ log' = Append(log, Event("play", "none", h))
               /\ UNCHANGED play
      BY <1>2 DEF DealHosts
    <2>3. h \in Seq(STRING)
      BY <2>1 DEF PlayRecord
    <2>4. /\ pc = "play" /\ pc' # "exec"
          /\ log' = log \/ log' = Append(log, Event("play", "none", h))
      BY <1>2, <2>2 DEF DealHosts, SkipPlay, NextPlay
    <2> QED BY <1>2, <2>3, <2>4 DEF DealHosts
  <1>3. CASE GatherFacts
    BY <1>3 DEF GatherFacts, Typed
  <1>4. CASE DealSerial
    <2>1. GroupHostBySerial(hosts, Plays[play].serial).kind \in {"ok", "error", "panic"}
      BY DEF GroupHostBySerial, Batches, SerialError, SerialPanic
    <2>2. pc' \in {"batch", "sync", "crashed"} /\ (phase' = phase \/ phase = "Running")
      BY <1>4, <2>1 DEF DealSerial, Typed
    <2> QED BY <1>4, <2>2 DEF DealSerial
  <1>5. CASE EndPlay
    BY <1>5 DEF EndPlay, NextPlay
  <1>6. CASE EndPlaybook
    BY <1>6 DEF EndPlaybook, Typed
  <1>7. CASE SyncStatus
    BY <1>7 DEF SyncStatus
  <1> QED BY <1>1, <1>2, <1>3, <1>4, <1>5, <1>6, <1>7

\* The start of a batch, or of the end because it cannot be.
LEMMA StartIs ==
  ASSUME Typed, StartBatch
  PROVE  /\ pc = "batch" /\ stack = << >> /\ phase = "Running" /\ batch' = batch + 1 /\ play' = play
         /\ play \in DOMAIN Plays /\ batches # << >> /\ batches' = Tail(batches) /\ hosts' = hosts
         /\ \/ pc' = "sync" /\ stack' = stack /\ log' = log
            \/ /\ pc' = "exec" /\ phase' = phase
               /\ stack' = <<PlayFrame>> /\ log' = Append(log, BatchEvent)
         /\ PlayFrame \in FrameType /\ FrameFits(PlayFrame) /\ ~ PlayFrame.failed /\ ~ PlayFrame.errs
         /\ PlayFrame.sec = "play" /\ PlayFrame.node = "none"
         /\ BatchEvent \in EventType /\ BatchEvent.what = "batch" /\ BatchEvent.node = "none"
         /\ BatchEvent.batch = batch + 1 /\ BatchEvent.play = play /\ BatchEvent.hosts = Head(batches)
  <1>1. /\ pc = "batch" /\ stack = << >> /\ phase = "Running" /\ batch' = batch + 1 /\ play' = play
        /\ play \in DOMAIN Plays /\ batches # << >> /\ batches' = Tail(batches) /\ hosts' = hosts
    BY DEF StartBatch, Typed, TypeOK
  <1>2. \/ pc' = "sync" /\ stack' = stack /\ log' = log
        \/ /\ pc' = "exec" /\ phase' = phase
           /\ stack' = <<PlayFrame>> /\ log' = Append(log, BatchEvent)
    BY DEF StartBatch, Finish, PlayFrame, BatchEvent
  <1>3. Plays[play] \in PlayRecord /\ Len(Plays) \in Nat
    BY <1>1, Constants
  <1> DEFINE h == Head(batches)
             env == Env(h, Plays[play].ignore, Plays[play].tags, {})
             list == PlayOrder(Plays[play])
  <1>4. h \in Seq(STRING) /\ batch + 1 \in Nat /\ play \in Nat
    BY <1>1, <1>3 DEF Typed, TypeOK
  <1>5. env \in EnvType
    BY <1>3, <1>4 DEF PlayRecord, Env, EnvType
  <1>6. list \in Seq(Node) /\ \A k \in DOMAIN list : SectionOf[list[k]] = {}
    BY <1>1, PlayList
  <1> HIDE DEF env, list, h
  <1>7. PlayFrame = Frame("play", "none", list, env, FALSE)
    BY DEF PlayFrame, env, list, h
  <1>8. /\ PlayFrame \in FrameType
        /\ PlayFrame.sec = "play" /\ PlayFrame.node = "none" /\ PlayFrame.todo = list
        /\ ~ PlayFrame.failed /\ ~ PlayFrame.errs
    BY <1>5, <1>6, <1>7, FrameTyped DEF Frame
  <1>9. \A k \in DOMAIN list : list[k] \in Node
    BY <1>6
  <1>10. FrameFits(PlayFrame)
    BY <1>6, <1>8, <1>9 DEF FrameFits, In
  <1>11. BatchEvent = [what |-> "batch", node |-> "none", play |-> play, batch |-> batch + 1, hosts |-> h]
    BY DEF BatchEvent, Event, h
  <1>12. /\ BatchEvent \in EventType /\ BatchEvent.what = "batch" /\ BatchEvent.node = "none"
         /\ BatchEvent.batch = batch + 1 /\ BatchEvent.play = play /\ BatchEvent.hosts = h
    BY <1>4, <1>11 DEF EventType
  <1> QED BY <1>1, <1>2, <1>8, <1>10, <1>12 DEF h

LEMMA Steps ==
  ASSUME Typed, Path, [Next]_vars
  PROVE  Executes \/ EndBatch \/ StartBatch \/ Between \/ Idle
  <1>1. CASE Step
    BY <1>1, ExecSteps, BetweenIs DEF Step, Executes
  <1>2. CASE Cancel \/ Terminated \/ UNCHANGED vars
    BY <1>2 DEF Cancel, Terminated, vars, Idle
  <1> QED BY <1>1, <1>2 DEF Next

LEMMA TypedStep ==
  ASSUME Typed, Path, [Next]_vars
  PROVE  Typed'
  <1>1. CASE MergeFails \/ Enter \/ SkipInclude \/ SkipTask \/ TaskSkipped \/ TaskRuns \/ TaskAborted
               \/ EndList
    BY <1>1, ExecSteps, ExecTypes
  <1>2. CASE Cancel \/ Terminated \/ UNCHANGED vars
    BY <1>2 DEF Cancel, Terminated, vars, Typed, TypeOK
  <1> QED BY <1>1, <1>2, DealTypes, BatchTypes DEF Next, Step

LEMMA PathStep ==
  ASSUME Typed, Path, [Next]_vars
  PROVE  Path'
  <1>1. CASE Executes
    BY <1>1, ExecPath DEF Executes
  <1>2. CASE EndBatch
    BY <1>2 DEF EndBatch, Path
  <1>3. CASE StartBatch
    <2>1. CASE stack' = stack
      BY <2>1 DEF Path
    <2>2. CASE stack' = <<PlayFrame>>
      <3>1. DOMAIN stack' = {1} /\ Len(stack') = 1 /\ stack'[1] = PlayFrame
        BY <2>2
      <3> HIDE DEF PlayFrame
      <3> QED BY <1>3, <3>1, StartIs DEF Path
    <2> QED BY <1>3, <2>1, <2>2, StartIs
  <1>4. CASE Between \/ Idle
    BY <1>4 DEF Between, Idle, Path
  <1> QED BY <1>1, <1>2, <1>3, <1>4, Steps

\* The types are right and the stack is a path, always.
Shaped == Typed /\ Path

LEMMA ShapedAlways == Spec => []Shaped
  <1>1. Init => Shaped
    BY InitTyped, InitPath DEF Shaped
  <1>2. Shaped /\ [Next]_vars => Shaped'
    BY TypedStep, PathStep DEF Shaped
  <1> QED BY <1>1, <1>2, PTL DEF Spec

\* The stack of executors is there exactly while a batch is executed, innermost frame
\* first and the frame of the play last; and every frame has hosts.
THEOREM TypeCorrect == Spec => []TypeOK
  <1>1. Shaped => TypeOK
    BY DEF Shaped, Typed
  <1> QED BY <1>1, ShapedAlways, PTL

-----------------------------------------------------------------------------
(* The history *)

\* The history only grows, by one event at a time: e is it, if there is one.
Grows(e) == /\ log' = Append(log, e) /\ e \in EventType
            /\ Len(log') = Len(log) + 1 /\ log'[Len(log) + 1] = e
            /\ \A k \in 1 .. Len(log) : log'[k] = log[k]

LEMMA GrowsIs ==
  ASSUME Typed, NEW e \in EventType, log' = Append(log, e)
  PROVE  Grows(e)
  BY AppendIs DEF Grows, Typed

\* What the new event is, for each kind of step.
Noted(e) ==
    \/ e.what = "play" /\ Between /\ pc = "play"
    \/ StartBatch /\ e = BatchEvent /\ pc' = "exec"
    \/ Forward /\ e.what \in {"ran", "ignored"} /\ e.node = This /\ e.batch = batch
    \/ Fails /\ e.what \in {"failed", "aborted"} /\ e.node = This /\ e.batch = batch
    \/ Enters /\ e.what = "main" /\ e.node = This /\ e.batch = batch
    \/ Rescues /\ e.what = "rescue" /\ e.node = Top.node /\ e.batch = batch
    \/ Cleans /\ e.what = "always" /\ e.node = Top.node /\ e.batch = batch

LEMMA NewEvent ==
  ASSUME Typed, Path, [Next]_vars
  PROVE  \/ log' = log /\ ~ (Fails \/ Enters \/ Rescues \/ Cleans)
         \/ \E e : Grows(e) /\ Noted(e)
  <1>0. play \in Nat /\ batch \in Nat
    BY Constants DEF Typed, TypeOK
  <1>e. ASSUME NEW w \in {"play", "main", "rescue", "always", "ran", "ignored", "failed", "aborted"},
               NEW n \in Node \cup {"none"}, NEW h \in Seq(STRING),
               log' = Append(log, Event(w, n, h))
        PROVE  /\ Grows(Event(w, n, h))
               /\ Event(w, n, h).what = w /\ Event(w, n, h).node = n /\ Event(w, n, h).batch = batch
    <2>1. Event(w, n, h) \in EventType
      BY <1>0 DEF Event, EventType
    <2>2. Event(w, n, h).what = w /\ Event(w, n, h).node = n /\ Event(w, n, h).batch = batch
      BY DEF Event
    <2> QED BY <1>e, <2>1, <2>2, GrowsIs
  <1>1. CASE Forward
    <2>1. CASE log' = log
      BY <1>1, <2>1 DEF Forward, Fails, Enters, Rescues, Cleans, Logs, Ending, Working, Typed
    <2>2. CASE \E w \in {"ran", "ignored"}, h \in Seq(STRING) : Logs(w, This, h)
      <3>1. PICK w \in {"ran", "ignored"}, h \in Seq(STRING) : Logs(w, This, h)
        BY <2>2
      <3>2. This \in Node
        BY <1>1, WorkingIs DEF Forward
      <3> QED BY <1>1, <1>e, <3>1, <3>2 DEF Logs, Noted
    <2> QED BY <1>1, <2>1, <2>2 DEF Forward
  <1>2. CASE Fails
    <2>1. PICK w \in {"failed", "aborted"}, h \in Seq(STRING) : Logs(w, This, h)
      BY <1>2 DEF Fails
    <2>2. This \in Node
      BY <1>2, WorkingIs DEF Fails
    <2> QED BY <1>2, <1>e, <2>1, <2>2 DEF Logs, Noted
  <1>3. CASE Enters
    <2>1. This \in Node /\ ThisEnv.hosts \in Seq(STRING)
      BY <1>3, WorkingIs DEF Enters, EnvType
    <2> QED BY <1>3, <1>e, <2>1 DEF Logs, Enters, Noted
  <1>4. CASE Rescues \/ Cleans
    <2>1. pc = "exec" /\ Ending
      BY <1>4 DEF Rescues, Cleans, Ending
    <2>2. Top.node \in Node /\ Top.env.hosts \in Seq(STRING)
      BY <2>1, EndingIs, ExecIs DEF EnvType
    <2>3. CASE Rescues
      BY <1>e, <2>2, <2>3 DEF Logs, Rescues, Noted
    <2>4. CASE Cleans
      <3>1. log' = Append(log, Event("always", Top.node, Top.env.hosts))
        BY <2>4 DEF Logs, Cleans
      <3>2. LET e == Event("always", Top.node, Top.env.hosts)
            IN  Grows(e) /\ e.what = "always" /\ e.node = Top.node /\ e.batch = batch
        BY <1>e, <2>2, <3>1
      <3> QED BY <2>4, <3>2 DEF Noted
    <2> QED BY <1>4, <2>3, <2>4
  <1>6. CASE ~ (Fails \/ Enters \/ Rescues \/ Cleans) /\ ~ Forward
    <2>1. CASE Returns \/ EndBatch \/ Idle
      BY <1>6, <2>1 DEF Returns, EndBatch, Idle
    <2>2. CASE StartBatch
      <3>1. log' = log \/ (pc' = "exec" /\ log' = Append(log, BatchEvent) /\ BatchEvent \in EventType)
        BY <2>2, StartIs
      <3>2. CASE log' = log
        BY <1>6, <3>2
      <3>3. CASE pc' = "exec" /\ log' = Append(log, BatchEvent) /\ BatchEvent \in EventType
        BY <2>2, <3>3, GrowsIs DEF Noted
      <3> QED BY <3>1, <3>2, <3>3
    <2>3. CASE Between
      <3>1. CASE log' = log
        BY <1>6, <3>1
      <3>2. CASE log' # log
        <4>1. PICK h \in Seq(STRING) : log' = Append(log, Event("play", "none", h))
          BY <2>3, <3>2 DEF Between
        <4>2. Grows(Event("play", "none", h)) /\ Event("play", "none", h).what = "play"
          BY <1>e, <4>1
        <4> QED BY <2>3, <3>2, <4>2 DEF Between, Noted
      <3> QED BY <3>1, <3>2
    <2> QED BY <1>6, <2>1, <2>2, <2>3, Steps DEF Executes
  <1> QED BY <1>1, <1>2, <1>3, <1>4, <1>6

-----------------------------------------------------------------------------
(* Every failure has its consequence *)

LEMMA InitHeard == Init => Heard
  BY DEF Init, Heard

\* A failure on the list of f is one of f.
LEMMA HandOver ==
  ASSUME NEW f \in FrameType, FrameFits(f), NEW n, In(n, f), NEW S \in FailedSections[n],
         NEW g, Kept(g, f), g.failed
  PROVE  Lost(S, g)
  <1>1. S = Section(f) \/ (Passes(f) /\ S \in FailedSections[f.node])
    BY FailsIn
  <1>2. Section(g) = Section(f) /\ (Passes(g) <=> Passes(f)) /\ g.node = f.node
    BY KeptFits DEF Kept
  <1> QED BY <1>1, <1>2 DEF Lost

LEMMA LostKept ==
  ASSUME NEW f, NEW g, Kept(g, f), FrameFits(f), f.failed => g.failed, NEW S, Lost(S, f)
  PROVE  Lost(S, g)
  BY KeptFits DEF Lost, Kept

\* The sections with a consequence are those of blocks with rescue, and the play.
LEMMA TargetIs ==
  ASSUME NEW S \in Targets, NEW f \in FrameType, FrameFits(f), f.sec # "play", f.failed,
         Section(f) = S
  PROVE  Rescued(f) /\ S = <<f.node, "main">> /\ S # Root
  <1>1. Section(f) = <<f.node, IF f.sec = "role" THEN "main" ELSE f.sec>>
    BY DEF Section
  <1>2. S # Root
    BY <1>1 DEF Root, FrameType
  <1>3. PICK b \in Node : Rescuer(b) /\ S = <<b, "main">>
    BY <1>2 DEF Targets
  <1> DEFINE s == IF f.sec = "role" THEN "main" ELSE f.sec
  <1>p. ASSUME NEW x, <<f.node, x>> = <<b, "main">> PROVE f.node = b /\ x = "main"
    BY <1>p
  <1>4. f.node = b /\ f.sec \in {"role", "main"}
    <2>1. <<f.node, s>> = <<b, "main">>
      BY <1>1, <1>3
    <2> HIDE DEF s
    <2>2. f.node = b /\ s = "main"
      BY <2>1, <1>p
    <2> QED BY <2>2 DEF s
  <1>5. f.sec = "main"
    BY <1>3, <1>4 DEF FrameFits, Rescuer
  <1> QED BY <1>2, <1>3, <1>4, <1>5 DEF Rescued, Rescuer

\* An error goes up the stack, until it is rescued.
LEMMA GoesUp ==
  ASSUME Typed, Path, Executes, NEW S \in Targets, NEW k \in DOMAIN stack, Lost(S, stack[k])
  PROVE  \/ \E m \in DOMAIN stack' : Lost(S, stack'[m])
         \/ Rescues /\ S = <<Top.node, "main">> /\ S # Root
  <1>0. pc = "exec"
    BY DEF Executes, Forward, Fails, Enters, Rescues, Cleans, Returns, Quiet
  <1>1. /\ Len(stack) \in Nat /\ Len(stack) > 0 /\ DOMAIN stack = 1 .. Len(stack)
        /\ \A m \in DOMAIN stack : stack[m] \in FrameType /\ FrameFits(stack[m])
        /\ Top = stack[1]
    BY <1>0, ExecIs DEF Top
  <1>2. CASE Forward
    <2>1. /\ stack' \in Seq(FrameType) /\ Len(stack') = Len(stack)
          /\ Kept(stack'[1], stack[1])
          /\ \A m \in 2 .. Len(stack) : stack'[m] = stack[m]
      BY <1>2, ForwardStack
    <2>2. ~ stack[1].failed
      BY <1>1, <1>2, WorkingIs DEF Forward
    <2>3. k \in DOMAIN stack'
      BY <1>1, <2>1
    <2>4. CASE k = 1
      BY <1>1, <2>1, <2>2, <2>3, <2>4, LostKept
    <2>5. CASE k \in 2 .. Len(stack)
      BY <2>1, <2>3, <2>5
    <2> QED BY <1>1, <2>4, <2>5
  <1>3. CASE Fails
    <2>1. /\ stack' \in Seq(FrameType) /\ Len(stack') = Len(stack)
          /\ Kept(stack'[1], stack[1]) /\ stack'[1].failed
          /\ \A m \in 2 .. Len(stack) : stack'[m] = stack[m]
      BY <1>3, FailsStack
    <2>3. k \in DOMAIN stack'
      BY <1>1, <2>1
    <2>4. CASE k = 1
      BY <1>1, <2>1, <2>3, <2>4, LostKept
    <2>5. CASE k \in 2 .. Len(stack)
      BY <2>1, <2>3, <2>5
    <2> QED BY <1>1, <2>4, <2>5
  <1>4. CASE Enters
    <2>1. /\ stack' \in Seq(FrameType) /\ Len(stack') = Len(stack) + 1
          /\ Kept(stack'[2], stack[1])
          /\ \A m \in 3 .. Len(stack) + 1 : stack'[m] = stack[m - 1]
      BY <1>4, EntersStack
    <2>2. ~ stack[1].failed
      BY <1>1, <1>4, WorkingIs DEF Enters
    <2>3. k + 1 \in DOMAIN stack' /\ (k + 1) - 1 = k
      BY <1>1, <2>1
    <2>4. CASE k = 1
      BY <1>1, <2>1, <2>2, <2>3, <2>4, LostKept
    <2>5. CASE k \in 2 .. Len(stack)
      <3>1. k + 1 \in 3 .. Len(stack) + 1
        BY <1>1, <2>5
      <3>2. stack'[k + 1] = stack[k]
        BY <2>1, <2>3, <3>1
      <3> QED BY <2>3, <3>2
    <2> QED BY <1>1, <2>4, <2>5
  <1>5. ASSUME k = 1, Ending
        PROVE  /\ Top.failed \/ Top.errs
               /\ \/ Rescued(Top) /\ S = <<Top.node, "main">> /\ S # Root
                  \/ Passes(Top) /\ S \in FailedSections[Top.node]
    BY <1>1, <1>5, TargetIs DEF Lost, Ending
  <1>6. CASE Rescues
    <2>1. /\ stack' \in Seq(FrameType) /\ Len(stack') = Len(stack)
          /\ \A m \in 2 .. Len(stack) : stack'[m] = stack[m]
      BY <1>6, RescuesStack
    <2>3. k \in DOMAIN stack'
      BY <1>1, <2>1
    <2>4. CASE k = 1
      BY <1>5, <1>6, <2>4 DEF Rescues, Passes, Rescued
    <2>5. CASE k \in 2 .. Len(stack)
      BY <2>1, <2>3, <2>5
    <2> QED BY <1>1, <2>4, <2>5
  <1>7. CASE Cleans
    <2>1. /\ stack' \in Seq(FrameType) /\ Len(stack') = Len(stack)
          /\ stack'[1].sec = "always" /\ stack'[1].node = Top.node /\ stack'[1].errs = Top.failed
          /\ \A m \in 2 .. Len(stack) : stack'[m] = stack[m]
      BY <1>7, CleansStack
    <2>3. k \in DOMAIN stack'
      BY <1>1, <2>1
    <2>4. CASE k = 1
      <3>1. Ending /\ ~ Rescued(Top) /\ Top.sec \in {"main", "rescue"}
        BY <1>7 DEF Cleans, IsCleaned
      <3>2. Top.failed /\ S \in FailedSections[Top.node]
        BY <1>1, <1>5, <2>4, <3>1 DEF FrameFits
      <3>3. Passes(stack'[1])
        BY <2>1 DEF Passes
      <3> QED BY <2>1, <2>3, <2>4, <3>2, <3>3 DEF Lost
    <2>5. CASE k \in 2 .. Len(stack)
      BY <2>1, <2>3, <2>5
    <2> QED BY <1>1, <2>4, <2>5
  <1>8. CASE Returns
    <2>1. /\ stack' \in Seq(FrameType) /\ Len(stack') = Len(stack) - 1
          /\ Kept(stack'[1], stack[2])
          /\ IF Top.failed \/ Top.errs THEN stack'[1].failed /\ stack'[1].todo = << >>
             ELSE stack'[1] = stack[2]
          /\ \A m \in 2 .. Len(stack) - 1 : stack'[m] = stack[m + 1]
      BY <1>8, ReturnsStack
    <2>2. Ending /\ ~ Rescued(Top)
      BY <1>8 DEF Returns
    <2>3. 2 \in DOMAIN stack /\ In(Top.node, stack[2]) /\ 1 \in DOMAIN stack'
      BY <1>1, <2>1, <2>2, EndingIs
    <2>4. CASE k = 1
      <3>1. (Top.failed \/ Top.errs) /\ S \in FailedSections[Top.node]
        BY <1>5, <2>2, <2>4
      <3>2. Lost(S, stack'[1])
        BY <1>1, <2>1, <2>3, <3>1, HandOver
      <3> QED BY <2>3, <3>2
    <2>5. CASE k = 2
      <3>1. Lost(S, stack'[1])
        BY <1>1, <2>1, <2>3, <2>5, LostKept
      <3> QED BY <2>3, <3>1
    <2>6. CASE k \in 3 .. Len(stack)
      <3>1. k - 1 \in 2 .. Len(stack) - 1 /\ k - 1 \in DOMAIN stack' /\ (k - 1) + 1 = k
        BY <1>1, <2>1, <2>6
      <3>2. stack'[k - 1] = stack[k]
        BY <2>1, <3>1
      <3> QED BY <3>1, <3>2
    <2> QED BY <1>1, <2>4, <2>5, <2>6
  <1> QED BY <1>2, <1>3, <1>4, <1>6, <1>7, <1>8 DEF Executes

-----------------------------------------------------------------------------
\* The frames there are when nothing is executed: none.
LEMMA NoStack ==
  ASSUME Typed, pc # "exec"
  PROVE  stack = << >> /\ DOMAIN stack = {}
  BY DEF Typed, TypeOK

\* The events there are stay.
LEMMA Remembers ==
  ASSUME Typed, Path, [Next]_vars, NEW j \in DOMAIN log
  PROVE  j \in DOMAIN log' /\ log'[j] = log[j]
  <1>1. log \in Seq(EventType) /\ DOMAIN log = 1 .. Len(log) /\ Len(log) \in Nat
    BY DEF Typed
  <1>2. CASE log' = log
    BY <1>2
  <1>3. CASE \E e : Grows(e)
    <2>1. PICK e : Grows(e)
      BY <1>3
    <2>2. DOMAIN log' = 1 .. Len(log) + 1
      BY <1>1, <2>1, AppendIs DEF Grows
    <2> QED BY <1>1, <2>1, <2>2 DEF Grows
  <1> QED BY <1>2, <1>3, NewEvent

\* An event that was not there is the last one.
LEMMA NewLast ==
  ASSUME Typed, NEW e, Grows(e), NEW i \in DOMAIN log', i \notin DOMAIN log
  PROVE  i = Len(log) + 1 /\ log'[i] = e /\ Len(log) \in Nat
  <1>1. log \in Seq(EventType) /\ DOMAIN log = 1 .. Len(log) /\ Len(log) \in Nat
    BY DEF Typed
  <1>2. DOMAIN log' = 1 .. Len(log) + 1
    BY <1>1, AppendIs DEF Grows
  <1>3. i = Len(log) + 1
    BY <1>1, <1>2
  <1> QED BY <1>1, <1>3 DEF Grows

\* What has had its consequence goes on having it.
LEMMA AnsweredStays ==
  ASSUME Typed, Path, [Next]_vars, NEW S \in Targets, NEW n \in Nat, Answered(S, n)
  PROVE  Answered(S, n)'
  <1>1. CASE S = Root
    <2>1. batch = n /\ phase = "Failed"
      BY <1>1 DEF Answered
    <2>2. pc \in {"sync", "done"}
      BY <2>1 DEF Typed, TypeOK
    <2>3. ~ Executes /\ ~ EndBatch /\ ~ StartBatch
      BY <2>2 DEF Executes, Forward, Fails, Enters, Rescues, Cleans, Returns, Quiet, EndBatch, StartBatch
    <2>4. batch' = n /\ phase' = "Failed"
      BY <2>1, <2>3, Steps DEF Between, Idle
    <2> QED BY <1>1, <2>4 DEF Answered
  <1>2. CASE S # Root
    <2>1. PICK j \in DOMAIN log : Rescue(S[1], n, j)
      BY <1>2 DEF Answered
    <2>2. j \in DOMAIN log' /\ log'[j] = log[j]
      BY <2>1, Remembers
    <2>3. Rescue(S[1], n, j)'
      BY <2>1, <2>2 DEF Rescue
    <2> QED BY <1>2, <2>2, <2>3 DEF Answered
  <1> QED BY <1>1, <1>2

\* The rescue section of a block starts with its event.
LEMMA RescueEvent ==
  ASSUME Typed, Path, Rescues
  PROVE  \E j \in DOMAIN log' : log'[j].what = "rescue" /\ log'[j].node = Top.node /\ log'[j].batch = batch
  <1>1. pc = "exec" /\ Ending /\ Quiet
    BY DEF Rescues, Ending
  <1>2. Top.node \in Node /\ Top.env.hosts \in Seq(STRING) /\ log \in Seq(EventType) /\ Len(log) \in Nat
    BY <1>1, EndingIs, ExecIs DEF EnvType
  <1> DEFINE e == Event("rescue", Top.node, Top.env.hosts)
  <1>3. e \in EventType /\ e.what = "rescue" /\ e.node = Top.node /\ e.batch = batch
    BY <1>2, Constants DEF Event, EventType, Typed, TypeOK
  <1>4. log' = Append(log, e)
    BY DEF Rescues, Logs
  <1> HIDE DEF e
  <1>5. Len(log) + 1 \in DOMAIN log' /\ log'[Len(log) + 1] = e /\ Len(log') = Len(log) + 1
    BY <1>2, <1>3, <1>4, AppendIs
  <1> QED BY <1>3, <1>5

\* And so does its always section.
LEMMA CleanEvent ==
  ASSUME Typed, Path, Cleans
  PROVE  \E j \in DOMAIN log' : /\ log'[j].what = "always" /\ log'[j].node = Top.node
                                 /\ log'[j].batch = batch /\ j = Len(log) + 1 /\ j = Len(log')
  <1>1. pc = "exec" /\ Ending /\ Quiet
    BY DEF Cleans, Ending
  <1>2. Top.node \in Node /\ Top.env.hosts \in Seq(STRING) /\ log \in Seq(EventType) /\ Len(log) \in Nat
    BY <1>1, EndingIs, ExecIs DEF EnvType
  <1> DEFINE e == Event("always", Top.node, Top.env.hosts)
  <1>3. e \in EventType /\ e.what = "always" /\ e.node = Top.node /\ e.batch = batch
    BY <1>2, Constants DEF Event, EventType, Typed, TypeOK
  <1>4. log' = Append(log, e)
    BY DEF Cleans, Logs
  <1> HIDE DEF e
  <1>5. Len(log) + 1 \in DOMAIN log' /\ log'[Len(log) + 1] = e /\ Len(log') = Len(log) + 1
    BY <1>2, <1>3, <1>4, AppendIs
  <1> QED BY <1>3, <1>5

\* What fails has its event.
LEMMA FailEvent ==
  ASSUME Typed, Path, Fails
  PROVE  \E j \in DOMAIN log' : Failure(log'[j]) /\ log'[j].node = This /\ log'[j].batch = batch
  <1>1. PICK w \in {"failed", "aborted"}, h \in Seq(STRING) : log' = Append(log, Event(w, This, h))
    BY DEF Fails, Logs
  <1>2. pc = "exec" /\ This \in Node
    BY WorkingIs DEF Fails, Quiet
  <1>3. log \in Seq(EventType) /\ Len(log) \in Nat
    BY <1>2, ExecIs
  <1> DEFINE e == Event(w, This, h)
  <1>4. e \in EventType /\ e.what = w /\ e.node = This /\ e.batch = batch
    BY <1>2, Constants DEF Event, EventType, Typed, TypeOK
  <1> HIDE DEF e
  <1>5. Len(log) + 1 \in DOMAIN log' /\ log'[Len(log) + 1] = e
    BY <1>1, <1>3, <1>4, AppendIs DEF e
  <1> QED BY <1>1, <1>4, <1>5 DEF Failure

LEMMA HeardStep ==
  ASSUME Typed, Path, Heard, [Next]_vars
  PROVE  Heard'
  <1> SUFFICES ASSUME NEW i \in DOMAIN log', Failure(log'[i]),
                      NEW S \in Targets, S \in FailedSections[log'[i].node],
                      NEW n, n = log'[i].batch
               PROVE  Answered(S, n)' \/ Pending(S, n)'
    BY DEF Heard, Failure, Answered, Pending, Rescue
  <1>1. CASE i \in DOMAIN log
    <2>1. log'[i] = log[i]
      BY <1>1, Remembers
    <2>2. n \in Nat
      <3>1. log[i] \in EventType
        BY <1>1 DEF Typed
      <3> QED BY <2>1, <3>1 DEF EventType
    <2>3. Answered(S, n) \/ Pending(S, n)
      BY <1>1, <2>1 DEF Heard
    <2>4. CASE Answered(S, n)
      <3>1. Answered(S, n)'
        BY <2>2, <2>4, AnsweredStays
      <3> QED BY <3>1
    <2>5. CASE Pending(S, n)
      <3>1. PICK k \in DOMAIN stack : batch = n /\ Lost(S, stack[k])
        BY <2>5 DEF Pending
      <3>2. pc = "exec"
        BY <3>1, NoStack
      <3>3. ~ StartBatch /\ ~ Between
        BY <3>2 DEF StartBatch, Between
      <3>4. CASE Executes
        <4>1. batch' = batch
          BY <3>4 DEF Executes, Forward, Fails, Enters, Rescues, Cleans, Returns, Quiet
        <4>2. CASE \E m \in DOMAIN stack' : Lost(S, stack'[m])
          BY <2>1, <3>1, <4>1, <4>2 DEF Pending
        <4>3. CASE Rescues /\ S = <<Top.node, "main">> /\ S # Root
          <5>1. PICK j \in DOMAIN log' : /\ log'[j].what = "rescue" /\ log'[j].node = Top.node
                                         /\ log'[j].batch = batch
            BY <4>3, RescueEvent
          <5>2. S[1] = Top.node
            BY <4>3
          <5> QED BY <2>1, <3>1, <4>3, <5>1, <5>2 DEF Answered, Rescue
        <4> QED BY <3>1, <3>4, <4>2, <4>3, GoesUp
      <3>5. CASE EndBatch
        <4>1. Top.sec = "play" /\ Len(stack) = 1 /\ stack \in Seq(FrameType) /\ Top = stack[1]
          BY <3>2, <3>5, ExecIs DEF EndBatch, Top
        <4>2. Lost(S, Top)
          BY <3>1, <4>1
        <4>3. Top.failed /\ S = Root
          BY <4>1, <4>2 DEF Lost, Passes, Section
        <4>4. phase' = "Failed" /\ batch' = batch
          BY <3>5, <4>3 DEF EndBatch, Finish
        <4> QED BY <2>1, <3>1, <4>3, <4>4 DEF Answered
      <3>6. CASE Idle
        BY <2>1, <3>1, <3>6 DEF Idle, Pending
      <3> QED BY <3>3, <3>4, <3>5, <3>6, Steps
    <2> QED BY <2>3, <2>4, <2>5
  <1>2. CASE i \notin DOMAIN log
    <2>1. PICK e : /\ Grows(e) /\ Failure(e)
                   /\ Fails /\ e.node = This /\ e.batch = batch
      <3>1. log' # log
        BY <1>2
      <3>2. PICK e : Grows(e) /\ Noted(e)
        BY <3>1, NewEvent
      <3>3. Failure(e)
        BY <1>2, <3>2, NewLast
      <3>4. StartBatch => BatchEvent.what = "batch"
        BY StartIs
      <3> QED BY <3>2, <3>3, <3>4 DEF Failure, Noted
    <2>2. log'[i] = e
      BY <1>2, <2>1, NewLast
    <2>3. pc = "exec" /\ Working /\ batch' = batch
      BY <2>1 DEF Fails, Quiet
    <2>4. /\ 1 \in DOMAIN stack' /\ Kept(stack'[1], stack[1]) /\ stack'[1].failed
      <3>1. stack' \in Seq(FrameType) /\ Len(stack') = Len(stack) /\ Len(stack) \in Nat /\ Len(stack) > 0
        BY <2>1, <2>3, FailsStack, ExecIs
      <3>2. 1 \in DOMAIN stack'
        BY <3>1
      <3> QED BY <2>1, <3>2, FailsStack
    <2>5. stack[1] \in FrameType /\ FrameFits(stack[1]) /\ In(This, stack[1])
      BY <2>3, ExecIs, WorkingIs DEF Top
    <2>6. Lost(S, stack'[1])
      BY <2>1, <2>2, <2>4, <2>5, HandOver
    <2> QED BY <2>1, <2>2, <2>3, <2>4, <2>6 DEF Pending
  <1> QED BY <1>1, <1>2
-----------------------------------------------------------------------------
(* Every consequence has its failure *)

LEMMA InitCaused == Init => Caused
  BY DEF Init, Caused

\* A failure explains a frame that goes on as it did the frame before.
LEMMA ExplainsKept ==
  ASSUME NEW f, NEW g, Kept(g, f), FrameFits(f), g.failed => f.failed, NEW e, Explains(e, f)
  PROVE  Explains(e, g)
  <1>1. Section(g) = Section(f) /\ (Passes(g) <=> Passes(f)) /\ g.node = f.node
    BY KeptFits DEF Kept
  <1> QED BY <1>1 DEF Explains

\* A failure of a block on the list of f explains that f fails.
LEMMA ExplainsUp ==
  ASSUME NEW f \in FrameType, FrameFits(f), NEW n, In(n, f), NEW g, Kept(g, f), NEW e, Failure(e),
         FailedSections[n] \subseteq FailedSections[e.node]
  PROVE  Explains(e, g)
  <1>1. Section(g) = Section(f) /\ (Passes(g) <=> Passes(f)) /\ g.node = f.node
    BY KeptFits DEF Kept
  <1>2. FailedSections[n] = {Section(f)} \cup (IF Passes(f) THEN FailedSections[f.node] ELSE {})
    BY FailsIn
  <1> QED BY <1>1, <1>2 DEF Explains

LEMMA ExplainedStays ==
  ASSUME Typed, Path, [Next]_vars, batch' = batch, NEW g,
         \E i \in DOMAIN log : log[i].batch = batch /\ Explains(log[i], g)
  PROVE  Explained(g)'
  BY Remembers DEF Explained

LEMMA DueStays ==
  ASSUME Typed, Path, [Next]_vars, NEW e, Due(e)
  PROVE  Due(e)'
  <1>1. PICK i \in DOMAIN log : /\ Failure(log[i]) /\ log[i].batch = e.batch
                                /\ <<e.node, "main">> \in FailedSections[log[i].node]
    BY DEF Due
  <1>2. i \in DOMAIN log' /\ log'[i] = log[i]
    BY Remembers
  <1> QED BY <1>1, <1>2 DEF Due

\* The errors of a list that ends without a rescue are those that pass.
LEMMA EndPasses ==
  ASSUME Typed, Path, Ending, ~ Rescued(Top), Top.failed \/ Top.errs
  PROVE  Passes(Top)
  BY ExecIs DEF Ending, Rescued, Passes, FrameFits

LEMMA ExplainedExec ==
  ASSUME Typed, Path, Caused, Executes, [Next]_vars,
         NEW m \in DOMAIN stack', NEW g, g = stack'[m], g.failed \/ g.errs
  PROVE  Explained(g)'
  <1>0. pc = "exec" /\ batch' = batch
    BY DEF Executes, Forward, Fails, Enters, Rescues, Cleans, Returns, Quiet
  <1>1. /\ Len(stack) \in Nat /\ Len(stack) > 0 /\ DOMAIN stack = 1 .. Len(stack)
        /\ \A k \in DOMAIN stack : stack[k] \in FrameType /\ FrameFits(stack[k])
        /\ Top = stack[1]
    BY <1>0, ExecIs DEF Top
  <1>k. ASSUME NEW k \in DOMAIN stack, Kept(g, stack[k]), g.failed => stack[k].failed
        PROVE  Explained(g)'
    <2>1. stack[k].failed \/ stack[k].errs
      BY <1>k DEF Kept
    <2>2. PICK i \in DOMAIN log : log[i].batch = batch /\ Explains(log[i], stack[k])
      BY <2>1 DEF Caused, Explained
    <2>3. Explains(log[i], g)
      BY <1>1, <1>k, <2>2, ExplainsKept
    <2> QED BY <1>0, <2>2, <2>3, ExplainedStays
  <1>s. ASSUME NEW k \in DOMAIN stack, g = stack[k]
        PROVE  Explained(g)'
    BY <1>1, <1>k, <1>s, KeptIs
  <1>2. CASE Forward
    <2>1. /\ stack' \in Seq(FrameType) /\ Len(stack') = Len(stack)
          /\ Kept(stack'[1], stack[1]) /\ ~ stack'[1].failed
          /\ \A j \in 2 .. Len(stack) : stack'[j] = stack[j]
      BY <1>2, ForwardStack
    <2>3. m \in DOMAIN stack
      BY <1>1, <2>1
    <2>4. CASE m = 1
      BY <1>1, <1>k, <2>1, <2>3, <2>4
    <2>5. CASE m \in 2 .. Len(stack)
      BY <1>s, <2>1, <2>3, <2>5
    <2> QED BY <1>1, <2>3, <2>4, <2>5
  <1>3. CASE Fails
    <2>1. /\ stack' \in Seq(FrameType) /\ Len(stack') = Len(stack)
          /\ Kept(stack'[1], stack[1])
          /\ \A j \in 2 .. Len(stack) : stack'[j] = stack[j]
      BY <1>3, FailsStack
    <2>3. m \in DOMAIN stack
      BY <1>1, <2>1
    <2>4. CASE m = 1
      <3>1. PICK j \in DOMAIN log' : /\ Failure(log'[j]) /\ log'[j].node = This
                                     /\ log'[j].batch = batch
        BY <1>3, FailEvent
      <3>2. In(This, stack[1]) /\ 1 \in DOMAIN stack
        BY <1>1, <1>3, WorkingIs DEF Fails
      <3>3. Explains(log'[j], g)
        BY <1>1, <2>1, <2>4, <3>1, <3>2, ExplainsUp
      <3> QED BY <1>0, <3>1, <3>3 DEF Explained
    <2>5. CASE m \in 2 .. Len(stack)
      BY <1>s, <2>1, <2>3, <2>5
    <2> QED BY <1>1, <2>3, <2>4, <2>5
  <1>4. CASE Enters
    <2>1. /\ stack' \in Seq(FrameType) /\ Len(stack') = Len(stack) + 1
          /\ stack'[1] = MainFrame(This, ThisEnv)
          /\ Kept(stack'[2], stack[1]) /\ ~ stack'[2].failed
          /\ \A j \in 3 .. Len(stack) + 1 : stack'[j] = stack[j - 1]
      BY <1>4, EntersStack
    <2>2. ~ stack'[1].failed /\ ~ stack'[1].errs
      BY <2>1 DEF MainFrame, Frame
    <2>3. m \in 1 .. Len(stack) + 1 /\ 1 \in DOMAIN stack
      BY <1>1, <2>1
    <2>4. CASE m = 1
      BY <2>2, <2>4
    <2>5. CASE m = 2
      BY <1>k, <2>1, <2>3, <2>5
    <2>6. CASE m \in 3 .. Len(stack) + 1
      <3>1. m - 1 \in DOMAIN stack
        BY <1>1, <2>6
      <3>2. g = stack[m - 1]
        BY <2>1, <2>6
      <3> QED BY <1>s, <3>1, <3>2
    <2> QED BY <1>1, <2>3, <2>4, <2>5, <2>6
  <1>5. ASSUME Ending, ~ Rescued(Top), Top.failed \/ Top.errs
        PROVE  \E i \in DOMAIN log : /\ log[i].batch = batch /\ Failure(log[i])
                                     /\ FailedSections[Top.node] \subseteq FailedSections[log[i].node]
    <2>1. Explained(stack[1])
      BY <1>1, <1>5 DEF Caused
    <2>2. Passes(stack[1])
      BY <1>1, <1>5, EndPasses
    <2> QED BY <1>1, <2>1, <2>2 DEF Explained, Explains
  <1>6. CASE Rescues
    <2>1. /\ stack' \in Seq(FrameType) /\ Len(stack') = Len(stack)
          /\ ~ stack'[1].failed /\ ~ stack'[1].errs
          /\ \A j \in 2 .. Len(stack) : stack'[j] = stack[j]
      BY <1>6, RescuesStack
    <2>3. m \in DOMAIN stack
      BY <1>1, <2>1
    <2>4. CASE m = 1
      BY <2>1, <2>4
    <2>5. CASE m \in 2 .. Len(stack)
      BY <1>s, <2>1, <2>3, <2>5
    <2> QED BY <1>1, <2>3, <2>4, <2>5
  <1>7. CASE Cleans
    <2>1. /\ stack' \in Seq(FrameType) /\ Len(stack') = Len(stack)
          /\ stack'[1].node = Top.node /\ ~ stack'[1].failed /\ stack'[1].errs = Top.failed
          /\ \A j \in 2 .. Len(stack) : stack'[j] = stack[j]
      BY <1>7, CleansStack
    <2>3. m \in DOMAIN stack
      BY <1>1, <2>1
    <2>4. CASE m = 1
      <3>1. Ending /\ ~ Rescued(Top) /\ Top.failed
        BY <1>7, <2>1, <2>4 DEF Cleans, IsCleaned
      <3>2. PICK i \in DOMAIN log : /\ log[i].batch = batch /\ Failure(log[i])
                                    /\ FailedSections[Top.node] \subseteq FailedSections[log[i].node]
        BY <1>5, <3>1
      <3>3. Explains(log[i], g)
        BY <2>1, <2>4, <3>2 DEF Explains
      <3> QED BY <1>0, <3>2, <3>3, ExplainedStays
    <2>5. CASE m \in 2 .. Len(stack)
      BY <1>s, <2>1, <2>3, <2>5
    <2> QED BY <1>1, <2>3, <2>4, <2>5
  <1>8. CASE Returns
    <2>1. /\ stack' \in Seq(FrameType) /\ Len(stack') = Len(stack) - 1
          /\ Kept(stack'[1], stack[2])
          /\ IF Top.failed \/ Top.errs THEN stack'[1].failed /\ stack'[1].todo = << >>
             ELSE stack'[1] = stack[2]
          /\ \A j \in 2 .. Len(stack) - 1 : stack'[j] = stack[j + 1]
      BY <1>8, ReturnsStack
    <2>2. Ending /\ ~ Rescued(Top)
      BY <1>8 DEF Returns
    <2>3. 2 \in DOMAIN stack /\ In(Top.node, stack[2]) /\ m \in 1 .. Len(stack) - 1
      BY <1>1, <2>1, <2>2, EndingIs
    <2>4. CASE m = 1 /\ (Top.failed \/ Top.errs)
      <3>2. PICK i \in DOMAIN log : /\ log[i].batch = batch /\ Failure(log[i])
                                    /\ FailedSections[Top.node] \subseteq FailedSections[log[i].node]
        BY <1>5, <2>2, <2>4
      <3>3. Explains(log[i], g)
        BY <1>1, <2>1, <2>3, <2>4, <3>2, ExplainsUp
      <3> QED BY <1>0, <3>2, <3>3, ExplainedStays
    <2>5. CASE m = 1 /\ ~ (Top.failed \/ Top.errs)
      BY <1>s, <2>1, <2>3, <2>5
    <2>6. CASE m \in 2 .. Len(stack) - 1
      <3>1. m + 1 \in DOMAIN stack
        BY <1>1, <2>6
      <3>2. g = stack[m + 1]
        BY <2>1, <2>6
      <3> QED BY <1>s, <3>1, <3>2
    <2> QED BY <1>1, <2>3, <2>4, <2>5, <2>6
  <1> QED BY <1>2, <1>3, <1>4, <1>6, <1>7, <1>8 DEF Executes

LEMMA CausedStep ==
  ASSUME Typed, Path, Caused, [Next]_vars
  PROVE  Caused'
  <1>1. ASSUME NEW m \in DOMAIN stack', stack'[m].failed \/ stack'[m].errs
        PROVE  Explained(stack[m])'
    <2> DEFINE g == stack'[m]
    <2>1. \E h : h = stack'[m]
      OBVIOUS
    <2>2. PICK h : h = stack'[m]
      BY <2>1
    <2>3. Explained(h)'
      <3>1. CASE Executes
        BY <1>1, <2>2, <3>1, ExplainedExec
      <3>2. CASE EndBatch
        BY <1>1, <3>2 DEF EndBatch
      <3>3. CASE StartBatch
        <4>1. stack = << >> /\ ~ PlayFrame.failed /\ ~ PlayFrame.errs
          BY <3>3, StartIs
        <4>2. CASE stack' = <<PlayFrame>>
          <5>1. DOMAIN stack' = {1} /\ stack'[1] = PlayFrame
            BY <4>2
          <5> QED BY <1>1, <4>1, <5>1
        <4>3. CASE stack' = stack
          BY <1>1, <4>1, <4>3
        <4> QED BY <3>3, <4>2, <4>3, StartIs
      <3>4. CASE Between
        BY <1>1, <3>4, NoStack DEF Between
      <3>5. CASE Idle
        BY <1>1, <2>2, <3>5, ExplainedStays DEF Idle, Caused, Explained
      <3> QED BY <3>1, <3>2, <3>3, <3>4, <3>5, Steps
    <2> QED BY <2>2, <2>3 DEF Explained
  <1>2. ASSUME NEW j \in DOMAIN log', log'[j].what = "rescue"
        PROVE  Due(log[j])'
    <2>2. PICK h : h = log'[j]
      OBVIOUS
    <2>3. Due(h)'
      <3>1. CASE j \in DOMAIN log
        <4>1. log'[j] = log[j]
          BY <3>1, Remembers
        <4>2. Due(h)
          BY <1>2, <2>2, <3>1, <4>1 DEF Caused
        <4> QED BY <4>2, DueStays
      <3>2. CASE j \notin DOMAIN log
        <4>1. log' # log
          BY <3>2
        <4>2. PICK e : Grows(e) /\ Noted(e)
          BY <4>1, NewEvent
        <4>3. h = e
          BY <2>2, <3>2, <4>2, NewLast
        <4>4. StartBatch => BatchEvent.what = "batch"
          BY StartIs
        <4>5. Rescues /\ e.node = Top.node /\ e.batch = batch
          BY <1>2, <2>2, <4>2, <4>3, <4>4 DEF Noted
        <4>6. Rescued(Top) /\ pc = "exec"
          BY <4>5 DEF Rescues, Ending
        <4>7. 1 \in DOMAIN stack /\ Top = stack[1] /\ Section(Top) = <<Top.node, "main">>
          BY <4>6, ExecIs DEF Top, Section, Rescued
        <4>8. PICK i \in DOMAIN log : log[i].batch = batch /\ Explains(log[i], Top)
          BY <4>6, <4>7 DEF Caused, Explained, Rescued
        <4>9. Due(h)
          BY <4>3, <4>5, <4>6, <4>7, <4>8 DEF Due, Explains, Rescued
        <4> QED BY <4>9, DueStays
      <3> QED BY <3>1, <3>2
    <2> QED BY <2>2, <2>3 DEF Due
  <1> QED BY <1>1, <1>2 DEF Caused

-----------------------------------------------------------------------------
(* The always sections *)

\* An event is of a node, unless it is of a play.
Placed == \A i \in DOMAIN log : log[i].what \notin {"play", "batch"} => log[i].node \in Node

LEMMA PlacedStep ==
  ASSUME Typed, Path, Placed, [Next]_vars
  PROVE  Placed'
  <1> SUFFICES ASSUME NEW i \in DOMAIN log', log'[i].what \notin {"play", "batch"}
               PROVE  log'[i].node \in Node
    BY DEF Placed
  <1>1. CASE i \in DOMAIN log
    BY <1>1, Remembers DEF Placed
  <1>2. CASE i \notin DOMAIN log
    <2>1. log' # log
      BY <1>2
    <2>2. PICK e : Grows(e) /\ Noted(e)
      BY <2>1, NewEvent
    <2>3. log'[i] = e
      BY <1>2, <2>2, NewLast
    <2>4. StartBatch => BatchEvent.what = "batch"
      BY StartIs
    <2>5. Forward \/ Fails \/ Enters => This \in Node
      BY WorkingIs DEF Forward, Fails, Enters
    <2>6. Rescues \/ Cleans => Top.node \in Node
      BY EndingIs DEF Rescues, Cleans
    <2> QED BY <2>2, <2>3, <2>4, <2>5, <2>6 DEF Noted
  <1> QED BY <1>1, <1>2

LEMMA InitCleaned == Init => Cleaned /\ Placed
  BY DEF Init, Cleaned, Placed

\* What is executed while a block is being executed is in that block.
LEMMA Inside ==
  ASSUME Typed, Path, pc = "exec", NEW k \in DOMAIN stack, stack[k].sec \in {"main", "rescue"}
  PROVE  /\ k # Len(stack) /\ Top.sec # "play"
         /\ stack[k].node \in Enclosing[Top.node]
         /\ Working => stack[k].node \in Enclosing[This]
  <1>1. /\ 1 \in DOMAIN stack /\ Len(stack) \in Nat /\ DOMAIN stack = 1 .. Len(stack) /\ Top = stack[1]
        /\ Top \in FrameType
    BY ExecIs DEF Top
  <1>2. k # Len(stack) /\ Top.sec # "play"
    <2>1. k # Len(stack)
      BY DEF Typed, TypeOK
    <2> DEFINE n == Len(stack)
    <2>2. n \in Nat /\ k \in 1 .. n /\ k # n
      BY <1>1, <2>1
    <2> HIDE DEF n
    <2>3. n # 1
      BY <2>2
    <2> QED BY <2>1, <2>3, ExecIs DEF n
  <1>3. stack[k].node \in Enclosing[Top.node]
    BY <1>1, <1>2 DEF Path
  <1>4. ASSUME Working PROVE stack[k].node \in Enclosing[This]
    BY <1>1, <1>2, <1>3, <1>4, WorkingIs, EnclosesIn
  <1> QED BY <1>2, <1>3, <1>4

\* Nothing but blocks inside happens while a block is executed.
LEMMA OpenEvents ==
  ASSUME Typed, Path, Executes, [Next]_vars, NEW i \in DOMAIN log, Open(i)
  PROVE  \A l \in i + 1 .. Len(log') :
            log'[l].what # "batch" /\ log[i].node \in Enclosing[log'[l].node]
  <1>0. pc = "exec" /\ Len(log) \in Nat /\ log \in Seq(EventType) /\ DOMAIN log = 1 .. Len(log)
    BY ExecIs DEF Executes, Forward, Fails, Enters, Rescues, Cleans, Returns, Quiet
  <1>1. PICK k \in DOMAIN stack : stack[k].sec \in {"main", "rescue"} /\ stack[k].node = log[i].node
    BY DEF Open
  <1> SUFFICES ASSUME NEW l \in i + 1 .. Len(log')
               PROVE  log'[l].what # "batch" /\ log[i].node \in Enclosing[log'[l].node]
    OBVIOUS
  <1>2. CASE l \in DOMAIN log
    <2>1. l \in i + 1 .. Len(log)
      BY <1>0, <1>2
    <2> QED BY <1>2, <2>1, Remembers DEF Open
  <1>3. CASE l \notin DOMAIN log
    <2>1. log' # log
      BY <1>0, <1>3
    <2>2. PICK e : Grows(e) /\ Noted(e)
      BY <2>1, NewEvent
    <2>3. l \in DOMAIN log'
      BY <1>0, <2>2, AppendIs DEF Grows
    <2>4. log'[l] = e
      BY <1>3, <2>2, <2>3, NewLast
    <2>5. ~ Between /\ ~ StartBatch
      BY <1>0 DEF Between, StartBatch
    <2>6. Forward \/ Fails \/ Enters => Working
      BY DEF Forward, Fails, Enters
    <2>7. log[i].node \in Enclosing[Top.node] /\ (Working => log[i].node \in Enclosing[This])
      BY <1>0, <1>1, Inside
    <2> QED BY <2>2, <2>4, <2>5, <2>6, <2>7 DEF Noted
  <1> QED BY <1>2, <1>3

\* The always section that was started goes on being there.
LEMMA ClosedStays ==
  ASSUME Typed, Path, [Next]_vars, NEW i \in DOMAIN log, Closed(i)
  PROVE  Closed(i)'
  <1>1. DOMAIN log = 1 .. Len(log) /\ Len(log) \in Nat /\ i \in Nat
    BY DEF Typed
  <1>2. PICK j \in i + 1 .. Len(log) :
          /\ log[j].what = "always" /\ log[j].node = log[i].node /\ log[j].batch = log[i].batch
          /\ \A k \in i + 1 .. j - 1 :
               log[k].what # "batch" /\ log[i].node \in Enclosing[log[k].node]
    BY DEF Closed
  <1>3. log'[i] = log[i] /\ log'[j] = log[j] /\ \A k \in i + 1 .. j - 1 : log'[k] = log[k]
    BY <1>1, <1>2, Remembers
  <1>4. j \in i + 1 .. Len(log')
    <2>1. Len(log') = Len(log) \/ Len(log') = Len(log) + 1
      BY NewEvent DEF Grows
    <2> QED BY <1>1, <1>2, <2>1
  <1> QED BY <1>2, <1>3, <1>4 DEF Closed

\* While the block is executed, or its always section is started.
LEMMA OpenGoesOn ==
  ASSUME Typed, Path, Executes, [Next]_vars, NEW i \in DOMAIN log, Open(i),
         log[i].node \in Node, Tree[log[i].node].always # << >>
  PROVE  (Open(i) \/ Closed(i))'
  <1>0. pc = "exec" /\ batch' = batch /\ Len(log) \in Nat /\ i \in 1 .. Len(log) /\ log'[i] = log[i]
    BY ExecIs, Remembers DEF Executes, Forward, Fails, Enters, Rescues, Cleans, Returns, Quiet
  <1>1. /\ Len(stack) \in Nat /\ Len(stack) > 0 /\ DOMAIN stack = 1 .. Len(stack)
        /\ \A m \in DOMAIN stack : stack[m] \in FrameType /\ FrameFits(stack[m])
        /\ Top = stack[1]
    BY <1>0, ExecIs DEF Top
  <1>2. PICK k \in DOMAIN stack : stack[k].sec \in {"main", "rescue"} /\ stack[k].node = log[i].node
    BY DEF Open
  <1>3. \A l \in i + 1 .. Len(log') :
            log'[l].what # "batch" /\ log[i].node \in Enclosing[log'[l].node]
    BY OpenEvents
  <1>4. ASSUME NEW m \in DOMAIN stack', stack'[m].sec \in {"main", "rescue"},
               stack'[m].node = log[i].node
        PROVE  Open(i)'
    BY <1>0, <1>3, <1>4 DEF Open
  <1>5. CASE Forward \/ Fails
    <2>1. /\ stack' \in Seq(FrameType) /\ Len(stack') = Len(stack)
          /\ Kept(stack'[1], stack[1])
          /\ \A m \in 2 .. Len(stack) : stack'[m] = stack[m]
      BY <1>5, ForwardStack, FailsStack
    <2>2. k \in DOMAIN stack'
      BY <1>1, <2>1
    <2>3. stack'[k].sec = stack[k].sec /\ stack'[k].node = stack[k].node
      BY <1>1, <2>1 DEF Kept
    <2> QED BY <1>2, <1>4, <2>2, <2>3
  <1>6. CASE Enters
    <2>1. /\ stack' \in Seq(FrameType) /\ Len(stack') = Len(stack) + 1
          /\ Kept(stack'[2], stack[1])
          /\ \A m \in 3 .. Len(stack) + 1 : stack'[m] = stack[m - 1]
      BY <1>6, EntersStack
    <2>2. k + 1 \in DOMAIN stack'
      BY <1>1, <2>1
    <2>3. CASE k = 1
      <3>1. stack'[2].sec = stack[1].sec /\ stack'[2].node = stack[1].node /\ 2 \in DOMAIN stack'
        BY <1>1, <2>1, <2>2, <2>3 DEF Kept
      <3> QED BY <1>2, <1>4, <2>3, <3>1
    <2>4. CASE k # 1
      <3>1. k + 1 \in 3 .. Len(stack) + 1 /\ (k + 1) - 1 = k
        BY <1>1, <2>4
      <3>2. stack'[k + 1] = stack[k]
        BY <2>1, <3>1
      <3> QED BY <1>2, <1>4, <2>2, <3>2
    <2> QED BY <2>3, <2>4
  <1>7. CASE Rescues
    <2>1. /\ stack' \in Seq(FrameType) /\ Len(stack') = Len(stack)
          /\ stack'[1].sec = "rescue" /\ stack'[1].node = Top.node
          /\ \A m \in 2 .. Len(stack) : stack'[m] = stack[m]
      BY <1>7, RescuesStack
    <2>2. k \in DOMAIN stack'
      BY <1>1, <2>1
    <2>3. stack'[k].sec \in {"main", "rescue"} /\ stack'[k].node = stack[k].node
      BY <1>1, <1>2, <2>1
    <2> QED BY <1>2, <1>4, <2>2, <2>3
  <1>8. CASE Cleans
    <2>1. /\ stack' \in Seq(FrameType) /\ Len(stack') = Len(stack)
          /\ \A m \in 2 .. Len(stack) : stack'[m] = stack[m]
      BY <1>8, CleansStack
    <2>2. k \in DOMAIN stack'
      BY <1>1, <2>1
    <2>3. CASE k # 1
      <3>1. stack'[k] = stack[k]
        BY <1>1, <2>1, <2>3
      <3> QED BY <1>2, <1>4, <2>2, <3>1
    <2>4. CASE k = 1
      <3>1. PICK j \in DOMAIN log' : /\ log'[j].what = "always" /\ log'[j].node = Top.node
                                     /\ log'[j].batch = batch /\ j = Len(log) + 1 /\ j = Len(log')
        BY <1>8, CleanEvent
      <3>2. log'[j].node = log'[i].node /\ log'[j].batch = log'[i].batch
        BY <1>0, <1>1, <1>2, <2>4, <3>1 DEF Open
      <3>3. j \in i + 1 .. Len(log')
        BY <1>0, <3>1
      <3>4. \A l \in i + 1 .. j - 1 : l \in i + 1 .. Len(log')
        BY <1>0, <3>1
      <3>5. Closed(i)'
        BY <1>0, <1>3, <3>1, <3>2, <3>3, <3>4 DEF Closed
      <3> QED BY <3>5
    <2> QED BY <2>3, <2>4
  <1>9. CASE Returns
    <2>1. /\ stack' \in Seq(FrameType) /\ Len(stack') = Len(stack) - 1
          /\ Kept(stack'[1], stack[2])
          /\ \A m \in 2 .. Len(stack) - 1 : stack'[m] = stack[m + 1]
      BY <1>9, ReturnsStack
    <2>2. ~ Rescued(Top) /\ ~ IsCleaned(Top)
      BY <1>9 DEF Returns
    <2>3. k # 1
      BY <1>1, <1>2, <2>2 DEF IsCleaned
    <2>4. CASE k = 2
      <3>1. stack'[1].sec = stack[2].sec /\ stack'[1].node = stack[2].node /\ 1 \in DOMAIN stack'
        BY <1>1, <2>1, <2>4 DEF Kept
      <3> QED BY <1>2, <1>4, <2>4, <3>1
    <2>5. CASE k \in 3 .. Len(stack)
      <3>1. k - 1 \in 2 .. Len(stack) - 1 /\ k - 1 \in DOMAIN stack' /\ (k - 1) + 1 = k
        BY <1>1, <2>1, <2>5
      <3>2. stack'[k - 1] = stack[k]
        BY <2>1, <3>1
      <3> QED BY <1>2, <1>4, <3>1, <3>2
    <2> QED BY <1>1, <2>3, <2>4, <2>5
  <1> QED BY <1>5, <1>6, <1>7, <1>8, <1>9 DEF Executes

LEMMA CleanedStep ==
  ASSUME Typed, Path, Placed, Cleaned, [Next]_vars
  PROVE  Cleaned'
  <1> SUFFICES ASSUME NEW i \in DOMAIN log', log'[i].what = "main", Tree[log'[i].node].always # << >>
               PROVE  (Open(i) \/ Closed(i))'
    BY DEF Cleaned
  <1>1. CASE i \in DOMAIN log
    <2>1. log'[i] = log[i] /\ log[i].node \in Node
      BY <1>1, Remembers DEF Placed
    <2>2. Open(i) \/ Closed(i)
      BY <1>1, <2>1 DEF Cleaned
    <2>3. CASE Closed(i)
      BY <1>1, <2>3, ClosedStays
    <2>4. CASE Open(i)
      <3>1. PICK k \in DOMAIN stack : stack[k].sec \in {"main", "rescue"}
        BY <2>4 DEF Open
      <3>2. pc = "exec"
        BY <3>1, NoStack
      <3>3. Top.sec # "play"
        BY <3>1, <3>2, Inside
      <3>4. ~ StartBatch /\ ~ Between /\ ~ EndBatch
        BY <3>2, <3>3 DEF StartBatch, Between, EndBatch
      <3>5. CASE Executes
        BY <1>1, <2>1, <2>4, <3>5, OpenGoesOn
      <3>6. CASE Idle
        BY <2>4, <3>6 DEF Idle, Open
      <3> QED BY <3>4, <3>5, <3>6, Steps
    <2> QED BY <2>2, <2>3, <2>4
  <1>2. CASE i \notin DOMAIN log
    <2>1. log' # log
      BY <1>2
    <2>2. PICK e : Grows(e) /\ Noted(e)
      BY <2>1, NewEvent
    <2>3. log'[i] = e /\ i = Len(log) + 1 /\ Len(log') = i /\ Len(log) \in Nat
      BY <1>2, <2>2, NewLast DEF Grows
    <2>4. StartBatch => BatchEvent.what = "batch"
      BY StartIs
    <2>5. Enters /\ e.node = This /\ e.batch = batch
      BY <2>2, <2>3, <2>4 DEF Noted
    <2>6. /\ stack' \in Seq(FrameType) /\ Len(stack') = Len(stack) + 1 /\ Len(stack) \in Nat
          /\ stack'[1] = MainFrame(This, ThisEnv) /\ batch' = batch /\ This \in Node
      BY <2>5, EntersStack, ExecIs, WorkingIs DEF Enters, Quiet
    <2>7. Tree[This].kind # "role"
      BY <2>3, <2>5, <2>6, TreeAssumption
    <2>8. stack'[1].sec = "main" /\ stack'[1].node = This /\ 1 \in DOMAIN stack'
      BY <2>6, <2>7 DEF MainFrame, Frame
    <2>9. \A l \in i + 1 .. Len(log') : FALSE
      BY <2>3
    <2> QED BY <2>3, <2>5, <2>6, <2>8, <2>9 DEF Open
  <1> QED BY <1>1, <1>2
-----------------------------------------------------------------------------
(* What a failure does to the playbook *)

\* All of it is inductive together.
Consequences == Shaped /\ Heard /\ Caused /\ Placed /\ Cleaned

LEMMA SectionsAlways == Spec => []Consequences
  <1>1. Init => Consequences
    BY InitTyped, InitPath, InitHeard, InitCaused, InitCleaned DEF Consequences, Shaped
  <1>2. Consequences /\ [Next]_vars => Consequences'
    BY TypedStep, PathStep, HeardStep, CausedStep, PlacedStep, CleanedStep DEF Consequences, Shaped
  <1> QED BY <1>1, <1>2, PTL DEF Spec

\* A failure that nothing rescues ends the playbook: it is Failed, or still executing
\* the batch; and what fails a batch is such a failure.
THEOREM EscapeFailsHolds == Spec => []EscapeFails
  <1>1. Consequences => EscapeFails
    <2> SUFFICES ASSUME Consequences PROVE EscapeFails
      OBVIOUS
    <2>0. Typed /\ Path /\ Heard /\ Caused
      BY DEF Consequences, Shaped
    <2>1. ASSUME NEW i \in DOMAIN log, Failure(log[i]), Root \in FailedSections[log[i].node]
          PROVE  batch = log[i].batch /\ phase # "Succeeded"
      <3>1. Root \in Targets
        BY DEF Targets
      <3>2. CASE Answered(Root, log[i].batch)
        BY <3>2 DEF Answered
      <3>3. CASE Pending(Root, log[i].batch)
        <4>1. pc = "exec" /\ batch = log[i].batch
          BY <2>0, <3>3, NoStack DEF Pending
        <4> QED BY <2>0, <4>1 DEF Typed
      <3> QED BY <2>0, <2>1, <3>1, <3>2, <3>3 DEF Heard
    <2>2. ASSUME pc = "exec", Top.sec = "play", Top.failed
          PROVE  \E i \in DOMAIN log : /\ Failure(log[i]) /\ log[i].batch = batch
                                       /\ Root \in FailedSections[log[i].node]
      <3>1. 1 \in DOMAIN stack /\ Top = stack[1]
        BY <2>0, <2>2, ExecIs DEF Top
      <3>2. Section(Top) = Root
        BY <2>2 DEF Section
      <3> QED BY <2>0, <2>2, <3>1, <3>2 DEF Caused, Explained, Explains
    <2> QED BY <2>1, <2>2 DEF EscapeFails
  <1> QED BY <1>1, SectionsAlways, PTL

\* When the playbook ends, the rescue sections that were started are those of the blocks
\* whose main section failed.
THEOREM RescueIffFailedHolds == Spec => []RescueIffFailed
  <1>1. Consequences => RescueIffFailed
    <2> SUFFICES ASSUME Consequences, pc = "sync", NEW i \in DOMAIN log,
                        log[i].what = "main", Tree[log[i].node].kind = "block"
                 PROVE  (\E j \in DOMAIN log : log[j].what = "rescue" /\ log[j].node = log[i].node
                                               /\ log[j].batch = log[i].batch)
                        <=> /\ Tree[log[i].node].rescue # << >>
                            /\ \E k \in DOMAIN log : /\ Failure(log[k])
                                                     /\ log[k].batch = log[i].batch
                                                     /\ <<log[i].node, "main">> \in FailedSections[log[k].node]
      BY DEF RescueIffFailed
    <2> DEFINE b == log[i].node
               S == <<b, "main">>
    <2>0. Typed /\ Path /\ Heard /\ Caused /\ b \in Node
      BY DEF Consequences, Shaped, Placed
    <2>1. ASSUME NEW j \in DOMAIN log, log[j].what = "rescue", log[j].node = b,
                 log[j].batch = log[i].batch
          PROVE  /\ Tree[b].rescue # << >>
                 /\ \E k \in DOMAIN log : /\ Failure(log[k]) /\ log[k].batch = log[i].batch
                                          /\ S \in FailedSections[log[k].node]
      BY <2>0, <2>1 DEF Caused, Due
    <2>2. ASSUME Tree[b].rescue # << >>,
                 NEW k \in DOMAIN log, Failure(log[k]), log[k].batch = log[i].batch,
                 S \in FailedSections[log[k].node]
          PROVE  \E j \in DOMAIN log : log[j].what = "rescue" /\ log[j].node = b
                                       /\ log[j].batch = log[i].batch
      <3>1. S \in Targets
        BY <2>0, <2>2 DEF Targets, Rescuer
      <3>2. S # Root /\ S[1] = b
        BY DEF Root
      <3>3. ~ Pending(S, log[k].batch)
        BY <2>0, NoStack DEF Pending
      <3>4. Answered(S, log[k].batch)
        BY <2>0, <2>2, <3>1, <3>3 DEF Heard
      <3> QED BY <2>2, <3>2, <3>4 DEF Answered, Rescue
    <2> QED BY <2>1, <2>2
  <1> QED BY <1>1, SectionsAlways, PTL

\* When the playbook ends, every block that was entered has had its always section, and
\* nothing outside of the block came in between.
THEOREM AlwaysRunsHolds == Spec => []AlwaysRuns
  <1>1. Consequences => AlwaysRuns
    <2> SUFFICES ASSUME Consequences, pc = "sync", NEW i \in DOMAIN log, log[i].what = "main",
                        Tree[log[i].node].always # << >>
                 PROVE  Closed(i)
      BY DEF AlwaysRuns, Closed
    <2>1. stack = << >>
      BY NoStack DEF Consequences, Shaped
    <2>2. ~ Open(i)
      BY <2>1 DEF Open
    <2> QED BY <2>2 DEF Consequences, Cleaned
  <1> QED BY <1>1, SectionsAlways, PTL
-----------------------------------------------------------------------------
(* Which tasks run *)

\* All tags of node n in play p, and all its conditions: its own and those of
\* whatever it is in.
AllTags(n, p) == Plays[p].tags \cup UNION {Tree[b].tags : b \in Enclosing[n]}
AllConds(n) == UNION {Tree[b].when : b \in Enclosing[n]}

\* What an executor passes on is what it is in, no more and no less.
Inherited ==
  \A k \in DOMAIN stack :
    IF stack[k].sec = "play"
    THEN stack[k].env.tags = Plays[play].tags /\ stack[k].env.when = {}
    ELSE /\ stack[k].env.tags = AllTags(stack[k].node, play)
         /\ stack[k].env.when = AllConds(stack[k].node)

\* The modules of a task have run.
Ran(e) == e.what \in {"ran", "ignored", "failed"}

\* What ran was selected by its tags and its conditions, and nothing that it is
\* in is skipped.
Selective ==
  \A i \in DOMAIN log : Ran(log[i]) =>
    /\ IsEnabled(AllTags(log[i].node, log[i].play), OnlyTags, SkipTags)
    /\ \A b \in Enclosing[log[i].node] : ~ Skipped(Tree[b].tags, SkipTags)
    /\ AllConds(log[i].node) \subseteq holds

\* More tags do not take back a skip.
LEMMA SkippedMore ==
  ASSUME NEW s, NEW t, s \subseteq t, NEW skip, Skipped(s, skip)
  PROVE  Skipped(t, skip)
  BY DEF Skipped, isdisjoint

\* What a block on the list of f inherits is what it is in.
LEMMA InheritsAll ==
  ASSUME Typed, Path, Working, Inherited
  PROVE  ThisEnv.tags = AllTags(This, play) /\ ThisEnv.when = AllConds(This)
  <1>1. 1 \in DOMAIN stack /\ Top = stack[1] /\ Top \in FrameType /\ FrameFits(Top)
    BY ExecIs DEF Working, Top
  <1>2. This \in Node /\ In(This, Top)
    BY WorkingIs
  <1>3. /\ ThisEnv.tags = Tree[This].tags \cup Top.env.tags
        /\ ThisEnv.when = Top.env.when \cup Tree[This].when
    BY DEF ThisEnv, Inherit, Env, JoinTag
  <1>4. CASE Top.sec = "play"
    <2>1. SectionOf[This] = {}
      BY <1>2, <1>4 DEF In
    <2>2. Enclosing[This] = {This}
      BY <1>2, <2>1, EnclosingIs
    <2>3. Top.env.tags = Plays[play].tags /\ Top.env.when = {}
      BY <1>1, <1>4 DEF Inherited
    <2> QED BY <1>3, <2>2, <2>3 DEF AllTags, AllConds
  <1>5. CASE Top.sec # "play"
    <2>1. SectionOf[This] = {Section(Top)} /\ Section(Top)[1] = Top.node
      BY <1>2, <1>5 DEF In, Section
    <2>2. Enclosing[This] = {This} \cup Enclosing[Top.node]
      BY <1>2, <2>1, EnclosingIs
    <2>3. Top.env.tags = AllTags(Top.node, play) /\ Top.env.when = AllConds(Top.node)
      BY <1>1, <1>5 DEF Inherited
    <2> QED BY <1>3, <2>2, <2>3 DEF AllTags, AllConds
  <1> QED BY <1>4, <1>5

\* A list that is executed in place of another one passes on the same, and what
\* a block starts with is what it is in.
LEMMA InheritedStep ==
  ASSUME Typed, Path, Inherited, [Next]_vars
  PROVE  Inherited'
  <1> DEFINE Good(f, p) == IF f.sec = "play"
                           THEN f.env.tags = Plays[p].tags /\ f.env.when = {}
                           ELSE f.env.tags = AllTags(f.node, p) /\ f.env.when = AllConds(f.node)
  <1>0. \A k \in DOMAIN stack : Good(stack[k], play)
    BY DEF Inherited
  <1>g. (\A k \in DOMAIN stack' : Good(stack'[k], play')) => Inherited'
    BY DEF Inherited
  <1>k. \A f, g : Kept(g, f) /\ Good(f, play) => Good(g, play)
    BY DEF Kept
  <1> HIDE DEF Good
  <1>1. CASE Executes
    <2>0. pc = "exec" /\ play' = play
      BY <1>1 DEF Executes, Forward, Fails, Enters, Rescues, Cleans, Returns, Quiet
    <2>1. /\ Len(stack) \in Nat /\ DOMAIN stack = 1 .. Len(stack) /\ 1 \in DOMAIN stack
          /\ Top = stack[1] /\ Good(Top, play)
      BY <1>0, <2>0, ExecIs DEF Top
    <2>2. CASE Forward \/ Fails \/ Rescues \/ Cleans
      <3>1. /\ stack' \in Seq(FrameType) /\ Len(stack') = Len(stack)
            /\ \A k \in 2 .. Len(stack) : stack'[k] = stack[k]
        BY <2>2, ForwardStack, FailsStack, RescuesStack, CleansStack
      <3>2. Good(stack'[1], play)
        <4>1. CASE Forward \/ Fails
          BY <1>k, <2>1, <4>1, ForwardStack, FailsStack DEF Top
        <4>2. CASE Rescues \/ Cleans
          <5>1. /\ stack'[1].env = Top.env /\ stack'[1].node = Top.node /\ stack'[1].sec # "play"
                /\ Top.sec # "play"
            BY <4>2, RescuesStack, CleansStack DEF Rescues, Cleans, Ending
          <5> QED BY <2>1, <5>1 DEF Good
        <4> QED BY <2>2, <4>1, <4>2
      <3>3. ASSUME NEW k \in DOMAIN stack' PROVE Good(stack'[k], play)
        <4>1. k = 1 \/ k \in 2 .. Len(stack)
          BY <2>1, <3>1
        <4> QED BY <1>0, <2>1, <3>1, <3>2, <4>1
      <3> QED BY <1>g, <2>0, <3>3
    <2>3. CASE Enters
      <3>1. /\ stack' \in Seq(FrameType) /\ Len(stack') = Len(stack) + 1
            /\ stack'[1] = MainFrame(This, ThisEnv) /\ Kept(stack'[2], stack[1])
            /\ \A k \in 3 .. Len(stack) + 1 : stack'[k] = stack[k - 1]
        BY <2>3, EntersStack
      <3>2. Good(stack'[1], play)
        <4>1. ThisEnv.tags = AllTags(This, play) /\ ThisEnv.when = AllConds(This)
          BY <2>3, InheritsAll DEF Enters
        <4>2. /\ stack'[1].sec # "play" /\ stack'[1].node = This /\ stack'[1].env = ThisEnv
          BY <3>1 DEF MainFrame, Frame
        <4> QED BY <4>1, <4>2 DEF Good
      <3>3. ASSUME NEW k \in DOMAIN stack' PROVE Good(stack'[k], play)
        <4>1. CASE k = 1
          BY <3>2, <4>1
        <4>2. CASE k = 2
          BY <1>k, <2>1, <3>1, <4>2 DEF Top
        <4>3. CASE k \in 3 .. Len(stack) + 1
          <5>1. k - 1 \in DOMAIN stack
            BY <2>1, <4>3
          <5> QED BY <1>0, <3>1, <4>3, <5>1
        <4> QED BY <2>1, <3>1, <4>1, <4>2, <4>3
      <3> QED BY <1>g, <2>0, <3>3
    <2>4. CASE Returns
      <3>1. /\ stack' \in Seq(FrameType) /\ Len(stack') = Len(stack) - 1
            /\ Kept(stack'[1], stack[2])
            /\ \A k \in 2 .. Len(stack) - 1 : stack'[k] = stack[k + 1]
        BY <2>4, ReturnsStack
      <3>2. 2 \in DOMAIN stack
        BY <2>4, EndingIs DEF Returns
      <3>3. ASSUME NEW k \in DOMAIN stack' PROVE Good(stack'[k], play)
        <4>1. k \in 1 .. Len(stack) - 1 /\ k + 1 \in DOMAIN stack
          BY <2>1, <3>1
        <4>2. CASE k = 1
          BY <1>0, <1>k, <3>1, <3>2, <4>2
        <4>3. CASE k \in 2 .. Len(stack) - 1
          BY <1>0, <3>1, <4>1, <4>3
        <4> QED BY <2>1, <4>1, <4>2, <4>3
      <3> QED BY <1>g, <2>0, <3>3
    <2> QED BY <1>1, <2>2, <2>3, <2>4 DEF Executes
  <1>2. CASE EndBatch
    <2>1. stack' = << >>
      BY <1>2 DEF EndBatch
    <2>2. DOMAIN stack' = {}
      BY <2>1
    <2> QED BY <1>g, <2>2
  <1>3. CASE StartBatch
    <2>1. CASE stack' = stack
      <3>1. DOMAIN stack' = {}
        BY <1>3, <2>1, StartIs
      <3> QED BY <1>g, <3>1
    <2>2. CASE stack' = <<PlayFrame>>
      <3>1. DOMAIN stack' = {1} /\ stack'[1] = PlayFrame
        BY <2>2
      <3>2. Good(PlayFrame, play)
        BY DEF Good, PlayFrame, Frame, Env
      <3> QED BY <1>3, <1>g, <3>1, <3>2, StartIs
    <2> QED BY <1>3, <2>1, <2>2, StartIs
  <1>4. CASE Between \/ Idle
    <2>1. CASE Idle
      BY <1>0, <1>g, <2>1 DEF Idle
    <2>2. CASE Between
      <3>1. DOMAIN stack' = {}
        BY <2>2 DEF Between, Typed, TypeOK
      <3> QED BY <1>g, <3>1
    <2> QED BY <1>4, <2>1, <2>2
  <1> QED BY <1>1, <1>2, <1>3, <1>4, Steps

\* Nothing but TaskRuns runs a task.
LEMMA OnlyTaskRuns ==
  ASSUME Typed, Path, [Next]_vars, NEW e, Grows(e), Ran(e)
  PROVE  TaskRuns /\ e.node = This /\ e.play = play
  <1>1. log \in Seq(EventType) /\ Len(log) \in Nat
    BY DEF Typed
  <1>2. e.what \in {"ran", "ignored", "failed"} /\ log' # log /\ log'[Len(log) + 1] = e
    BY <1>1 DEF Ran, Grows
  <1>3. ASSUME NEW w, NEW n, NEW h, log' = Append(log, Event(w, n, h))
        PROVE  e.what = w /\ e.node = n /\ e.play = play
    <2>1. e = Event(w, n, h)
      BY <1>1, <1>2, <1>3
    <2> QED BY <2>1 DEF Event
  <1>4. CASE TaskRuns
    <2>1. PICK r \in {"ran", "failed"} :
            log' = Append(log, Event(IF r = "failed" /\ Ignores(This) THEN "ignored" ELSE r,
                                     This, ThisEnv.hosts))
      BY <1>4 DEF TaskRuns
    <2> QED BY <1>3, <1>4, <2>1
  <1>5. CASE MergeFails \/ Enter \/ TaskAborted
    <2>1. \E w \in {"main", "aborted"} : \E n, h : log' = Append(log, Event(w, n, h))
      BY <1>5 DEF MergeFails, Enter, TaskAborted
    <2> QED BY <1>2, <1>3, <2>1
  <1>6. CASE EndList
    <2>1. Rescues \/ Cleans \/ Returns
      BY <1>6, ExecSteps DEF EndList, Forward, Fails, Enters, Working
    <2> QED BY <1>2, <1>3, <2>1 DEF Rescues, Cleans, Returns, Logs
  <1>7. CASE SkipInclude \/ SkipTask \/ TaskSkipped
    BY <1>2, <1>7 DEF SkipInclude, SkipTask, TaskSkipped
  <1>8. CASE EndBatch \/ Cancel \/ Terminated \/ UNCHANGED vars
    BY <1>2, <1>8 DEF EndBatch, Cancel, Terminated, vars
  <1>9. CASE StartBatch
    <2>1. e = BatchEvent /\ BatchEvent.what = "batch"
      BY <1>1, <1>2, <1>9, StartIs
    <2> QED BY <1>2, <2>1
  <1>10. CASE Load \/ DealHosts \/ GatherFacts \/ DealSerial \/ EndPlay \/ EndPlaybook \/ SyncStatus
    <2>1. \E h : log' = Append(log, Event("play", "none", h))
      BY <1>2, <1>10, BetweenIs DEF Between
    <2> QED BY <1>2, <1>3, <2>1
  <1> QED BY <1>4, <1>5, <1>6, <1>7, <1>8, <1>9, <1>10 DEF Next, Step

LEMMA SelectiveStep ==
  ASSUME Typed, Path, Inherited, Selective, [Next]_vars
  PROVE  Selective'
  <1>0. holds' = holds
    BY DEF Next, Step, Load, DealHosts, GatherFacts, DealSerial, StartBatch, EndPlay, EndPlaybook,
           SyncStatus, MergeFails, Enter, SkipInclude, SkipTask, TaskSkipped, TaskRuns, TaskAborted,
           EndList, EndBatch, Cancel, Terminated, vars, Unchanged
  <1> SUFFICES ASSUME NEW i \in DOMAIN log', Ran(log'[i])
               PROVE  /\ IsEnabled(AllTags(log'[i].node, log'[i].play), OnlyTags, SkipTags)
                      /\ \A b \in Enclosing[log'[i].node] : ~ Skipped(Tree[b].tags, SkipTags)
                      /\ AllConds(log'[i].node) \subseteq holds'
    BY DEF Selective
  <1>1. CASE i \in DOMAIN log
    BY <1>0, <1>1, Remembers DEF Selective
  <1>2. CASE i \notin DOMAIN log
    <2>1. log' # log
      BY <1>2
    <2>2. PICK e : Grows(e) /\ Noted(e)
      BY <2>1, NewEvent
    <2>3. log'[i] = e
      BY <1>2, <2>2, NewLast
    <2>4. TaskRuns /\ e.node = This /\ e.play = play
      BY <2>2, <2>3, OnlyTaskRuns
    <2>5. ThisEnv.tags = AllTags(This, play) /\ ThisEnv.when = AllConds(This)
      BY <2>4, InheritsAll DEF TaskRuns
    <2>6. IsEnabled(AllTags(This, play), OnlyTags, SkipTags) /\ AllConds(This) \subseteq holds
      BY <2>4, <2>5 DEF TaskRuns, Enabled
    <2>7. ASSUME NEW b \in Enclosing[This], Skipped(Tree[b].tags, SkipTags) PROVE FALSE
      <3>1. Tree[b].tags \subseteq AllTags(This, play)
        BY DEF AllTags
      <3>2. Skipped(AllTags(This, play), SkipTags)
        BY <2>7, <3>1, SkippedMore
      <3> QED BY <2>6, <3>2 DEF IsEnabled
    <2> QED BY <1>0, <2>3, <2>4, <2>6, <2>7
  <1> QED BY <1>1, <1>2

\* Whatever roles and blocks a task is in: it only runs if its tags together with
\* theirs and those of the play are asked for, if nothing it is in is skipped, and
\* if its condition and all of theirs hold (dealTags, dealWhen, IsEnabled, JoinTag).
THEOREM SelectionHolds == Spec => []Selective
  <1>1. Init => Shaped /\ Inherited /\ Selective
    BY InitTyped, InitPath DEF Init, Shaped, Inherited, Selective
  <1>2. Shaped /\ Inherited /\ Selective /\ [Next]_vars => (Shaped /\ Inherited /\ Selective)'
    BY TypedStep, PathStep, InheritedStep, SelectiveStep DEF Shaped
  <1> QED BY <1>1, <1>2, PTL DEF Spec
-----------------------------------------------------------------------------
(* Which hosts a play has run on *)

\* Covered adds the hosts of the batches up, event by event.
CoveredUpTo(l, p) ==
    LET all[k \in 0 .. Len(l)] ==
          IF k = 0 THEN << >>
          ELSE IF l[k].play = p /\ l[k].what = "batch" THEN all[k - 1] \o l[k].hosts
          ELSE all[k - 1]
    IN all

LEMMA CoveredSteps ==
  ASSUME NEW l \in Seq(EventType), NEW p
  PROVE  /\ CoveredUpTo(l, p)[0] = << >>
         /\ \A k \in 0 .. Len(l) : CoveredUpTo(l, p)[k] \in Seq(STRING)
         /\ \A k \in 1 .. Len(l) :
              CoveredUpTo(l, p)[k] = IF l[k].play = p /\ l[k].what = "batch"
                                     THEN CoveredUpTo(l, p)[k - 1] \o l[k].hosts
                                     ELSE CoveredUpTo(l, p)[k - 1]
  <1> DEFINE n == Len(l)
             Next1(k, v) == IF l[k].play = p /\ l[k].what = "batch" THEN v \o l[k].hosts ELSE v
             G == [k \in 1 .. n |-> [v \in Seq(STRING) |-> Next1(k, v)]]
             Eq(f) == f = [k \in 0 .. n |-> IF k = 0 THEN << >>
                                            ELSE IF l[k].play = p /\ l[k].what = "batch"
                                            THEN f[k - 1] \o l[k].hosts ELSE f[k - 1]]
             all == CHOOSE f : Eq(f)
  <1>1. n \in Nat /\ << >> \in Seq(STRING) /\ \A k \in 1 .. n : l[k].hosts \in Seq(STRING)
    <2>1. \A k \in 1 .. n : l[k] \in EventType
      OBVIOUS
    <2> QED BY <2>1 DEF EventType
  <1>2. \A k \in 1 .. n, v \in Seq(STRING) : G[k][v] \in Seq(STRING) /\ G[k][v] = Next1(k, v)
    <2> SUFFICES ASSUME NEW k \in 1 .. n, NEW v \in Seq(STRING)
                 PROVE  G[k][v] \in Seq(STRING) /\ G[k][v] = Next1(k, v)
      OBVIOUS
    <2>1. Next1(k, v) \in Seq(STRING)
      <3> DEFINE h == l[k].hosts
      <3>1. h \in Seq(STRING)
        BY <1>1
      <3> HIDE DEF h
      <3>2. v \o h \in Seq(STRING)
        BY <3>1
      <3> QED BY <3>2 DEF h
    <2> HIDE DEF Next1
    <2> QED BY <2>1
  <1>3. CoveredUpTo(l, p) = all
    BY DEF CoveredUpTo
  <1> HIDE DEF n, G
  <1>4. PICK f : f = [k \in 0 .. n |-> f[k]] /\ Follows(f, G, << >>, n)
    BY <1>1, FollowsExists
  <1>5. \A k \in 0 .. n : f[k] \in Seq(STRING)
    BY <1>1, <1>2, <1>4, FollowsType
  <1>6. \A k \in 0 .. n : f[k] = IF k = 0 THEN << >>
                                 ELSE IF l[k].play = p /\ l[k].what = "batch"
                                 THEN f[k - 1] \o l[k].hosts ELSE f[k - 1]
    <2>1. f[0] = << >>
      BY <1>4 DEF Follows
    <2>2. ASSUME NEW k \in 1 .. n PROVE f[k] = Next1(k, f[k - 1])
      <3>1. k - 1 \in 0 .. n
        BY <1>1
      <3>2. f[k - 1] \in Seq(STRING) /\ f[k] = G[k][f[k - 1]]
        BY <1>4, <1>5, <3>1 DEF Follows
      <3> HIDE DEF Next1
      <3> QED BY <1>2, <3>2
    <2> QED BY <1>1, <2>1, <2>2
  <1>7. Eq(f)
    BY <1>4, <1>6
  <1>8. Eq(all)
    BY <1>7
  <1> HIDE DEF all
  <1> DEFINE T == {k \in 0 .. n : all[k] \in Seq(STRING)}
  <1>9. 0 \in T
    BY <1>1, <1>8
  <1>12. all[0] = << >> /\ \A k \in 1 .. n : all[k] = Next1(k, all[k - 1])
    <2>1. all[0] = << >>
      BY <1>1, <1>8
    <2>2. ASSUME NEW k \in 1 .. n PROVE all[k] = Next1(k, all[k - 1])
      <3>1. k \in 0 .. n /\ k # 0
        BY <1>1
      <3> QED BY <1>8, <3>1
    <2> QED BY <2>1, <2>2
  <1>10. \A k \in 1 .. n : k - 1 \in T => k \in T
    <2> SUFFICES ASSUME NEW k \in 1 .. n, k - 1 \in T PROVE k \in T
      OBVIOUS
    <2>1. k \in 0 .. n /\ l[k].hosts \in Seq(STRING) /\ all[k - 1] \in Seq(STRING)
      BY <1>1
    <2>2. all[k] = Next1(k, all[k - 1])
      BY <1>12
    <2>3. Next1(k, all[k - 1]) \in Seq(STRING)
      BY <1>2, <2>1
    <2> HIDE DEF Next1
    <2> QED BY <2>1, <2>2, <2>3
  <1> HIDE DEF T
  <1>11. 0 .. n \subseteq T
    BY <1>1, <1>9, <1>10, InductionUpTo
  <1> QED BY <1>3, <1>11, <1>12 DEF T, n

\* Only the event of a batch of the play adds to it.
LEMMA CoveredAppend ==
  ASSUME NEW l \in Seq(EventType), NEW p, NEW e \in EventType
  PROVE  /\ Covered(l, p) \in Seq(STRING)
         /\ Covered(Append(l, e), p) = IF e.play = p /\ e.what = "batch"
                                       THEN Covered(l, p) \o e.hosts ELSE Covered(l, p)
  <1> DEFINE m == Append(l, e)
             n == Len(l)
             a == CoveredUpTo(l, p)
             c == CoveredUpTo(m, p)
  <1>1. /\ m \in Seq(EventType) /\ Len(m) = n + 1 /\ n \in Nat
        /\ m[n + 1] = e /\ \A k \in 1 .. n : m[k] = l[k]
    BY AppendIs
  <1>2. Covered(l, p) = a[n] /\ Covered(m, p) = c[n + 1]
    BY <1>1 DEF Covered, CoveredUpTo
  <1> HIDE DEF m
  <1>3. /\ a[0] = << >> /\ \A k \in 0 .. n : a[k] \in Seq(STRING)
        /\ \A k \in 1 .. n : a[k] = IF l[k].play = p /\ l[k].what = "batch"
                                    THEN a[k - 1] \o l[k].hosts ELSE a[k - 1]
    BY CoveredSteps
  <1>4. /\ c[0] = << >>
        /\ \A k \in 1 .. n + 1 : c[k] = IF m[k].play = p /\ m[k].what = "batch"
                                        THEN c[k - 1] \o m[k].hosts ELSE c[k - 1]
    BY <1>1, CoveredSteps
  <1> HIDE DEF a, c, n
  <1> DEFINE T == {k \in 0 .. n : c[k] = a[k]}
  <1>5. 0 \in T
    BY <1>1, <1>3, <1>4
  <1>6. \A k \in 1 .. n : k - 1 \in T => k \in T
    <2> SUFFICES ASSUME NEW k \in 1 .. n, k - 1 \in T PROVE k \in T
      OBVIOUS
    <2>1. k \in 0 .. n /\ k \in 1 .. n + 1 /\ m[k] = l[k] /\ c[k - 1] = a[k - 1]
      BY <1>1
    <2>2. c[k] = a[k]
      BY <1>3, <1>4, <2>1
    <2> QED BY <2>1, <2>2
  <1> HIDE DEF T
  <1>7. 0 .. n \subseteq T
    BY <1>1, <1>5, <1>6, InductionUpTo
  <1>8. n \in 0 .. n /\ n + 1 \in 1 .. n + 1 /\ (n + 1) - 1 = n
    BY <1>1
  <1>9. c[n] = a[n]
    BY <1>7, <1>8 DEF T
  <1>10. c[n + 1] = IF e.play = p /\ e.what = "batch" THEN a[n] \o e.hosts ELSE a[n]
    BY <1>1, <1>4, <1>8, <1>9
  <1> QED BY <1>2, <1>3, <1>8, <1>10 DEF m

\* What a step adds to the hosts that play p has run on.
LEMMA CoveredStep ==
  ASSUME Typed, Path, [Next]_vars, NEW p
  PROVE  \/ Covered(log', p) = Covered(log, p) /\ (p # play \/ ~ (StartBatch /\ pc' = "exec"))
         \/ /\ StartBatch /\ pc' = "exec" /\ p = play
            /\ Covered(log', p) = Covered(log, p) \o Head(batches)
  <1>0. log \in Seq(EventType)
    BY DEF Typed
  <1>1. CASE StartBatch /\ pc' = "exec"
    <2>1. /\ log' = Append(log, BatchEvent) /\ BatchEvent \in EventType /\ BatchEvent.what = "batch"
          /\ BatchEvent.play = play /\ BatchEvent.hosts = Head(batches)
      BY <1>1, StartIs
    <2> HIDE DEF BatchEvent
    <2> QED BY <1>0, <1>1, <2>1, CoveredAppend
  <1>2. CASE ~ (StartBatch /\ pc' = "exec")
    <2>1. CASE log' = log
      BY <1>2, <2>1
    <2>2. CASE \E e : Grows(e) /\ Noted(e)
      <3>1. PICK e : Grows(e) /\ Noted(e)
        BY <2>2
      <3>2. e.what # "batch" /\ e \in EventType /\ log' = Append(log, e)
        BY <1>2, <3>1 DEF Noted, Grows
      <3> QED BY <1>0, <1>2, <3>2, CoveredAppend
    <2> QED BY <2>1, <2>2, NewEvent
  <1> QED BY <1>1, <1>2

\* What a play has run on so far are its first hosts, and the batches that are left are
\* the others.
Covering ==
    /\ \A p \in Nat : p > play => Covered(log, p) = << >>
    /\ pc \in {"load", "play", "gather", "serial"} => Covered(log, play) = << >>
    /\ pc \in {"batch", "exec"} =>
         /\ Want \in Seq(STRING)
         /\ \E cut : Cuts(batches, Want, cut) /\ Covered(log, play) = SubSeq(Want, 1, cut[0])

LEMMA InitCovering == Init => Covering
  <1> SUFFICES ASSUME Init PROVE Covering
    OBVIOUS
  <1>1. << >> \in Seq(EventType) /\ Len(<< >>) = 0
    OBVIOUS
  <1>2. \A p : Covered(<< >>, p) = CoveredUpTo(<< >>, p)[0]
    BY <1>1 DEF Covered, CoveredUpTo
  <1>3. \A p : Covered(<< >>, p) = << >>
    BY <1>1, <1>2, CoveredSteps
  <1> QED BY <1>3 DEF Init, Covering

\* One batch less.
LEMMA CutsTail ==
  ASSUME NEW S, NEW b \in Seq(Seq(S)), b # << >>, NEW want \in Seq(S), NEW cut, Cuts(b, want, cut)
  PROVE  \E next : /\ Cuts(Tail(b), want, next)
                   /\ SubSeq(want, 1, next[0]) = SubSeq(want, 1, cut[0]) \o Head(b)
  <1> DEFINE n == Len(b)
             N == Len(want)
             t == Tail(b)
             next == [i \in 0 .. n - 1 |-> cut[i + 1]]
  <1>1. n \in Nat /\ n > 0 /\ N \in Nat /\ Len(t) = n - 1 /\ \A i \in 1 .. n - 1 : t[i] = b[i + 1]
    OBVIOUS
  <1>2. /\ cut \in [0 .. n -> 0 .. N] /\ cut[n] = N
        /\ \A i \in 1 .. n : cut[i - 1] <= cut[i] /\ b[i] = SubSeq(want, cut[i - 1] + 1, cut[i])
    BY DEF Cuts
  <1> HIDE DEF n, N, t
  <1>3. \A i \in 0 .. n - 1 : i + 1 \in 0 .. n /\ i + 1 \in 1 .. n /\ (i + 1) - 1 = i
    BY <1>1
  <1>4. next \in [0 .. n - 1 -> 0 .. N]
    BY <1>2, <1>3
  <1>5. next[n - 1] = N
    <2>1. n - 1 \in 0 .. n - 1 /\ (n - 1) + 1 = n
      BY <1>1
    <2> QED BY <1>2, <2>1
  <1>6. ASSUME NEW i \in 1 .. n - 1
        PROVE  next[i - 1] <= next[i] /\ t[i] = SubSeq(want, next[i - 1] + 1, next[i])
    <2>1. i \in 0 .. n - 1 /\ i - 1 \in 0 .. n - 1 /\ (i - 1) + 1 = i /\ i + 1 \in 1 .. n /\ (i + 1) - 1 = i
      BY <1>1
    <2>2. next[i] = cut[i + 1] /\ next[i - 1] = cut[i]
      BY <2>1
    <2>3. cut[i] <= cut[i + 1] /\ b[i + 1] = SubSeq(want, cut[i] + 1, cut[i + 1])
      BY <1>2, <2>1
    <2> QED BY <1>1, <2>2, <2>3
  <1>7. next[0] = cut[1]
    BY <1>1
  <1> HIDE DEF next
  <1>8. Cuts(t, want, next)
    BY <1>1, <1>4, <1>5, <1>6 DEF Cuts, N
  <1>9. cut[0] \in 0 .. N /\ cut[1] \in 0 .. N /\ cut[0] <= cut[1]
        /\ Head(b) = SubSeq(want, cut[0] + 1, cut[1])
    <2>1. 0 \in 0 .. n /\ 1 \in 0 .. n /\ 1 \in 1 .. n /\ 1 - 1 = 0
      BY <1>1
    <2>2. cut[1 - 1] <= cut[1] /\ b[1] = SubSeq(want, cut[1 - 1] + 1, cut[1])
      BY <1>2, <2>1
    <2>3. Head(b) = b[1]
      OBVIOUS
    <2>4. cut[0] <= cut[1] /\ b[1] = SubSeq(want, cut[0] + 1, cut[1])
      BY <2>1, <2>2
    <2>5. cut[0] \in 0 .. N /\ cut[1] \in 0 .. N
      BY <1>2, <2>1
    <2> QED BY <2>3, <2>4, <2>5
  <1>10. SubSeq(want, 1, cut[0]) \o SubSeq(want, cut[0] + 1, cut[1]) = SubSeq(want, 1, cut[1])
    <2> DEFINE x == cut[0]
               y == cut[1]
    <2>1. x \in 0 .. N /\ y \in 0 .. N /\ x <= y
      BY <1>9
    <2> HIDE DEF x, y
    <2>2. 1 \in 1 .. N + 1 /\ x \in 1 - 1 .. N /\ y \in x .. N
      BY <1>1, <2>1
    <2>3. SubSeq(want, 1, x) \o SubSeq(want, x + 1, y) = SubSeq(want, 1, y)
      BY <2>2, ConcatAdjacentSubSeq DEF N
    <2> QED BY <2>3 DEF x, y
  <1> QED BY <1>7, <1>8, <1>9, <1>10 DEF t

LEMMA CoveringStep ==
  ASSUME Typed, Path, Covering, [Next]_vars
  PROVE  Covering'
  <1>0. play \in Nat
    BY Constants DEF Typed, TypeOK
  <1>1. ASSUME StartBatch, pc' = "exec" PROVE Covering'
    <2>1. /\ pc = "batch" /\ play' = play /\ hosts' = hosts /\ batches' = Tail(batches)
          /\ batches # << >> /\ batches \in Seq(Seq(STRING))
      BY <1>1, StartIs DEF Typed
    <2>2. \A p \in Nat : p > play => Covered(log', p) = Covered(log, p)
      BY <1>0, CoveredStep
    <2>3. Covered(log', play) = Covered(log, play) \o Head(batches)
      BY <1>1, CoveredStep
    <2>4. PICK cut : Cuts(batches, Want, cut) /\ Covered(log, play) = SubSeq(Want, 1, cut[0])
      BY <2>1 DEF Covering
    <2>5. Want \in Seq(STRING) /\ Want' = Want
      BY <2>1 DEF Covering, Want
    <2>6. \E next : /\ Cuts(Tail(batches), Want, next)
                    /\ SubSeq(Want, 1, next[0]) = SubSeq(Want, 1, cut[0]) \o Head(batches)
      BY <2>1, <2>4, <2>5, CutsTail
    <2> QED BY <1>1, <2>1, <2>2, <2>3, <2>4, <2>5, <2>6 DEF Covering
  <1> SUFFICES ASSUME ~ (StartBatch /\ pc' = "exec") PROVE Covering'
    BY <1>1
  <1>2. \A p : Covered(log', p) = Covered(log, p)
    BY CoveredStep
  <1>3. ASSUME UNCHANGED <<play, hosts, batches>>, pc' = pc \/ (pc = "exec" /\ pc' = "batch")
        PROVE  Covering'
    <2>1. Want' = Want
      BY <1>3 DEF Want
    <2> QED BY <1>2, <1>3, <2>1 DEF Covering
  <1>4. ASSUME pc' \in {"sync", "done", "crashed"}, play' = play PROVE Covering'
    BY <1>2, <1>4 DEF Covering
  <1>5. ASSUME pc' = "play", play' = play + 1 PROVE Covering'
    <2>1. play + 1 \in Nat /\ play + 1 > play /\ \A p \in Nat : p > play + 1 => p > play
      BY <1>0
    <2> QED BY <1>2, <1>5, <2>1 DEF Covering
  <1>6. ASSUME pc \in {"load", "play", "gather"}, pc' \in {"play", "gather", "serial"}, play' = play
        PROVE  Covering'
    BY <1>2, <1>6 DEF Covering
  <1>7. CASE Executes
    BY <1>3, <1>7 DEF Executes, Forward, Fails, Enters, Rescues, Cleans, Returns, Quiet
  <1>8. CASE EndBatch
    BY <1>3, <1>4, <1>8 DEF EndBatch, Finish
  <1>9. CASE StartBatch
    BY <1>4, <1>9, StartIs
  <1>10. CASE Cancel \/ Terminated \/ UNCHANGED vars
    BY <1>3, <1>10 DEF Cancel, Terminated, vars
  <1>11. CASE Load
    BY <1>4, <1>6, <1>11 DEF Load, Finish
  <1>12. CASE DealHosts
    BY <1>5, <1>6, <1>12 DEF DealHosts, SkipPlay, NextPlay
  <1>13. CASE GatherFacts
    BY <1>4, <1>6, <1>13 DEF GatherFacts, Finish
  <1>14. CASE EndPlay
    BY <1>5, <1>14 DEF EndPlay, NextPlay
  <1>15. CASE EndPlaybook \/ SyncStatus
    BY <1>4, <1>15 DEF EndPlaybook, SyncStatus, Finish
  <1>16. CASE DealSerial
    <2> DEFINE g == GroupHostBySerial(hosts, Plays[play].serial)
    <2>1. /\ play \in DOMAIN Plays /\ hosts # << >> /\ hosts \in Seq(STRING) /\ play' = play /\ hosts' = hosts
          /\ pc = "serial"
      BY <1>16 DEF DealSerial, Typed
    <2>2. Plays[play].serial \in Seq(SerialEntry(Int))
      <3>1. Plays[play] \in PlayRecord
        BY <2>1, Constants
      <3> QED BY <3>1 DEF PlayRecord
    <2>3. g.kind \in {"ok", "error", "panic"}
      BY DEF GroupHostBySerial, Batches, SerialError, SerialPanic
    <2>4. g.kind = "ok" => \E cut : Cuts(g.batches, hosts, cut) /\ cut[0] = 0
      BY <2>1, <2>2, SerialCuts
    <2> HIDE DEF g
    <2>5. \/ /\ g.kind = "ok" /\ pc' = "batch"
             /\ batches' = IF Plays[play].runOnce THEN <<<<hosts[1]>>>> ELSE g.batches
          \/ pc' \in {"sync", "crashed"}
      BY <1>16, <2>3 DEF DealSerial, Finish, g
    <2>6. Want \in Seq(STRING) /\ Want' = Want
      <3>1. <<hosts[1]>> \in Seq(STRING)
        BY <2>1
      <3> QED BY <2>1, <3>1 DEF Want
    <2>7. ASSUME g.kind = "ok"
          PROVE  \E cut : /\ Cuts(IF Plays[play].runOnce THEN <<<<hosts[1]>>>> ELSE g.batches, Want, cut)
                          /\ cut[0] = 0
      <3>1. CASE Plays[play].runOnce
        <4> DEFINE w == <<hosts[1]>>
                   cut == [i \in 0 .. 1 |-> i]
        <4>1. w \in Seq(STRING) /\ Len(w) = 1 /\ <<w>> \in Seq(Seq(STRING)) /\ Len(<<w>>) = 1 /\ <<w>>[1] = w
          BY <2>1
        <4>2. SubSeq(w, 0 + 1, 1) = w
          <5> HIDE DEF w
          <5>1. Len(SubSeq(w, 1, 1)) = 1 /\ SubSeq(w, 1, 1)[1] = w[1] /\ SubSeq(w, 1, 1) \in Seq(STRING)
            BY <4>1
          <5> QED BY <4>1, <5>1
        <4>3. Want = w
          BY <3>1 DEF Want
        <4> HIDE DEF w
        <4>4. cut[0] = 0 /\ cut[1] = 1 /\ cut \in [0 .. 1 -> 0 .. 1]
          OBVIOUS
        <4> HIDE DEF cut
        <4>5. Cuts(<<w>>, w, cut)
          <5>1. \A i \in 1 .. 1 : cut[i - 1] <= cut[i] /\ <<w>>[i] = SubSeq(w, cut[i - 1] + 1, cut[i])
            <6> SUFFICES ASSUME NEW i \in 1 .. 1
                         PROVE  cut[i - 1] <= cut[i] /\ <<w>>[i] = SubSeq(w, cut[i - 1] + 1, cut[i])
              OBVIOUS
            <6>1. i = 1 /\ i - 1 = 0
              OBVIOUS
            <6> QED BY <4>1, <4>2, <4>4, <6>1
          <5> QED BY <4>1, <4>4, <5>1 DEF Cuts
        <4> QED BY <3>1, <4>3, <4>4, <4>5 DEF w
      <3>2. CASE ~ Plays[play].runOnce
        <4>1. Want = hosts
          BY <3>2 DEF Want
        <4> QED BY <2>4, <2>7, <3>2, <4>1
      <3> QED BY <3>1, <3>2
    <2>8. SubSeq(Want, 1, 0) = << >>
      BY <2>6
    <2>9. Covered(log, play) = << >>
      BY <2>1 DEF Covering
    <2>10. CASE g.kind = "ok" /\ pc' = "batch"
             /\ batches' = IF Plays[play].runOnce THEN <<<<hosts[1]>>>> ELSE g.batches
      <3>1. PICK cut : Cuts(batches', Want, cut) /\ cut[0] = 0
        BY <2>7, <2>10
      <3>2. Covered(log', play) = SubSeq(Want, 1, cut[0])
        BY <1>2, <2>8, <2>9, <3>1
      <3> QED BY <1>2, <2>1, <2>6, <2>10, <3>1, <3>2 DEF Covering
    <2> QED BY <1>4, <2>1, <2>5, <2>10
  <1> HIDE DEF Covering
  <1>17. CASE Step
    <2>1. CASE MergeFails \/ Enter \/ SkipInclude \/ SkipTask \/ TaskSkipped \/ TaskRuns \/ TaskAborted
               \/ EndList
      BY <1>7, <2>1, ExecSteps DEF Executes
    <2> QED BY <1>8, <1>9, <1>11, <1>12, <1>13, <1>14, <1>15, <1>16, <1>17, <2>1 DEF Step
  <1> QED BY <1>10, <1>17 DEF Next

\* When a play is through with its batches it has run on all of its hosts, each once and
\* in order: there are as many batches as it takes, and an error ends the playbook.
THEOREM HostsCoveredHolds == Spec => []HostsCovered
  <1>1. Init => Shaped /\ Covering
    BY InitTyped, InitPath, InitCovering DEF Shaped
  <1>2. Shaped /\ Covering /\ [Next]_vars => (Shaped /\ Covering)'
    BY TypedStep, PathStep, CoveringStep DEF Shaped
  <1>3. Shaped /\ Covering => HostsCovered
    <2> SUFFICES ASSUME Shaped, Covering, pc = "batch", batches = << >>
                 PROVE  Covered(log, play) = Want
      BY DEF HostsCovered, Want
    <2>1. PICK cut : Cuts(batches, Want, cut) /\ Covered(log, play) = SubSeq(Want, 1, cut[0])
      BY DEF Covering
    <2>2. cut[0] = Len(Want)
      BY <2>1 DEF Cuts
    <2>3. Want \in Seq(STRING)
      BY DEF Covering
    <2> QED BY <2>1, <2>2, <2>3
  <1> QED BY <1>1, <1>2, <1>3, PTL DEF Spec
=============================================================================
