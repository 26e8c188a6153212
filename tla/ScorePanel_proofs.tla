------------------------- MODULE ScorePanel_proofs -------------------------
(***************************************************************************)
(* Proofs about the score panel and its form: the panel's types, that what *)
(* the browser accepts the server can expand, and that what the page shows *)
(* of a form, and what the LLM is told of it, is what was typed in.        *)
(***************************************************************************)
EXTENDS ScorePanel, SequenceTheorems, TLAPS

---------------------------------------------------------------------------
(* Rounding. *)

LEMMA ProductOfNaturals ==
  ASSUME NEW m \in Nat, NEW n \in Nat
  PROVE  m * n \in Nat
  OBVIOUS

LEMMA ProductMonotone ==
  ASSUME NEW d \in Nat, NEW m \in Int, NEW n \in Int, m <= n
  PROVE  d * m <= d * n
  OBVIOUS

(* A product determines which factor is the larger, the other being equal. *)
LEMMA ProductCancels ==
  ASSUME NEW d \in Nat \ {0}, NEW m \in Int, NEW n \in Int, d * m < d * n + d
  PROVE  m <= n
<1>. SUFFICES ASSUME m >= n + 1 PROVE FALSE
  OBVIOUS
<1>1. d * (n + 1) <= d * m
  BY ProductMonotone
<1>2. d * (n + 1) = d * n + d
  OBVIOUS
<1>. QED  BY <1>1, <1>2

(* Round(n, d) is within half a unit of n / d. *)
LEMMA RoundIs ==
  ASSUME NEW n \in Nat, NEW d \in Nat \ {0}
  PROVE  /\ Round(n, d) \in Nat
         /\ 2 * (d * Round(n, d)) <= 2 * n + d
         /\ 2 * n + d < 2 * (d * Round(n, d)) + 2 * d
<1>. DEFINE a == 2 * n + d
            b == 2 * d
            q == a \div b
<1>1. a \in Nat /\ b \in Nat \ {0}
  OBVIOUS
<1>. HIDE DEF a, b
<1>2. q \in Nat /\ b * q <= a /\ a < b * q + b
  BY <1>1
<1>. HIDE DEF q
<1>3. b * q = 2 * (d * q)
  BY <1>2 DEF b
<1>4. Round(n, d) = q
  BY DEF Round, q, a, b
<1>. QED  BY <1>2, <1>3, <1>4 DEF a, b

LEMMA RoundAtMost ==
  ASSUME NEW n \in Nat, NEW d \in Nat \ {0}, NEW r \in Nat, n <= d * r
  PROVE  Round(n, d) <= r
<1>. DEFINE q == Round(n, d)
<1>1. q \in Nat /\ 2 * (d * q) <= 2 * n + d
  BY RoundIs
<1>. HIDE DEF q
<1>2. d * q \in Nat /\ d * r \in Nat
  BY <1>1, ProductOfNaturals
<1>3. d * q < d * r + d
  BY <1>1, <1>2
<1>. QED  BY <1>1, <1>3, ProductCancels DEF q

LEMMA RoundAtLeast ==
  ASSUME NEW n \in Nat, NEW d \in Nat \ {0}, NEW r \in Nat, n >= d * r
  PROVE  Round(n, d) >= r
<1>. DEFINE q == Round(n, d)
<1>1. q \in Nat /\ 2 * n + d < 2 * (d * q) + 2 * d
  BY RoundIs
<1>. HIDE DEF q
<1>2. d * q \in Nat /\ d * r \in Nat
  BY <1>1, ProductOfNaturals
<1>3. d * r < d * q + d
  BY <1>1, <1>2
<1>. QED  BY <1>1, <1>3, ProductCancels DEF q

LEMMA RoundExact ==
  ASSUME NEW r \in Nat, NEW d \in Nat \ {0}
  PROVE  Round(d * r, d) = r
<1>1. d * r \in Nat
  BY ProductOfNaturals
<1>2. Round(d * r, d) \in Nat /\ Round(d * r, d) <= r /\ Round(d * r, d) >= r
  BY <1>1, RoundIs, RoundAtMost, RoundAtLeast
<1>. QED  BY <1>2

(* c is R / F rounded; rounding c * n / d to ones, and R * n / (F * d) to   *)
(* hundreds, gives at most 52 of difference while n / d is at most 4: half *)
(* a hundred of the second rounding, half of the last, and four halves of  *)
(* the first.                                                              *)
LEMMA RoundedToHundreds ==
  ASSUME NEW R \in Nat, NEW F \in Nat \ {0}, NEW n \in Nat, NEW d \in Nat \ {0}, n <= 4 * d
  PROVE  Round(Round(R, F) * n, d) - 100 * Round(R * n, F * (100 * d)) \in -52 .. 52
<1>. DEFINE c == Round(R, F)
            q == Round(c * n, d)
            r == Round(R * n, F * (100 * d))
            D == F * d
            V == F * n
            X == F * (c * n)
            Y == R * n
            Q == D * q
            W == D * r
<1>1. /\ c \in Nat /\ 2 * (F * c) <= 2 * R + F /\ 2 * R + F < 2 * (F * c) + 2 * F
  BY RoundIs
<1>. HIDE DEF c
<1>2. D \in Nat \ {0} /\ V \in Nat /\ c * n \in Nat /\ X \in Nat /\ Y \in Nat
  <2>1. F * d # 0
    OBVIOUS
  <2>. QED  BY <1>1, <2>1, ProductOfNaturals
<1>3. V <= 4 * D
  <2>1. F * n <= F * (4 * d)
    BY ProductMonotone
  <2>2. F * (4 * d) = 4 * (F * d)
    OBVIOUS
  <2>. QED  BY <2>1, <2>2
<1>4. q \in Nat /\ 2 * (d * q) <= 2 * (c * n) + d /\ 2 * (c * n) + d < 2 * (d * q) + 2 * d
  BY <1>2, RoundIs
<1>5. F * (100 * d) = 100 * D /\ 100 * D \in Nat \ {0}
  BY <1>2
<1>6. /\ r \in Nat /\ 2 * ((100 * D) * r) <= 2 * Y + 100 * D
      /\ 2 * Y + 100 * D < 2 * ((100 * D) * r) + 2 * (100 * D)
  BY <1>2, <1>5, RoundIs
<1>. HIDE DEF q, r
<1>7. 2 * X <= 2 * Y + V /\ 2 * Y + V <= 2 * X + 2 * V
  <2>1. n * (2 * (F * c)) <= n * (2 * R + F)
    BY <1>1, ProductMonotone
  <2>2. n * (2 * R + F) <= n * (2 * (F * c) + 2 * F)
    BY <1>1, ProductMonotone
  <2>3. n * (2 * (F * c)) = 2 * (F * (c * n))
    BY <1>1
  <2>4. n * (2 * R + F) = 2 * (R * n) + F * n
    OBVIOUS
  <2>5. n * (2 * (F * c) + 2 * F) = 2 * (F * (c * n)) + 2 * (F * n)
    BY <1>1
  <2>. QED  BY <2>1, <2>2, <2>3, <2>4, <2>5
<1>8. 2 * Q <= 2 * X + D /\ 2 * X + D <= 2 * Q + 2 * D
  <2>. DEFINE a == c * n
  <2>0. a \in Nat /\ 2 * (d * q) <= 2 * a + d /\ 2 * a + d <= 2 * (d * q) + 2 * d
    BY <1>2, <1>4
  <2>. HIDE DEF a
  <2>1. F * (2 * (d * q)) <= F * (2 * a + d)
    BY <1>4, <2>0, ProductMonotone
  <2>2. F * (2 * a + d) <= F * (2 * (d * q) + 2 * d)
    BY <1>4, <2>0, ProductMonotone
  <2>3. F * (2 * (d * q)) = 2 * ((F * d) * q)
    BY <1>4
  <2>4. F * (2 * a + d) = 2 * (F * a) + F * d
    BY <2>0
  <2>5. F * (2 * (d * q) + 2 * d) = 2 * ((F * d) * q) + 2 * (F * d)
    BY <1>4
  <2>. QED  BY <2>1, <2>2, <2>3, <2>4, <2>5 DEF a
<1>. HIDE DEF D, V, X, Y
<1>9. (100 * D) * r = 100 * W /\ W \in Nat /\ Q \in Nat
  BY <1>2, <1>4, <1>6, ProductOfNaturals
<1>10. 200 * W <= 2 * Y + 100 * D /\ 2 * Y + 100 * D <= 200 * W + 200 * D
  BY <1>2, <1>6, <1>9
<1>11. D * (100 * r + 52) = 100 * W + 52 * D /\ D * (q + 52) = Q + 52 * D /\ D * (100 * r) = 100 * W
  BY <1>2, <1>4, <1>6
<1>. HIDE DEF Q, W
<1>12. 2 * Q <= 200 * W + 105 * D /\ 200 * W <= 2 * Q + 105 * D
  BY <1>2, <1>3, <1>7, <1>8, <1>9, <1>10
<1>13. Q < (100 * W + 52 * D) + D /\ 100 * W < (Q + 52 * D) + D
  BY <1>2, <1>9, <1>12
<1>14. q <= 100 * r + 52
  <2>1. D * q < D * (100 * r + 52) + D
    BY <1>11, <1>13 DEF Q
  <2>2. q \in Int /\ 100 * r + 52 \in Int
    BY <1>4, <1>6
  <2>. QED  BY <1>2, <2>1, <2>2, ProductCancels
<1>15. 100 * r <= q + 52
  <2>1. D * (100 * r) < D * (q + 52) + D
    BY <1>11, <1>13
  <2>2. 100 * r \in Int /\ q + 52 \in Int
    BY <1>4, <1>6
  <2>. QED  BY <1>2, <2>1, <2>2, ProductCancels
<1>16. q - 100 * r \in -52 .. 52
  BY <1>4, <1>6, <1>14, <1>15
<1>. QED  BY <1>16 DEF q, r, c

---------------------------------------------------------------------------
(* The windows of a form. *)

LEMMA PowerIs ==
  ASSUME NEW x \in Nat \ {0}, NEW k \in 0 .. 2
  PROVE  Power(x, k) \in Nat \ {0}
<1>1. x * x \in Nat /\ x * x # 0
  OBVIOUS
<1>2. k = 0 \/ k = 1 \/ k = 2
  OBVIOUS
<1>. QED  BY <1>1, <1>2 DEF Power

LEMMA ConstantsTyped ==
  /\ MIN_REVENUE \in Nat \ {0}
  /\ \A p \in Platform : PLATFORM_RISK[p] \in Nat
BY ScoringAssumption, FormAssumption

(* What a form that passes the schema is made of. *)
LEMMA SchemaFields ==
  ASSUME NEW f, customBusinessFormSchema(f)
  PROVE  /\ f.revenue \in Nat /\ Cents(f) \in Nat /\ Cents(f) >= MIN_REVENUE
         /\ f.orders \in Nat /\ f.refund \in Nat /\ f.chargeback \in Nat
         /\ f.growth \in -50 .. 200 /\ 100 + f.growth \in Nat \ {0}
         /\ f.platform \in Platform
<1>1. f.revenue \in PARTS * MIN_REVENUE .. PARTS * MAX_REVENUE /\ f.orders \in 1 .. MAX_ORDERS
      /\ f.refund \in 0 .. MAX_RATE /\ f.chargeback \in 0 .. MAX_RATE
      /\ f.growth \in -50 .. 200 /\ f.platform \in Platform
  BY DEF customBusinessFormSchema
<1>2. MIN_REVENUE \in Nat /\ MAX_REVENUE \in Nat /\ MAX_ORDERS \in Nat /\ MAX_RATE \in Nat
  BY ConstantsTyped, FormAssumption DEF MAX_RATE
<1>3. /\ PARTS \in Nat \ {0}
      /\ PARTS * MIN_REVENUE \in Nat /\ PARTS * MAX_REVENUE \in Nat
  BY <1>2, FormAssumption, ProductOfNaturals
<1>4. f.revenue \in Nat /\ f.revenue >= PARTS * MIN_REVENUE
  BY <1>1, <1>3
<1>5. Cents(f) \in Nat /\ Cents(f) >= MIN_REVENUE
  BY <1>2, <1>3, <1>4, RoundIs, RoundAtLeast DEF Cents
<1>. QED  BY <1>1, <1>2, <1>4, <1>5

(* The window k months back. *)
LEMMA ProfileOfForm ==
  ASSUME NEW f, NEW i \in 1 .. 3
  PROVE  /\ profileFromCustomForm(f)[i].age = 3 - i
         /\ profileFromCustomForm(f)[i].revenue
              = GreatestOf(MIN_REVENUE, Round(Cents(f) * Power(100, 3 - i), Power(100 + f.growth, 3 - i)))
         /\ profileFromCustomForm(f)[i].orders = GreatestOf(1, Before(f.orders, f.growth, 3 - i))
         /\ profileFromCustomForm(f)[i].refund = f.refund
         /\ profileFromCustomForm(f)[i].chargeback = f.chargeback
         /\ profileFromCustomForm(f)[i].platform = f.platform
<1>1. 3 - i \in 0 .. 2
  OBVIOUS
<1>. QED  BY <1>1 DEF profileFromCustomForm, Windows

(* Two months of the steepest decline make a month four times as large.    *)
LEMMA AtMostFourfold ==
  ASSUME NEW g \in -50 .. 200, NEW k \in 0 .. 2
  PROVE  Power(100, k) <= 4 * Power(100 + g, k)
<1>. DEFINE h == 100 + g
<1>1. h \in Nat /\ h >= 50
  OBVIOUS
<1>. HIDE DEF h
<1>2. h * h >= 2500
  <2>1. h * 50 <= h * h
    BY <1>1, ProductMonotone
  <2>. QED  BY <1>1, <2>1
<1>3. k = 0 \/ k = 1 \/ k = 2
  OBVIOUS
<1>4. /\ Power(100, 0) = 1 /\ Power(100, 1) = 100 /\ Power(100, 2) = 100 * 100
      /\ Power(h, 0) = 1 /\ Power(h, 1) = h /\ Power(h, 2) = h * h
  BY DEF Power
<1>5. h * h \in Nat
  BY <1>1
<1>6. Power(100, 0) <= 4 * Power(h, 0)
  BY <1>4
<1>7. Power(100, 1) <= 4 * Power(h, 1)
  BY <1>1, <1>4
<1>8. Power(100, 2) <= 4 * Power(h, 2)
  BY <1>2, <1>4, <1>5
<1>. QED  BY <1>3, <1>6, <1>7, <1>8 DEF h

(* "The AI will see these three months": the preview of a window is the    *)
(* window, to half a dollar and two cents.                                 *)
LEMMA PreviewOfWindow ==
  ASSUME NEW f, customBusinessFormSchema(f), NEW i \in 1 .. 3
  PROVE  LET w == profileFromCustomForm(f)[i]
             p == Preview(f)[w.age]
         IN /\ w.orders = p.orders
            /\ \/ w.revenue - p.revenue \in -52 .. 52
               \/ w.revenue = MIN_REVENUE /\ p.revenue < MIN_REVENUE
<1>. DEFINE k == 3 - i
            n == Power(100, k)
            d == Power(100 + f.growth, k)
            q == Round(Cents(f) * n, d)
            r == Round(f.revenue * n, PARTS * (100 * d))
            w == profileFromCustomForm(f)[i]
<1>1. k \in 0 .. 2
  OBVIOUS
<1>2. w.age = k /\ w.revenue = GreatestOf(MIN_REVENUE, q)
      /\ w.orders = GreatestOf(1, Before(f.orders, f.growth, k))
  BY ProfileOfForm
<1>3. Preview(f)[k].revenue = 100 * r /\ Preview(f)[k].orders = GreatestOf(1, Before(f.orders, f.growth, k))
  BY <1>1 DEF Preview
<1>4. n \in Nat \ {0} /\ d \in Nat \ {0} /\ n <= 4 * d
  <2>1. f.growth \in -50 .. 200 /\ 100 + f.growth \in Nat \ {0}
    BY SchemaFields
  <2>2. n \in Nat \ {0}
    BY <1>1, PowerIs
  <2>3. d \in Nat \ {0}
    BY <1>1, <2>1, PowerIs
  <2>4. n <= 4 * d
    BY <1>1, <2>1, AtMostFourfold
  <2>. QED  BY <2>2, <2>3, <2>4
<1>5. f.revenue \in Nat /\ Cents(f) \in Nat /\ PARTS \in Nat \ {0}
  BY SchemaFields, FormAssumption
<1>. HIDE DEF n, d, k, w
<1>6. q - 100 * r \in -52 .. 52
  <2>1. Round(Round(f.revenue, PARTS) * n, d) - 100 * Round(f.revenue * n, PARTS * (100 * d)) \in -52 .. 52
    BY <1>4, <1>5, RoundedToHundreds
  <2>. QED  BY <2>1 DEF Cents
<1>7. q \in Nat /\ r \in Nat
  <2>1. Cents(f) * n \in Nat /\ f.revenue * n \in Nat
    BY <1>4, <1>5, ProductOfNaturals
  <2>2. PARTS * (100 * d) \in Nat \ {0}
    <3>1. 100 * d \in Nat \ {0}
      BY <1>4
    <3>. DEFINE e == 100 * d
    <3>. HIDE DEF e
    <3>2. e \in Nat \ {0} => PARTS * e \in Nat \ {0}
      BY <1>5
    <3>. QED  BY <3>1, <3>2 DEF e
  <2>. QED  BY <1>4, <2>1, <2>2, RoundIs
<1>. HIDE DEF q, r
<1>8. \/ GreatestOf(MIN_REVENUE, q) - 100 * r \in -52 .. 52
      \/ GreatestOf(MIN_REVENUE, q) = MIN_REVENUE /\ 100 * r < MIN_REVENUE
  BY <1>6, <1>7, ConstantsTyped DEF GreatestOf
<1>. QED  BY <1>2, <1>3, <1>8 DEF w

---------------------------------------------------------------------------
(* The features. *)

(* SumFunction on three elements: its fold has the partial sums for a      *)
(* solution, and every solution has the whole sum at the whole domain.     *)
LEMMA SumOfThree ==
  ASSUME NEW s, DOMAIN s = 1 .. 3, \A i \in 1 .. 3 : s[i] \in Nat
  PROVE  SumFunction(s) = s[1] + s[2] + s[3]
<1>. DEFINE S == 1 .. 3
            Chosen(T) == CHOOSE x \in T : TRUE
            Step(h) == [T \in SUBSET S |-> IF T = {} THEN 0 ELSE s[Chosen(T)] + h[T \ {Chosen(T)}]]
            part(T, i) == IF i \in T THEN s[i] ELSE 0
            sum == [T \in SUBSET S |-> part(T, 1) + part(T, 2) + part(T, 3)]
            it == CHOOSE h : h = Step(h)
<1>1. SumFunction(s) = it[S]
  BY DEF SumFunction, SumFunctionOnSet, FoldFunctionOnSet, MapThenFoldSet
<1>2. S = {1, 2, 3} /\ s[1] \in Nat /\ s[2] \in Nat /\ s[3] \in Nat
  OBVIOUS
<1>3. \A T \in SUBSET S : T # {} => Chosen(T) \in T /\ T \ {Chosen(T)} \in SUBSET S
  OBVIOUS
<1>. HIDE DEF Chosen
<1>4. sum = Step(sum)
  <2>1. ASSUME NEW T \in SUBSET S, T # {}
        PROVE  sum[T] = s[Chosen(T)] + sum[T \ {Chosen(T)}]
    <3>. DEFINE c == Chosen(T)
                U == T \ {c}
    <3>1. c \in T /\ U \in SUBSET S /\ c \in S
      BY <1>3, <2>1
    <3>. HIDE DEF c
    <3>2. \A i \in S : i # c => (i \in U <=> i \in T)
      BY <3>1
    <3>3. c \notin U
      OBVIOUS
    <3>4. sum[T] = part(T, 1) + part(T, 2) + part(T, 3) /\ sum[U] = part(U, 1) + part(U, 2) + part(U, 3)
      BY <3>1
    <3>. HIDE DEF U, sum
    <3>5. sum[T] = s[c] + sum[U]
      BY <1>2, <3>1, <3>2, <3>3, <3>4
    <3>. QED  BY <3>5 DEF c, U
  <2>2. sum[{}] = 0
    OBVIOUS
  <2>. HIDE DEF sum
  <2>3. \A T \in SUBSET S : sum[T] = Step(sum)[T]
    BY <2>1, <2>2
  <2>4. DOMAIN sum = SUBSET S /\ DOMAIN Step(sum) = SUBSET S /\ sum = [T \in SUBSET S |-> sum[T]]
    BY DEF sum
  <2>. QED  BY <2>3, <2>4
<1>5. it = Step(it)
  <2>. HIDE DEF Step, sum
  <2>. QED  BY <1>4
<1>. HIDE DEF it, sum
<1>6. \A T \in SUBSET S : it[T] = IF T = {} THEN 0 ELSE s[Chosen(T)] + it[T \ {Chosen(T)}]
  BY <1>5
<1>7. it[{}] = 0
  BY <1>6
<1>8. \A a \in S : it[{a}] = s[a]
  <2>. SUFFICES ASSUME NEW a \in S PROVE it[{a}] = s[a]
    OBVIOUS
  <2>1. {a} \in SUBSET S /\ {a} # {} /\ {a} \ {a} = {}
    OBVIOUS
  <2>2. Chosen({a}) = a
    BY <1>3, <2>1
  <2>3. it[{a}] = s[Chosen({a})] + it[{a} \ {Chosen({a})}]
    BY <1>6, <2>1
  <2>4. it[{a}] = s[a] + 0
    BY <1>7, <2>1, <2>2, <2>3, Zenon
  <2>5. s[a] \in Nat
    OBVIOUS
  <2>. QED  BY <2>4, <2>5
<1>9. \A a, b \in S : a # b => it[{a, b}] = s[a] + s[b]
  <2>. SUFFICES ASSUME NEW a \in S, NEW b \in S, a # b PROVE it[{a, b}] = s[a] + s[b]
    OBVIOUS
  <2>1. {a, b} \in SUBSET S /\ {a, b} # {} /\ Chosen({a, b}) \in {a, b}
    BY <1>3
  <2>2. {a, b} \ {a} = {b} /\ {a, b} \ {b} = {a}
    OBVIOUS
  <2>3. it[{a, b}] = s[Chosen({a, b})] + it[{a, b} \ {Chosen({a, b})}]
    BY <1>6, <2>1
  <2>4. it[{a, b}] = s[a] + it[{b}] \/ it[{a, b}] = s[b] + it[{a}]
    <3>1. CASE Chosen({a, b}) = a
      BY <2>2, <2>3, <3>1, Zenon
    <3>2. CASE Chosen({a, b}) = b
      BY <2>2, <2>3, <3>2, Zenon
    <3>. QED  BY <2>1, <3>1, <3>2
  <2>5. it[{a}] = s[a] /\ it[{b}] = s[b] /\ s[a] \in Nat /\ s[b] \in Nat
    BY <1>8
  <2>. QED  BY <2>4, <2>5
<1>10. it[S] = s[1] + s[2] + s[3]
  <2>1. S # {} /\ Chosen(S) \in S
    BY <1>3
  <2>2. S \ {1} = {2, 3} /\ S \ {2} = {1, 3} /\ S \ {3} = {1, 2}
    OBVIOUS
  <2>3. it[S] = s[Chosen(S)] + it[S \ {Chosen(S)}]
    BY <1>6, <2>1
  <2>4. it[{2, 3}] = s[2] + s[3] /\ it[{1, 3}] = s[1] + s[3] /\ it[{1, 2}] = s[1] + s[2]
    BY <1>9
  <2>5. \/ it[S] = s[1] + it[{2, 3}]
        \/ it[S] = s[2] + it[{1, 3}]
        \/ it[S] = s[3] + it[{1, 2}]
    <3>1. CASE Chosen(S) = 1
      BY <2>2, <2>3, <3>1, Zenon
    <3>2. CASE Chosen(S) = 2
      BY <2>2, <2>3, <3>2, Zenon
    <3>3. CASE Chosen(S) = 3
      BY <2>2, <2>3, <3>3, Zenon
    <3>. QED  BY <1>2, <2>1, <3>1, <3>2, <3>3
  <2>. QED  BY <1>2, <2>4, <2>5
<1>. QED  BY <1>1, <1>10

(* The windows of a form are made oldest first, and no other order of them *)
(* is sorted: the ages differ.                                             *)
LEMMA FormSorted ==
  ASSUME NEW f
  PROVE  OldestFirst(profileFromCustomForm(f)) = profileFromCustomForm(f)
<1>. DEFINE prof == profileFromCustomForm(f)
            S == 1 .. 3
            Perm == Bijection(S, S)
            Sorted(w) == \A i, j \in S : i < j => w[i].age >= w[j].age
            P == {[i \in S |-> prof[p[i]]] : p \in Perm}
            id == [i \in S |-> i]
<1>1. DOMAIN prof = S /\ prof = [i \in S |-> prof[i]] /\ \A i \in S : prof[i].age = 3 - i
  BY DEF profileFromCustomForm
<1>2. OldestFirst(prof) = CHOOSE w \in P : Sorted(w)
  BY <1>1 DEF OldestFirst
<1>. HIDE DEF prof
<1>3. id \in Perm
  BY DEF Bijection, Injection, Surjection, IsInjective
<1>4. prof \in P
  <2>1. prof = [i \in S |-> prof[id[i]]]
    BY <1>1
  <2>. QED  BY <1>3, <2>1
<1>5. Sorted(prof)
  BY <1>1
<1>6. ASSUME NEW w \in P, Sorted(w) PROVE w = prof
  <2>1. PICK p \in Perm : w = [i \in S |-> prof[p[i]]]
    BY <1>6
  <2>2. p \in [S -> S] /\ \A i, j \in S : p[i] = p[j] => i = j
    BY DEF Bijection, Injection, IsInjective
  <2>3. \A i \in S : w[i].age = 3 - p[i]
    BY <1>1, <2>1, <2>2
  <2>4. p[1] \in S /\ p[2] \in S /\ p[3] \in S /\ p[1] # p[2] /\ p[2] # p[3] /\ p[1] # p[3]
    BY <2>2
  <2>5. w[1].age >= w[2].age /\ w[2].age >= w[3].age
    BY <1>6
  <2>6. p[1] <= p[2] /\ p[2] <= p[3]
    BY <2>3, <2>4, <2>5
  <2>7. p[1] = 1 /\ p[2] = 2 /\ p[3] = 3
    BY <2>4, <2>6
  <2>8. \A i \in S : p[i] = i
    BY <2>7
  <2>. QED  BY <1>1, <2>1, <2>8
<1>. HIDE DEF P, Sorted
<1>7. OldestFirst(prof) = prof
  BY <1>2, <1>4, <1>5, <1>6
<1>. QED  BY <1>7 DEF prof

(* A function on 1 .. n is a sequence of n. *)
LEMMA LengthOf ==
  ASSUME NEW n \in Nat, NEW w, w = [i \in 1 .. n |-> w[i]]
  PROVE  Len(w) = n
<1>. DEFINE S == {w[i] : i \in 1 .. n}
<1>1. w \in [1 .. n -> S]
  OBVIOUS
<1>. HIDE DEF S
<1>2. w \in Seq(S)
  BY <1>1, SeqDef
<1>3. DOMAIN w = 1 .. n /\ DOMAIN w = 1 .. Len(w) /\ Len(w) \in Nat
  BY <1>1, <1>2
<1>. QED  BY <1>3

(* A window of a form has a positive revenue, so that rates can be weighted *)
(* by it. *)
LEMMA FormWindow ==
  ASSUME NEW f, customBusinessFormSchema(f), NEW i \in 1 .. 3
  PROVE  /\ profileFromCustomForm(f)[i].revenue \in Nat \ {0}
         /\ profileFromCustomForm(f)[i].refund \in Nat
         /\ profileFromCustomForm(f)[i].chargeback \in Nat
         /\ PLATFORM_RISK[profileFromCustomForm(f)[i].platform] \in Nat
<1>. DEFINE k == 3 - i
            n == Cents(f) * Power(100, k)
            d == Power(100 + f.growth, k)
<1>1. k \in 0 .. 2
  OBVIOUS
<1>2. n \in Nat /\ d \in Nat \ {0}
  <2>1. Power(100, k) \in Nat \ {0} /\ d \in Nat \ {0}
    BY <1>1, SchemaFields, PowerIs
  <2>2. Cents(f) \in Nat
    BY SchemaFields
  <2>. QED  BY <2>1, <2>2, ProductOfNaturals
<1>3. profileFromCustomForm(f)[i].revenue = GreatestOf(MIN_REVENUE, Round(n, d))
  BY ProfileOfForm
<1>. HIDE DEF n, d
<1>4. GreatestOf(MIN_REVENUE, Round(n, d)) \in Nat \ {0}
  BY <1>2, RoundIs, ConstantsTyped DEF GreatestOf
<1>5. profileFromCustomForm(f)[i].refund = f.refund /\ profileFromCustomForm(f)[i].chargeback = f.chargeback
      /\ profileFromCustomForm(f)[i].platform = f.platform
  BY ProfileOfForm
<1>. QED  BY <1>3, <1>4, <1>5, SchemaFields, ConstantsTyped

(* Weighting the same rate by any revenues gives the rate back, and the     *)
(* average of one risk is that risk. *)
LEMMA FeaturesOfForm ==
  ASSUME NEW f, customBusinessFormSchema(f)
  PROVE  LET features == extractFeatures(profileFromCustomForm(f)) IN
         /\ features.refund = f.refund /\ features.chargeback = f.chargeback
         /\ features.risk = PLATFORM_RISK[f.platform]
         /\ features.trend = profileFromCustomForm(f)[3].revenue - profileFromCustomForm(f)[1].revenue
<1>. DEFINE w == profileFromCustomForm(f)
            total == SumOver(w, Revenue)
            a == w[1].revenue
            b == w[2].revenue
            c == w[3].revenue
            ref == SumOver(w, LAMBDA x : x.refund * x.revenue)
            cha == SumOver(w, LAMBDA x : x.chargeback * x.revenue)
            ris == SumOver(w, LAMBDA x : PLATFORM_RISK[x.platform])
            rho == PLATFORM_RISK[f.platform]
<1>1. DOMAIN w = 1 .. 3 /\ w = [i \in 1 .. 3 |-> w[i]]
  BY DEF profileFromCustomForm
<1>2. Len(w) = 3
  BY <1>1, LengthOf
<1>3. /\ extractFeatures(w).refund = Round(ref, GreatestOf(1, total))
      /\ extractFeatures(w).chargeback = Round(cha, GreatestOf(1, total))
      /\ extractFeatures(w).risk = Round(ris, 3)
      /\ extractFeatures(w).trend = c - a
  BY <1>2, FormSorted DEF extractFeatures
<1>4. \A i \in 1 .. 3 : /\ w[i].revenue \in Nat \ {0}
                        /\ w[i].refund = f.refund /\ w[i].chargeback = f.chargeback
                        /\ w[i].platform = f.platform
  BY ProfileOfForm, FormWindow
<1>5. f.refund \in Nat /\ f.chargeback \in Nat /\ rho \in Nat
  BY SchemaFields, ConstantsTyped
<1>. HIDE DEF w, rho
<1>6. a \in Nat \ {0} /\ b \in Nat \ {0} /\ c \in Nat \ {0}
  BY <1>4
<1>7. total = a + b + c
  <2>1. total = SumFunction([i \in 1 .. 3 |-> w[i].revenue])
    BY <1>1 DEF SumOver, Revenue
  <2>. QED  BY <1>4, <2>1, SumOfThree
<1>8. ASSUME NEW R \in Nat
      PROVE  SumFunction([i \in 1 .. 3 |-> R * w[i].revenue]) = R * a + R * b + R * c
  <2>1. \A i \in 1 .. 3 : R * w[i].revenue \in Nat
    BY <1>4
  <2>. DEFINE s == [i \in 1 .. 3 |-> R * w[i].revenue]
  <2>2. DOMAIN s = 1 .. 3 /\ \A i \in 1 .. 3 : s[i] \in Nat
    BY <2>1
  <2>3. s[1] = R * a /\ s[2] = R * b /\ s[3] = R * c
    OBVIOUS
  <2>. HIDE DEF s
  <2>4. SumFunction(s) = s[1] + s[2] + s[3]
    BY <2>2, SumOfThree
  <2>. QED  BY <2>3, <2>4 DEF s
<1>9. ref = f.refund * a + f.refund * b + f.refund * c
  <2>1. ref = SumFunction([i \in 1 .. 3 |-> f.refund * w[i].revenue])
    BY <1>1, <1>4 DEF SumOver
  <2>. QED  BY <1>5, <1>8, <2>1
<1>10. cha = f.chargeback * a + f.chargeback * b + f.chargeback * c
  <2>1. cha = SumFunction([i \in 1 .. 3 |-> f.chargeback * w[i].revenue])
    BY <1>1, <1>4 DEF SumOver
  <2>. QED  BY <1>5, <1>8, <2>1
<1>11. ris = 3 * rho
  <2>1. ris = SumFunction([i \in 1 .. 3 |-> rho])
    BY <1>1, <1>4 DEF SumOver, rho
  <2>2. SumFunction([i \in 1 .. 3 |-> rho]) = rho + rho + rho
    BY <1>5, SumOfThree
  <2>. QED  BY <1>5, <2>1, <2>2
<1>. HIDE DEF a, b, c, total, ref, cha, ris
<1>12. \A R \in Nat : Round(R * a + R * b + R * c, GreatestOf(1, total)) = R
  <2>. SUFFICES ASSUME NEW R \in Nat
                PROVE  Round(R * a + R * b + R * c, GreatestOf(1, total)) = R
    OBVIOUS
  <2>1. total \in Nat \ {0} /\ GreatestOf(1, total) = total
    BY <1>6, <1>7 DEF GreatestOf
  <2>2. R * a + R * b + R * c = total * R
    BY <1>6, <1>7
  <2>3. Round(total * R, total) = R
    BY <2>1, RoundExact
  <2>. QED  BY <2>1, <2>2, <2>3, Zenon
<1>13. Round(ref, GreatestOf(1, total)) = f.refund /\ Round(cha, GreatestOf(1, total)) = f.chargeback
  BY <1>5, <1>9, <1>10, <1>12, Zenon
<1>14. Round(ris, 3) = rho
  BY <1>5, <1>11, RoundExact
<1>. QED  BY <1>3, <1>13, <1>14 DEF a, c, w, rho

(* The oldest window is at least the newest when the growth is not          *)
(* positive, and at most the newest when it is not negative: the lift to    *)
(* the least revenue keeps the order. *)
LEMMA TrendOfForm ==
  ASSUME NEW f, customBusinessFormSchema(f)
  PROVE  LET trend == profileFromCustomForm(f)[3].revenue - profileFromCustomForm(f)[1].revenue IN
         trend * f.growth >= 0 /\ (f.growth = 0 => trend = 0)
<1>. DEFINE new == profileFromCustomForm(f)[3].revenue
            old == profileFromCustomForm(f)[1].revenue
            cents == Cents(f)
            h == 100 + f.growth
            d == h * h
            n == cents * 10000
            q == Round(n, d)
<1>1. cents \in Nat /\ cents >= MIN_REVENUE /\ f.growth \in -50 .. 200 /\ h \in Nat \ {0}
  BY SchemaFields
<1>2. new = cents
  <2>1. new = GreatestOf(MIN_REVENUE, Round(cents * 1, 1))
    BY ProfileOfForm DEF Power
  <2>2. Round(1 * cents, 1) = cents
    BY <1>1, RoundExact
  <2>3. cents * 1 = 1 * cents
    BY <1>1
  <2>4. GreatestOf(MIN_REVENUE, cents) = cents
    BY <1>1, ConstantsTyped DEF GreatestOf
  <2>. QED  BY <2>1, <2>2, <2>3, <2>4
<1>3. old = GreatestOf(MIN_REVENUE, q)
  <2>1. old = GreatestOf(MIN_REVENUE, Round(cents * Power(100, 2), Power(h, 2)))
    BY ProfileOfForm
  <2>2. Power(100, 2) = 10000 /\ Power(h, 2) = d
    BY DEF Power
  <2>. QED  BY <2>1, <2>2
<1>4. d \in Nat \ {0} /\ n \in Nat
  BY <1>1
<1>5. f.growth >= 0 => d >= 10000
  <2>1. f.growth >= 0 => h >= 100 /\ h * h >= h * 100
    BY <1>1, ProductMonotone
  <2>. QED  BY <1>1, <2>1
<1>6. f.growth <= 0 => d <= 10000
  <2>1. f.growth <= 0 => h <= 100 /\ h * h <= h * 100
    BY <1>1, ProductMonotone
  <2>. QED  BY <1>1, <2>1
<1>7. d * cents = cents * d
  BY <1>1, <1>4
<1>. HIDE DEF d
<1>8. d >= 10000 => cents * 10000 <= cents * d
  BY <1>1, <1>4, ProductMonotone
<1>9. d <= 10000 => cents * d <= cents * 10000
  BY <1>1, <1>4, ProductMonotone
<1>. HIDE DEF n, h
<1>10. f.growth >= 0 => q <= cents
  BY <1>1, <1>4, <1>5, <1>7, <1>8, RoundAtMost DEF n
<1>11. f.growth <= 0 => q >= cents
  BY <1>1, <1>4, <1>6, <1>7, <1>9, RoundAtLeast DEF n
<1>12. q \in Nat
  BY <1>4, RoundIs
<1>. HIDE DEF q, new, old
<1>. DEFINE trend == new - old
<1>13. /\ trend \in Int
       /\ f.growth >= 0 => trend >= 0
       /\ f.growth <= 0 => trend <= 0
  BY <1>1, <1>2, <1>3, <1>10, <1>11, <1>12, ConstantsTyped DEF GreatestOf
<1>. HIDE DEF trend
<1>14. trend * f.growth >= 0
  BY <1>1, <1>13
<1>15. f.growth = 0 => trend = 0
  BY <1>1, <1>13
<1>. QED  BY <1>14, <1>15 DEF trend, new, old

(* Of a seeded merchant, whichever order its windows come in. *)
LEMMA TrendOfMerchant ==
  ASSUME NEW m \in DOMAIN SeededMerchant,
         NEW i \in DOMAIN SeededMerchant[m], NEW j \in DOMAIN SeededMerchant[m],
         SeededMerchant[m][i].age = 0,
         SeededMerchant[m][j].age = Len(SeededMerchant[m]) - 1
  PROVE  extractFeatures(SeededMerchant[m]).trend
           = SeededMerchant[m][i].revenue - SeededMerchant[m][j].revenue
<1>. DEFINE v == SeededMerchant[m]
            n == Len(v)
            S == 1 .. n
            Perm == Bijection(S, S)
            Sorted(w) == \A x, y \in S : x < y => w[x].age >= w[y].age
            P == {[x \in S |-> v[p[x]]] : p \in Perm}
            at(k) == CHOOSE x \in S : v[x].age = n - k
            perm == [k \in S |-> at(k)]
            sorted == [k \in S |-> v[perm[k]]]
            w == CHOOSE u \in P : Sorted(u)
<1>1. n \in Nat \ {0} /\ DOMAIN v = S
      /\ [x \in S |-> v[x].age] \in Bijection(1 .. n, 0 .. n - 1)
  BY PanelAssumption
<1>2. OldestFirst(v) = w
  BY <1>1 DEF OldestFirst
<1>. HIDE DEF v, n
<1>3. /\ \A x \in S : v[x].age \in 0 .. n - 1
      /\ \A x, y \in S : v[x].age = v[y].age => x = y
      /\ \A a \in 0 .. n - 1 : \E x \in S : v[x].age = a
  <2>. DEFINE g == [x \in S |-> v[x].age]
  <2>1. g \in [S -> 0 .. n - 1] /\ (\A x, y \in S : g[x] = g[y] => x = y)
        /\ \A a \in 0 .. n - 1 : \E x \in S : g[x] = a
    BY <1>1 DEF Bijection, Injection, Surjection, IsInjective
  <2>2. \A x \in S : g[x] = v[x].age
    OBVIOUS
  <2>. QED  BY <2>1, <2>2
<1>4. \A k \in S : at(k) \in S /\ v[at(k)].age = n - k
  <2>. SUFFICES ASSUME NEW k \in S PROVE at(k) \in S /\ v[at(k)].age = n - k
    OBVIOUS
  <2>1. n - k \in 0 .. n - 1
    BY <1>1
  <2>. QED  BY <1>3, <2>1
<1>. HIDE DEF at
<1>5. perm \in Perm
  <2>1. perm \in [S -> S] /\ \A k \in S : perm[k] \in S /\ v[perm[k]].age = n - k
    BY <1>4
  <2>. HIDE DEF perm
  <2>2. \A x, y \in S : perm[x] = perm[y] => x = y
    <3>. SUFFICES ASSUME NEW x \in S, NEW y \in S, perm[x] = perm[y] PROVE x = y
      OBVIOUS
    <3>1. v[perm[x]].age = n - x /\ v[perm[y]].age = n - y
      BY <2>1
    <3>2. n - x = n - y
      BY <3>1
    <3>. QED  BY <1>1, <3>2
  <2>3. \A y \in S : \E x \in S : perm[x] = y
    <3>. SUFFICES ASSUME NEW y \in S PROVE \E x \in S : perm[x] = y
      OBVIOUS
    <3>1. v[y].age \in 0 .. n - 1
      BY <1>3
    <3>2. \E x \in S : n - x = v[y].age
      <4>1. n - v[y].age \in S /\ n - (n - v[y].age) = v[y].age
        BY <1>1, <3>1
      <4>. QED  BY <4>1
    <3>3. PICK x \in S : n - x = v[y].age
      BY <3>2
    <3>4. perm[x] = y
      <4>1. perm[x] \in S /\ v[perm[x]].age = v[y].age
        BY <2>1, <3>3
      <4>. QED  BY <1>3, <4>1
    <3>. QED  BY <3>4
  <2>. QED  BY <2>1, <2>2, <2>3 DEF Bijection, Injection, Surjection, IsInjective
<1>6. sorted \in P
  <2>. HIDE DEF perm, Perm
  <2>. QED  BY <1>5
<1>7. Sorted(sorted)
  <2>1. \A k \in S : sorted[k].age = n - k
    BY <1>4
  <2>. HIDE DEF sorted, perm
  <2>2. ASSUME NEW x \in S, NEW y \in S, x < y PROVE sorted[x].age >= sorted[y].age
    BY <1>1, <2>1, <2>2
  <2>. QED  BY <2>2
<1>. HIDE DEF sorted, perm
<1>8. w \in P /\ Sorted(w)
  <2>. HIDE DEF P, Sorted
  <2>. QED  BY <1>6, <1>7
<1>. HIDE DEF w
<1>9. PICK p \in Perm : w = [x \in S |-> v[p[x]]]
  BY <1>8
<1>10. p \in [S -> S] /\ \A y \in S : \E x \in S : p[x] = y
  BY DEF Bijection, Injection, Surjection
<1>11. \A x \in S : w[x] = v[p[x]] /\ p[x] \in S
  BY <1>9, <1>10
<1>12. 1 \in S /\ n \in S
  BY <1>1
<1>13. i \in S /\ j \in S /\ v[i].age = 0 /\ v[j].age = n - 1
  BY <1>1 DEF v, n
<1>14. w[1] = v[j]
  <2>1. PICK x \in S : p[x] = j
    BY <1>10, <1>13
  <2>2. w[1].age >= w[x].age
    BY <1>1, <1>3, <1>8, <1>11, <1>12, x = 1 \/ 1 < x
  <2>3. w[x] = v[j] /\ w[1] = v[p[1]] /\ p[1] \in S
    BY <1>11, <1>12, <2>1
  <2>4. v[p[1]].age \in 0 .. n - 1 /\ v[p[1]].age >= n - 1
    BY <1>3, <1>13, <2>2, <2>3
  <2>5. v[p[1]].age = v[j].age
    BY <1>1, <1>13, <2>4
  <2>6. p[1] = j
    BY <1>3, <1>13, <2>3, <2>5
  <2>. QED  BY <2>3, <2>6
<1>15. w[n] = v[i]
  <2>1. PICK x \in S : p[x] = i
    BY <1>10, <1>13
  <2>2. w[x].age >= w[n].age
    BY <1>1, <1>3, <1>8, <1>11, <1>12, x = n \/ x < n
  <2>3. w[x] = v[i] /\ w[n] = v[p[n]] /\ p[n] \in S
    BY <1>11, <1>12, <2>1
  <2>4. v[p[n]].age \in 0 .. n - 1 /\ 0 >= v[p[n]].age
    BY <1>3, <1>13, <2>2, <2>3
  <2>5. v[p[n]].age = v[i].age
    BY <1>1, <1>13, <2>4
  <2>6. p[n] = i
    BY <1>3, <1>13, <2>3, <2>5
  <2>. QED  BY <2>3, <2>6
<1>16. Len(w) = n
  <2>1. w = [x \in 1 .. n |-> w[x]]
    BY <1>9
  <2>. QED  BY <1>1, <2>1, LengthOf
<1>17. extractFeatures(v).trend = w[n].revenue - w[1].revenue
  BY <1>2, <1>16 DEF extractFeatures
<1>. QED  BY <1>14, <1>15, <1>17 DEF v

---------------------------------------------------------------------------
(* The panel. *)

PanelInv == PanelTypeOK /\ ValidFormResolves

LEMMA PanelInvInit == PanelInit => PanelInv
  BY PanelAssumption DEF PanelInit, PanelInv, PanelTypeOK, ValidFormResolves, Kind, Busy

LEMMA PanelInvStep == PanelInv /\ [PanelNext]_panelVars => PanelInv'
<1>. SUFFICES ASSUME PanelInv, [PanelNext]_panelVars PROVE PanelInv'
  OBVIOUS
<1>. USE DEF PanelInv, PanelTypeOK, ValidFormResolves
<1>1. CASE Toggle
  BY <1>1 DEF Toggle, jobVars
<1>2. ASSUME NEW f, NEW v, SetField(f, v) PROVE PanelInv'
  BY <1>2 DEF SetField, jobVars
<1>3. ASSUME NEW i \in Industry, changeIndustry(i) PROVE PanelInv'
  BY <1>3 DEF changeIndustry, Overlaid, jobVars
<1>4. ASSUME NEW j \in Job, scoreDemoMerchant(j) PROVE PanelInv'
  BY <1>4, PanelAssumption DEF scoreDemoMerchant, Start, Kind, Busy
<1>5. ASSUME NEW j \in Job, submit(j) PROVE PanelInv'
  <2>1. Resolves(form)
    <3>1. form.growth \in -50 .. 200 /\ {form.refund, form.chargeback} \subseteq 0 .. MAX_RATE
      BY <1>5 DEF submit, customBusinessFormSchema
    <3>. QED  BY <3>1 DEF Resolves
  <2>. QED  BY <1>5, <2>1, PanelAssumption DEF submit, Start, Kind, Busy
<1>6. ASSUME NEW j \in Job, End(j), card' = card, status' \in Busy \union {"idle", "done", "error"}
      PROVE  PanelInv'
  BY <1>6, PanelAssumption DEF End
<1>7. ASSUME NEW j \in Job, HearFailure(j) \/ Decline(j) \/ HearReceipt(j) PROVE PanelInv'
  BY <1>6, <1>7 DEF HearFailure, Decline, HearReceipt
<1>8. ASSUME NEW j \in Job, HearScore(j) PROVE PanelInv'
  <2>1. CASE End(j) /\ UNCHANGED <<status, card>>
    BY <1>6, <2>1
  <2>2. CASE ~(End(j) /\ UNCHANGED <<status, card>>)
    BY <1>8, <2>2 DEF HearScore, Busy
  <2>. QED  BY <2>1, <2>2
<1>9. ASSUME NEW j \in Job, Sign(j) PROVE PanelInv'
  BY <1>9 DEF Sign, Busy
<1>10. CASE WalletChanges \/ UNCHANGED panelVars
  BY <1>10 DEF WalletChanges, panelVars, jobVars
<1>. QED  BY <1>1, <1>2, <1>3, <1>4, <1>5, <1>7, <1>8, <1>9, <1>10 DEF PanelNext, JobNext

(* The panel's mode, form, status and jobs stay well typed; the form waits *)
(* only for a custom job that is under way, whatever is clicked meanwhile. *)
THEOREM PanelTypeCorrect == PanelSpec => []PanelTypeOK
<1>1. PanelInv => PanelTypeOK
  BY DEF PanelInv
<1>. QED  BY <1>1, PanelInvInit, PanelInvStep, PTL DEF PanelSpec

(* No form that passes the browser's schema is one the server fails to     *)
(* expand (revenue.ts, profileFromCustomForm), after any edits.            *)
THEOREM ValidFormsResolve == PanelSpec => []ValidFormResolves
<1>1. PanelInv => ValidFormResolves
  BY DEF PanelInv
<1>. QED  BY <1>1, PanelInvInit, PanelInvStep, PTL DEF PanelSpec

(* CustomBusinessForm.tsx:288: what the page says the AI will see is what  *)
(* it sees, to half a dollar and two cents a month, or the least month it  *)
(* is lifted to, for every revenue and growth the schema accepts.          *)
THEOREM PreviewsAreScored == PanelSpec => []PreviewIsWhatIsScored
<1>1. PreviewIsWhatIsScored
  BY PreviewOfWindow DEF PreviewIsWhatIsScored
<1>. QED  BY <1>1, PTL

(* scoring.ts, extractFeatures: the refund and chargeback rates and the    *)
(* platform's risk reach the LLM as declared, whatever the revenues they   *)
(* are weighted by, and the trend has the declared growth's sign or is 0;  *)
(* a seeded merchant's trend runs from its oldest month to its newest,     *)
(* whichever order the fixture lists them in.                              *)
THEOREM FeaturesAreAsDeclared == PanelSpec => []FeaturesAreDeclared
<1>1. ASSUME customBusinessFormSchema(form)
      PROVE  LET features == extractFeatures(profileFromCustomForm(form)) IN
             /\ features.refund = form.refund /\ features.chargeback = form.chargeback
             /\ features.risk = PLATFORM_RISK[form.platform]
             /\ features.trend * form.growth >= 0
             /\ form.growth = 0 => features.trend = 0
  BY <1>1, FeaturesOfForm, TrendOfForm
<1>2. ASSUME NEW m \in DOMAIN SeededMerchant,
             NEW v \in {SeededMerchant[m][i] : i \in DOMAIN SeededMerchant[m]},
             NEW w \in {SeededMerchant[m][i] : i \in DOMAIN SeededMerchant[m]},
             v.age = 0, w.age = Len(SeededMerchant[m]) - 1
      PROVE  extractFeatures(SeededMerchant[m]).trend = v.revenue - w.revenue
  BY <1>2, TrendOfMerchant
<1>3. FeaturesAreDeclared
  BY <1>1, <1>2 DEF FeaturesAreDeclared
<1>. QED  BY <1>3, PTL
=============================================================================
