---------------------------- MODULE CodecProofs -----------------------------
(***************************************************************************)
(* What the byte formats of the core are: bytes, varints, payloads,        *)
(* segments and pack headers (Wire, LogFormat, PackFormat), for any        *)
(* widths.                                                                 *)
(*                                                                         *)
(* A code is the function from the values of a type to their bytes.        *)
(* Parsed(o, code, s) says that o is what reading s by the code has to     *)
(* come out as: if the bytes of a value are in front of s, this value and  *)
(* the bytes behind them, and failure otherwise. A reader that is shown    *)
(* Parsed gives back what was written (a value in front is read, and only  *)
(* that one), accepts no second form (what it read is in front), and shows *)
(* that no value's bytes begin another's.                                  *)
(*                                                                         *)
(* Each reader of the modules is shown Parsed for the code of its type.    *)
(* The numbers come first: a varint is the digits of a number, and the     *)
(* digits are the number's and no other's. All else is composed, as the    *)
(* code composes it: values behind each other (One .. Seven), lists behind *)
(* their count (VecCode), lists to the end (AllCode), options and tagged   *)
(* unions, and records, which are such tuples under other names.           *)
(*                                                                         *)
(* The definitions recurse over functions; what they compute follows by    *)
(* induction over a number, as a fact about a set of numbers, and each     *)
(* recursive function is shown to exist first.                             *)
(***************************************************************************)
EXTENDS PackFormat, SequenceTheorems, FiniteSetTheorems, WellFoundedInduction, TLAPS

-----------------------------------------------------------------------------
(* Induction and recursion on numbers *)

\* Natural induction over a set: no operator has to be instantiated.
LEMMA ByInduction ==
    ASSUME NEW S, 0 \in S, \A n \in Nat : n \in S => n + 1 \in S
    PROVE  Nat \subseteq S
<1> DEFINE Left == Nat \ S
           Less == OpToRel(<, Nat)
<1> SUFFICES ASSUME Left # {} PROVE FALSE
  OBVIOUS
<1>1. \A m, k \in Nat : m < k => <<m, k>> \in Less
  BY DEF OpToRel
<1>2. PICK n \in Left : \A m \in Left : <<m, n>> \notin Less
  <2> HIDE DEF Left
  <2>1. Left \subseteq Nat
    BY DEF Left
  <2> QED
    BY <2>1, NatLessThanWellFounded, WFMin
<1> HIDE DEF Less
<1>3. n \in Nat /\ n # 0 /\ n - 1 \in Nat /\ n - 1 < n
  OBVIOUS
<1>4. n - 1 \in S
  BY <1>1, <1>2, <1>3
<1>5. (n - 1) + 1 \in S
  BY <1>3, <1>4
<1> QED
  BY <1>3, <1>5

\* A set of numbers that is not empty has a least one.
LEMMA LeastOf ==
    ASSUME NEW S \in SUBSET Nat, S # {}
    PROVE  Min(S) \in S /\ \A n \in S : Min(S) <= n
<1> DEFINE Less == OpToRel(<, Nat)
<1>1. \A m, k \in Nat : m < k => <<m, k>> \in Less
  BY DEF OpToRel
<1>2. PICK n \in S : \A m \in S : <<m, n>> \notin Less
  BY NatLessThanWellFounded, WFMin
<1> HIDE DEF Less
<1>3. \A m \in S : n <= m
  <2> SUFFICES ASSUME NEW m \in S PROVE n <= m
    OBVIOUS
  <2>1. m \in Nat /\ n \in Nat
    OBVIOUS
  <2>2. ~(m < n)
    BY <1>1, <1>2, <2>1
  <2> QED
    BY <2>1, <2>2
<1> QED
  BY <1>3 DEF Min

\* A step for each number, and what the steps make of a value.
Steps(step, X, n) == \A k \in 1 .. n : step[k] \in [X -> X]

Iterates(f, X, x0, step, n) ==
    /\ f \in [0 .. n -> X]
    /\ f[0] = x0
    /\ \A k \in 1 .. n : f[k] = step[k][f[k - 1]]

\* Recursion over the numbers to n has a solution.  The step is a function, so
\* that one lemma is enough for all recursive definitions.
LEMMA RecursionIs ==
    ASSUME NEW X, NEW x0 \in X, NEW n \in Nat, NEW step, Steps(step, X, n)
    PROVE  \E f : Iterates(f, X, x0, step, n)
<1> DEFINE Body(g, k) == IF k = 0 THEN x0 ELSE step[k][g[k - 1]]
           Solves(g, m) == g \in [0 .. m -> X] /\ \A k \in 0 .. m : g[k] = Body(g, k)
           S == {m \in Nat : m <= n => \E g : Solves(g, m)}
<1>1. 0 \in S
  <2> DEFINE g == [k \in 0 .. 0 |-> x0]
  <2>1. Solves(g, 0)
    OBVIOUS
  <2> QED
    BY <2>1
<1>2. ASSUME NEW m \in Nat, m \in S PROVE m + 1 \in S
  <2> SUFFICES ASSUME m + 1 <= n PROVE \E g : Solves(g, m + 1)
    OBVIOUS
  <2>1. PICK g : Solves(g, m)
    BY <1>2
  <2> DEFINE last == step[m + 1][g[m]]
             h == [k \in 0 .. m + 1 |-> IF k = m + 1 THEN last ELSE g[k]]
  <2>2. g[m] \in X /\ step[m + 1] \in [X -> X]
    BY <2>1 DEF Steps
  <2>3. last \in X
    BY <2>2
  <2> HIDE DEF last
  <2>4. h \in [0 .. m + 1 -> X]
    BY <2>1, <2>3
  <2>5. \A k \in 0 .. m + 1 : k # 0 => h[k - 1] = g[k - 1]
    OBVIOUS
  <2>6. \A k \in 0 .. m : g[k] = Body(g, k)
    BY <2>1
  <2>7. \A k \in 0 .. m + 1 : h[k] = Body(h, k)
    <3> SUFFICES ASSUME NEW k \in 0 .. m + 1 PROVE h[k] = Body(h, k)
      OBVIOUS
    <3>1. CASE k = m + 1
      BY <2>5, <3>1 DEF last
    <3>2. CASE k # m + 1
      <4>1. k \in 0 .. m /\ h[k] = g[k]
        BY <3>2
      <4> QED
        BY <2>5, <2>6, <4>1
    <3> QED
      BY <3>1, <3>2
  <2> HIDE DEF h
  <2> QED
    BY <2>4, <2>7
<1>3. n \in S
  <2> HIDE DEF S
  <2> QED
    BY <1>1, <1>2, ByInduction
<1>4. PICK f : Solves(f, n)
  BY <1>3
<1>5. Iterates(f, X, x0, step, n)
  BY <1>4 DEF Iterates
<1> QED
  BY <1>5

-----------------------------------------------------------------------------
(* Powers *)

\* What Power is defined by has a solution.
LEMMA PowerRecursion ==
    ASSUME NEW b \in Nat, NEW n \in Nat
    PROVE  \E power \in [0 .. n -> Nat] :
              /\ Power(b, n) = power[n] /\ power[0] = 1
              /\ \A k \in 1 .. n : power[k] = b * power[k - 1]
<1> DEFINE Solves(f) == f = [k \in 0 .. n |-> IF k = 0 THEN 1 ELSE b * f[k - 1]]
           step == [k \in 1 .. n |-> [y \in Nat |-> b * y]]
<1>1. PICK f : Iterates(f, Nat, 1, step, n)
  <2>1. Steps(step, Nat, n)
    BY DEF Steps
  <2> HIDE DEF step
  <2> QED
    BY <2>1, RecursionIs
<1>2. f \in [0 .. n -> Nat] /\ f[0] = 1 /\ \A k \in 1 .. n : f[k] = b * f[k - 1]
  <2>1. f \in [0 .. n -> Nat] /\ f[0] = 1 /\ \A k \in 1 .. n : f[k] = step[k][f[k - 1]]
    BY <1>1 DEF Iterates
  <2>2. ASSUME NEW k \in 1 .. n PROVE f[k] = b * f[k - 1]
    <3>1. f[k - 1] \in Nat
      BY <2>1
    <3> QED
      BY <2>1, <3>1
  <2> QED
    BY <2>1, <2>2
<1>3. Solves(f)
  BY <1>2
<1> DEFINE power == CHOOSE g : Solves(g)
<1>4. Power(b, n) = power[n]
  BY DEF Power
<1>5. Solves(power)
  <2> HIDE DEF Solves
  <2> QED
    BY <1>3
<1> HIDE DEF power
<1>6. power[0] = 1 /\ \A k \in 1 .. n : power[k] = b * power[k - 1]
  BY <1>5
<1> DEFINE S == {k \in Nat : k <= n => power[k] \in Nat}
<1>7. Nat \subseteq S
  <2>1. 0 \in S
    BY <1>6
  <2>2. ASSUME NEW k \in Nat, k \in S PROVE k + 1 \in S
    <3>1. CASE k + 1 <= n
      <4>1. power[k] \in Nat /\ k + 1 \in 1 .. n /\ (k + 1) - 1 = k
        BY <2>2, <3>1
      <4>2. power[k + 1] = b * power[k]
        BY <1>6, <4>1
      <4> QED
        BY <4>1, <4>2
    <3> QED
      BY <3>1
  <2> HIDE DEF S
  <2> QED
    BY <2>1, <2>2, ByInduction
<1>8. power = [k \in 0 .. n |-> power[k]]
  BY <1>5
<1>9. power \in [0 .. n -> Nat]
  BY <1>7, <1>8
<1> QED
  BY <1>4, <1>6, <1>9

\* Powers are numbers, and grow by the base.
LEMMA PowerIs ==
    ASSUME NEW b \in Nat
    PROVE  /\ Power(b, 0) = 1
           /\ \A n \in Nat : Power(b, n) \in Nat /\ Power(b, n + 1) = b * Power(b, n)
<1>1. Power(b, 0) = 1
  BY PowerRecursion
<1>2. ASSUME NEW n \in Nat PROVE Power(b, n) \in Nat
  <2>1. PICK f \in [0 .. n -> Nat] : Power(b, n) = f[n]
    BY PowerRecursion
  <2> QED
    BY <2>1
<1>3. ASSUME NEW n \in Nat PROVE Power(b, n + 1) = b * Power(b, n)
  <2>1. PICK f \in [0 .. n -> Nat] : /\ Power(b, n) = f[n] /\ f[0] = 1
                                     /\ \A k \in 1 .. n : f[k] = b * f[k - 1]
    BY PowerRecursion
  <2>2. PICK g \in [0 .. n + 1 -> Nat] : /\ Power(b, n + 1) = g[n + 1] /\ g[0] = 1
                                         /\ \A k \in 1 .. n + 1 : g[k] = b * g[k - 1]
    <3>1. n + 1 \in Nat
      OBVIOUS
    <3> QED
      BY <3>1, PowerRecursion
  <2> DEFINE S == {k \in Nat : k <= n => g[k] = f[k]}
  <2>3. 0 \in S
    BY <2>1, <2>2
  <2>4. ASSUME NEW k \in Nat, k \in S PROVE k + 1 \in S
    <3>1. CASE k + 1 <= n
      <4>1. k + 1 \in 1 .. n /\ k + 1 \in 1 .. n + 1 /\ (k + 1) - 1 = k /\ g[k] = f[k]
        BY <2>4, <3>1
      <4>2. g[k + 1] = b * g[k] /\ f[k + 1] = b * f[k]
        BY <2>1, <2>2, <4>1
      <4> QED
        BY <4>1, <4>2
    <3> QED
      BY <3>1
  <2>5. n \in S
    <3> HIDE DEF S
    <3> QED
      BY <2>3, <2>4, ByInduction
  <2>6. n + 1 \in 1 .. n + 1 /\ (n + 1) - 1 = n /\ g[n] = f[n]
    BY <2>5
  <2>7. g[n + 1] = b * g[n]
    BY <2>2, <2>6
  <2> QED
    BY <2>1, <2>2, <2>6, <2>7
<1> QED
  BY <1>1, <1>2, <1>3

\* No power is zero if the base is not.
LEMMA PowerPositive ==
    ASSUME NEW b \in Nat \ {0}, NEW n \in Nat
    PROVE  Power(b, n) \in Nat \ {0}
<1> DEFINE S == {k \in Nat : Power(b, k) \in Nat \ {0}}
<1>1. 0 \in S
  BY PowerIs
<1>2. ASSUME NEW k \in Nat, k \in S PROVE k + 1 \in S
  <2>1. Power(b, k) \in Nat \ {0} /\ Power(b, k + 1) = b * Power(b, k)
    BY <1>2, PowerIs
  <2>2. PICK p \in Nat \ {0} : p = Power(b, k)
    BY <2>1
  <2>3. b * p \in Nat \ {0}
    OBVIOUS
  <2> QED
    BY <2>1, <2>2, <2>3
<1> HIDE DEF S
<1>3. n \in S
  BY <1>1, <1>2, ByInduction
<1> QED
  BY <1>3 DEF S

\* To the power of a sum.
LEMMA PowerOfSum ==
    ASSUME NEW b \in Nat, NEW m \in Nat, NEW n \in Nat
    PROVE  Power(b, m + n) = Power(b, m) * Power(b, n)
<1> DEFINE S == {k \in Nat : Power(b, m + k) = Power(b, m) * Power(b, k)}
<1>1. 0 \in S
  BY PowerIs
<1>2. ASSUME NEW k \in Nat, k \in S PROVE k + 1 \in S
  <2>1. /\ Power(b, m + k) = Power(b, m) * Power(b, k)
        /\ Power(b, (m + k) + 1) = b * Power(b, m + k) /\ Power(b, k + 1) = b * Power(b, k)
        /\ m + (k + 1) = (m + k) + 1
    BY <1>2, PowerIs
  <2>2. PICK p \in Nat, q \in Nat : p = Power(b, m) /\ q = Power(b, k)
    BY PowerIs
  <2>3. b * (p * q) = p * (b * q)
    OBVIOUS
  <2> QED
    BY <2>1, <2>2, <2>3
<1> HIDE DEF S
<1>3. n \in S
  BY <1>1, <1>2, ByInduction
<1> QED
  BY <1>3 DEF S

-----------------------------------------------------------------------------
(* Digits *)

\* Division with a remainder.
LEMMA DivisionIs ==
    ASSUME NEW b \in Nat \ {0}, NEW v \in Nat
    PROVE  /\ v \div b \in Nat /\ v % b \in 0 .. b - 1
           /\ v = (v % b) + b * (v \div b)
  OBVIOUS

\* There is one quotient and one remainder.
LEMMA QuotientIs ==
    ASSUME NEW b \in Nat \ {0}, NEW q \in Nat, NEW r \in 0 .. b - 1
    PROVE  (r + b * q) \div b = q /\ (r + b * q) % b = r
<1>1. PICK v \in Nat : v = r + b * q
  OBVIOUS
<1>2. PICK p \in Nat, s \in 0 .. b - 1 : p = v \div b /\ s = v % b /\ v = s + b * p
  BY DivisionIs
<1>3. ~(p < q)
  <2> SUFFICES ASSUME p < q PROVE FALSE
    OBVIOUS
  <2>1. PICK d \in Nat : q = (p + 1) + d
    <3>1. q - (p + 1) \in Nat
      OBVIOUS
    <3> QED
      BY <3>1
  <2>2. b * q = b * p + b + b * d /\ b * d \in Nat /\ b * p \in Nat
    BY <2>1
  <2> QED
    BY <1>1, <1>2, <2>2
<1>4. ~(q < p)
  <2> SUFFICES ASSUME q < p PROVE FALSE
    OBVIOUS
  <2>1. PICK d \in Nat : p = (q + 1) + d
    <3>1. p - (q + 1) \in Nat
      OBVIOUS
    <3> QED
      BY <3>1
  <2>2. b * p = b * q + b + b * d /\ b * d \in Nat /\ b * q \in Nat
    BY <2>1
  <2> QED
    BY <1>1, <1>2, <2>2
<1>5. p = q
  BY <1>3, <1>4
<1>6. s = r
  BY <1>1, <1>2, <1>5
<1> QED
  BY <1>1, <1>2, <1>5, <1>6

\* What Quotients is defined by has a solution.
LEMMA QuotientsIs ==
    ASSUME NEW v \in Nat, NEW b \in Nat \ {0}, NEW n \in Nat
    PROVE  /\ Quotients(v, b, n) \in [0 .. n -> Nat]
           /\ Quotients(v, b, n)[0] = v
           /\ \A k \in 1 .. n : Quotients(v, b, n)[k] = Quotients(v, b, n)[k - 1] \div b
<1> DEFINE Solves(f) == f = [k \in 0 .. n |-> IF k = 0 THEN v ELSE f[k - 1] \div b]
           step == [k \in 1 .. n |-> [y \in Nat |-> y \div b]]
<1>1. PICK f : Iterates(f, Nat, v, step, n)
  <2>1. Steps(step, Nat, n)
    BY DivisionIs DEF Steps
  <2> HIDE DEF step
  <2> QED
    BY <2>1, RecursionIs
<1>2. f \in [0 .. n -> Nat] /\ f[0] = v /\ \A k \in 1 .. n : f[k] = f[k - 1] \div b
  <2>1. f \in [0 .. n -> Nat] /\ f[0] = v /\ \A k \in 1 .. n : f[k] = step[k][f[k - 1]]
    BY <1>1 DEF Iterates
  <2>2. ASSUME NEW k \in 1 .. n PROVE f[k] = f[k - 1] \div b
    <3>1. f[k - 1] \in Nat
      BY <2>1
    <3> QED
      BY <2>1, <3>1
  <2> QED
    BY <2>1, <2>2
<1>3. Solves(f)
  BY <1>2
<1> DEFINE rest == CHOOSE g : Solves(g)
<1>4. Quotients(v, b, n) = rest
  BY DEF Quotients
<1>5. Solves(rest)
  <2> HIDE DEF Solves
  <2> QED
    BY <1>3
<1> HIDE DEF rest
<1>6. rest[0] = v /\ \A k \in 1 .. n : rest[k] = rest[k - 1] \div b
  BY <1>5
<1> DEFINE S == {k \in Nat : k <= n => rest[k] \in Nat}
<1>7. Nat \subseteq S
  <2>1. 0 \in S
    BY <1>6
  <2>2. ASSUME NEW k \in Nat, k \in S PROVE k + 1 \in S
    <3>1. CASE k + 1 <= n
      <4>1. rest[k] \in Nat /\ k + 1 \in 1 .. n /\ (k + 1) - 1 = k
        BY <2>2, <3>1
      <4>2. rest[k + 1] = rest[k] \div b
        BY <1>6, <4>1
      <4>3. rest[k + 1] \in Nat
        BY <4>1, <4>2, DivisionIs
      <4> QED
        BY <4>3
    <3> QED
      BY <3>1
  <2> HIDE DEF S
  <2> QED
    BY <2>1, <2>2, ByInduction
<1>8. rest = [k \in 0 .. n |-> rest[k]]
  BY <1>5
<1>9. rest \in [0 .. n -> Nat]
  BY <1>7, <1>8
<1> QED
  BY <1>4, <1>6, <1>9

\* From the highest digit downwards, the digits add up to their number.
LEMMA NumberIs ==
    ASSUME NEW digits \in Seq(Nat), NEW b \in Nat
    PROVE  \E high \in [0 .. Len(digits) -> Nat] :
              /\ Number(digits, b) = high[Len(digits)] /\ high[0] = 0
              /\ \A k \in 1 .. Len(digits) :
                    high[k] = digits[Len(digits) - k + 1] + b * high[k - 1]
<1> DEFINE n == Len(digits)
           Solves(f) == f = [k \in 0 .. n |->
                               IF k = 0 THEN 0 ELSE digits[Len(digits) - k + 1] + b * f[k - 1]]
           step == [k \in 1 .. n |-> [y \in Nat |-> digits[n - k + 1] + b * y]]
<1>0. n \in Nat /\ \A k \in 1 .. n : digits[n - k + 1] \in Nat
  OBVIOUS
<1>1. PICK f : Iterates(f, Nat, 0, step, n)
  <2>1. Steps(step, Nat, n)
    BY <1>0 DEF Steps
  <2> HIDE DEF step, n
  <2> QED
    BY <1>0, <2>1, RecursionIs
<1>2. f \in [0 .. n -> Nat] /\ f[0] = 0
      /\ \A k \in 1 .. n : f[k] = digits[n - k + 1] + b * f[k - 1]
  <2>1. f \in [0 .. n -> Nat] /\ f[0] = 0 /\ \A k \in 1 .. n : f[k] = step[k][f[k - 1]]
    BY <1>1 DEF Iterates
  <2>2. ASSUME NEW k \in 1 .. n PROVE f[k] = digits[n - k + 1] + b * f[k - 1]
    <3> HIDE DEF n
    <3>1. f[k - 1] \in Nat
      BY <1>0, <2>1
    <3> QED
      BY <2>1, <3>1
  <2> QED
    BY <2>1, <2>2
<1>3. Solves(f)
  BY <1>0, <1>2
<1> DEFINE high == CHOOSE g : Solves(g)
<1>4. Number(digits, b) = high[n]
  BY DEF Number
<1>5. Solves(high)
  <2> HIDE DEF Solves
  <2> QED
    BY <1>3
<1> HIDE DEF high, n
<1>6. high[0] = 0 /\ \A k \in 1 .. n : high[k] = digits[n - k + 1] + b * high[k - 1]
  <2>1. \A k \in 0 .. n : high[k] = IF k = 0 THEN 0 ELSE digits[n - k + 1] + b * high[k - 1]
    BY <1>5 DEF n
  <2> QED
    BY <1>0, <2>1
<1> DEFINE S == {k \in Nat : k <= n => high[k] \in Nat}
<1>7. Nat \subseteq S
  <2>1. 0 \in S
    BY <1>6
  <2>2. ASSUME NEW k \in Nat, k \in S PROVE k + 1 \in S
    <3>1. CASE k + 1 <= n
      <4>1. high[k] \in Nat /\ k + 1 \in 1 .. n /\ (k + 1) - 1 = k
        BY <1>0, <2>2, <3>1
      <4>2. high[k + 1] = digits[n - (k + 1) + 1] + b * high[k] /\ digits[n - (k + 1) + 1] \in Nat
        BY <1>0, <1>6, <4>1
      <4>3. \A d \in Nat, y \in Nat : d + b * y \in Nat
        OBVIOUS
      <4>4. high[k + 1] \in Nat
        BY <4>1, <4>2, <4>3
      <4> QED
        BY <4>4
    <3> QED
      BY <3>1, <1>0
  <2> HIDE DEF S
  <2> QED
    BY <2>1, <2>2, ByInduction
<1>8. high = [k \in 0 .. n |-> high[k]]
  BY <1>5 DEF n
<1>9. high \in [0 .. n -> Nat]
  BY <1>7, <1>8
<1> QED
  BY <1>4, <1>6, <1>9 DEF n

\* What the quotients of a number are taken from, from the last one backwards,
\* The digits of v to the base b, of which there may be m.
AreDigits(digits, v, b, m) ==
    /\ \A i \in 1 .. Len(digits) - 1 : digits[i] = Quotients(v, b, m)[i - 1] % b
    /\ digits[Len(digits)] = Quotients(v, b, m)[Len(digits) - 1]

AllBelow(digits, b) == \A i \in 1 .. Len(digits) - 1 : digits[i] \in 0 .. b - 1

NoneZero(rest, n) == \A i \in 0 .. n - 1 : rest[i] # 0

\* is the number itself.
LEMMA NumberOfQuotients ==
    ASSUME NEW v \in Nat, NEW b \in Nat \ {0}, NEW m \in Nat, NEW n \in 1 .. m,
           NEW digits \in Seq(Nat), Len(digits) = n, AreDigits(digits, v, b, m)
    PROVE  Number(digits, b) = v
<1>a. /\ \A i \in 1 .. n - 1 : digits[i] = Quotients(v, b, m)[i - 1] % b
      /\ digits[n] = Quotients(v, b, m)[n - 1]
  BY DEF AreDigits
<1>0. n \in Nat /\ n - 1 \in Nat /\ n <= m
  OBVIOUS
<1>1. PICK rest : /\ rest = Quotients(v, b, m)
                 /\ rest \in [0 .. m -> Nat] /\ rest[0] = v
                 /\ \A k \in 1 .. m : rest[k] = rest[k - 1] \div b
  <2>1. /\ Quotients(v, b, m) \in [0 .. m -> Nat] /\ Quotients(v, b, m)[0] = v
        /\ \A k \in 1 .. m : Quotients(v, b, m)[k] = Quotients(v, b, m)[k - 1] \div b
    BY QuotientsIs
  <2> QED
    BY <2>1
<1>2. PICK high \in [0 .. n -> Nat] :
         /\ Number(digits, b) = high[n] /\ high[0] = 0
         /\ \A k \in 1 .. n : high[k] = digits[n - k + 1] + b * high[k - 1]
  BY NumberIs
<1> DEFINE S == {k \in Nat : k < n => high[k + 1] = rest[n - (k + 1)]}
<1>3. 0 \in S
  <2>1. high[1] = digits[n - 1 + 1] + b * high[1 - 1] /\ n - 1 + 1 = n /\ 1 - 1 = 0
    BY <1>2
  <2>2. b * 0 = 0 /\ n - (0 + 1) = n - 1 /\ digits[n] \in Nat
    OBVIOUS
  <2> QED
    BY <1>a, <1>1, <1>2, <2>1, <2>2
<1>4. ASSUME NEW k \in Nat, k \in S PROVE k + 1 \in S
  <2> SUFFICES ASSUME k + 1 < n PROVE high[(k + 1) + 1] = rest[n - ((k + 1) + 1)]
    OBVIOUS
  <2>1. PICK i \in 1 .. n - 1 : i = n - (k + 1)
    OBVIOUS
  <2>2. /\ high[k + 1] = rest[i]
        /\ high[(k + 1) + 1] = digits[n - ((k + 1) + 1) + 1] + b * high[((k + 1) + 1) - 1]
        /\ n - ((k + 1) + 1) + 1 = i /\ ((k + 1) + 1) - 1 = k + 1 /\ n - ((k + 1) + 1) = i - 1
    BY <1>2, <1>4, <2>1
  <2>3. digits[i] = rest[i - 1] % b /\ rest[i] = rest[i - 1] \div b /\ rest[i - 1] \in Nat
    <3>1. i \in 1 .. m /\ i - 1 \in 0 .. m
      BY <1>0
    <3> QED
      BY <1>a, <1>1, <3>1
  <2>4. rest[i - 1] = (rest[i - 1] % b) + b * (rest[i - 1] \div b)
    BY <2>3, DivisionIs
  <2> QED
    BY <2>2, <2>3, <2>4
<1> HIDE DEF S
<1>5. n - 1 \in S
  BY <1>0, <1>3, <1>4, ByInduction
<1>6. high[(n - 1) + 1] = rest[n - ((n - 1) + 1)] /\ (n - 1) + 1 = n /\ n - n = 0
  BY <1>5 DEF S
<1> QED
  BY <1>1, <1>2, <1>6

\* And the other way round: the digits of a number come back out of it.
LEMMA QuotientsOfNumber ==
    ASSUME NEW b \in Nat \ {0}, NEW m \in Nat, NEW n \in 1 .. m,
           NEW digits \in Seq(Nat), Len(digits) = n, AllBelow(digits, b)
    PROVE  /\ Number(digits, b) \in Nat
           /\ AreDigits(digits, Number(digits, b), b, m)
           /\ digits[n] # 0 => NoneZero(Quotients(Number(digits, b), b, m), n)
<1>a. \A i \in 1 .. n - 1 : digits[i] \in 0 .. b - 1
  BY DEF AllBelow
<1>0. n \in Nat /\ n - 1 \in Nat /\ n <= m
  OBVIOUS
<1>1. PICK high \in [0 .. n -> Nat] :
         /\ Number(digits, b) = high[n] /\ high[0] = 0
         /\ \A k \in 1 .. n : high[k] = digits[n - k + 1] + b * high[k - 1]
  BY NumberIs
<1>2. PICK v \in Nat : v = Number(digits, b)
  BY <1>1
<1>3. PICK rest : /\ rest = Quotients(v, b, m)
                 /\ rest \in [0 .. m -> Nat] /\ rest[0] = v
                 /\ \A k \in 1 .. m : rest[k] = rest[k - 1] \div b
  <2>1. /\ Quotients(v, b, m) \in [0 .. m -> Nat] /\ Quotients(v, b, m)[0] = v
        /\ \A k \in 1 .. m : Quotients(v, b, m)[k] = Quotients(v, b, m)[k - 1] \div b
    BY QuotientsIs
  <2> QED
    BY <2>1
<1>4. ASSUME NEW i \in 1 .. n - 1, rest[i - 1] = high[n - (i - 1)]
      PROVE  rest[i] = high[n - i] /\ rest[i - 1] % b = digits[i]
  <2>a. n - (i - 1) \in 1 .. n /\ n - i \in 0 .. n
    BY <1>0
  <2>1. high[n - (i - 1)] = digits[n - (n - (i - 1)) + 1] + b * high[(n - (i - 1)) - 1]
    BY <1>1, <2>a
  <2>b. high[n - i] \in Nat
    BY <2>a
  <2>2. n - (n - (i - 1)) + 1 = i /\ (n - (i - 1)) - 1 = n - i /\ high[n - i] \in Nat
    <3>1. i \in Int
      OBVIOUS
    <3> QED
      BY <1>0, <2>b, <3>1
  <2>3. rest[i - 1] = digits[i] + b * high[n - i]
    BY <1>4, <2>1, <2>2
  <2>4. (digits[i] + b * high[n - i]) \div b = high[n - i]
            /\ (digits[i] + b * high[n - i]) % b = digits[i]
    BY <1>a, <2>2, QuotientIs
  <2>5. rest[i] = rest[i - 1] \div b
    BY <1>3
  <2> QED
    BY <2>3, <2>4, <2>5
<1> DEFINE S == {k \in Nat : k < n => rest[k] = high[n - k]}
<1>5. 0 \in S
  BY <1>1, <1>2, <1>3
<1>6. ASSUME NEW k \in Nat, k \in S PROVE k + 1 \in S
  <2> SUFFICES ASSUME k + 1 < n PROVE rest[k + 1] = high[n - (k + 1)]
    OBVIOUS
  <2>1. k + 1 \in 1 .. n - 1 /\ (k + 1) - 1 = k /\ rest[k] = high[n - k]
    BY <1>6
  <2> QED
    BY <1>4, <2>1
<1>7. Nat \subseteq S
  <2> HIDE DEF S
  <2> QED
    BY <1>5, <1>6, ByInduction
<1>8. \A k \in 0 .. n - 1 : rest[k] = high[n - k]
  BY <1>7
<1>9. \A i \in 1 .. n - 1 : rest[i - 1] % b = digits[i]
  BY <1>4, <1>8
<1>10. rest[n - 1] = digits[n]
  <2>1. high[1] = digits[n - 1 + 1] + b * high[1 - 1] /\ n - 1 + 1 = n /\ 1 - 1 = 0
        /\ b * 0 = 0 /\ digits[n] \in Nat
    BY <1>1
  <2>2. high[1] = digits[n]
    BY <1>1, <2>1
  <2>3. n - 1 \in 0 .. n - 1 /\ n - (n - 1) = 1
    OBVIOUS
  <2> QED
    BY <1>8, <2>2, <2>3
<1>11. ASSUME digits[n] # 0, NEW i \in 0 .. n - 1 PROVE rest[i] # 0
  <2> DEFINE P == {k \in Nat : k < n => rest[(n - 1) - k] # 0}
  <2>1. 0 \in P
    BY <1>10, <1>11
  <2>2. ASSUME NEW k \in Nat, k \in P PROVE k + 1 \in P
    <3> SUFFICES ASSUME k + 1 < n PROVE rest[(n - 1) - (k + 1)] # 0
      OBVIOUS
    <3>1. PICK j \in 1 .. n - 1 : j = (n - 1) - k
      OBVIOUS
    <3>2. rest[j] # 0 /\ rest[j] = rest[j - 1] \div b /\ (n - 1) - (k + 1) = j - 1
      BY <1>3, <2>2, <3>1
    <3> QED
      BY <3>2
  <2> HIDE DEF P
  <2>a. (n - 1) - i \in Nat
    BY <1>0
  <2>3. (n - 1) - i \in P
    BY <2>1, <2>2, <2>a, ByInduction
  <2>4. (n - 1) - ((n - 1) - i) = i
    OBVIOUS
  <2> QED
    BY <2>3, <2>4 DEF P
<1>12. AreDigits(digits, v, b, m)
  BY <1>3, <1>9, <1>10 DEF AreDigits
<1>13. digits[n] # 0 => NoneZero(rest, n)
  BY <1>11 DEF NoneZero
<1> QED
  BY <1>2, <1>3, <1>12, <1>13

\* What the proofs need of products.
LEMMA ProductOrder ==
    ASSUME NEW b \in Nat \ {0}, NEW h \in Nat, NEW w \in Nat, NEW d \in 0 .. b - 1
    PROVE  h < w <=> d + b * h < b * w
<1>1. ASSUME h < w PROVE d + b * h < b * w
  <2>1. PICK q \in Nat : w = (h + 1) + q
    <3>1. w - (h + 1) \in Nat
      BY <1>1
    <3> QED
      BY <3>1
  <2>2. b * w = b * h + b + b * q /\ b * q \in Nat /\ b * h \in Nat
    BY <2>1
  <2> QED
    BY <2>2
<1>2. ASSUME ~(h < w) PROVE ~(d + b * h < b * w)
  <2>1. PICK q \in Nat : h = w + q
    <3>1. h - w \in Nat
      BY <1>2
    <3> QED
      BY <3>1
  <2>2. b * h = b * w + b * q /\ b * q \in Nat /\ b * w \in Nat
    BY <2>1
  <2> QED
    BY <2>2
<1> QED
  BY <1>1, <1>2

\* The order of two factors makes no difference.
LEMMA ProductSwap ==
    \A a, b, c \in Nat : a * (b * c) = b * (a * c) /\ a * c \in Nat
  OBVIOUS

\* Of at most n digits more than a number less than c.
Below(v, c, b, n) == v < c * Power(b, n)

\* The numbers of so many digits are those below a power.
LEMMA BelowIs ==
    ASSUME NEW v \in Nat, NEW c \in Nat \ {0}, NEW b \in Nat \ {0}
    PROVE  /\ Below(v, c, b, 0) <=> v < c
           /\ \A n \in Nat, d \in 0 .. b - 1 : Below(v, c, b, n) <=> Below(d + b * v, c, b, n + 1)
<1>1. Below(v, c, b, 0) <=> v < c
  <2>1. Power(b, 0) = 1 /\ c * 1 = c
    BY PowerIs
  <2> QED
    BY <2>1 DEF Below
<1>2. ASSUME NEW n \in Nat, NEW d \in 0 .. b - 1
      PROVE  Below(v, c, b, n) <=> Below(d + b * v, c, b, n + 1)
  <2>1. PICK p \in Nat : p = Power(b, n) /\ Power(b, n + 1) = b * p
    BY PowerIs
  <2>2. PICK w \in Nat : w = c * p /\ c * (b * p) = b * w
    BY ProductSwap
  <2>3. v < w <=> d + b * v < b * w
    BY ProductOrder
  <2> QED
    BY <2>1, <2>2, <2>3 DEF Below
<1> QED
  BY <1>1, <1>2

\* How large a number of so many digits can be.
LEMMA NumberBound ==
    ASSUME NEW b \in Nat \ {0}, NEW digits \in Seq(Nat), Len(digits) # 0, NEW c \in Nat \ {0},
           \A i \in 1 .. Len(digits) - 1 : digits[i] \in 0 .. b - 1,
           digits[Len(digits)] < c
    PROVE  Below(Number(digits, b), c, b, Len(digits) - 1)
<1>1. PICK n \in Nat : n = Len(digits) /\ n # 0 /\ n - 1 \in Nat
  OBVIOUS
<1>2. PICK high \in [0 .. n -> Nat] :
         /\ Number(digits, b) = high[n] /\ high[0] = 0
         /\ \A k \in 1 .. n : high[k] = digits[n - k + 1] + b * high[k - 1]
  BY ZenonT(60), <1>1, NumberIs
<1> DEFINE S == {k \in Nat : k < n => Below(high[k + 1], c, b, k)}
<1>3. 0 \in S
  <2>1. high[1] = digits[n - 1 + 1] + b * high[1 - 1] /\ n - 1 + 1 = n /\ 1 - 1 = 0
        /\ b * 0 = 0 /\ digits[n] \in Nat
    BY <1>1, <1>2
  <2>2. high[0 + 1] = digits[n]
    BY <1>2, <2>1
  <2>3. Below(digits[n], c, b, 0)
    BY <1>1, <2>1, BelowIs
  <2> QED
    BY <2>2, <2>3
<1>4. ASSUME NEW k \in Nat, k \in S PROVE k + 1 \in S
  <2> SUFFICES ASSUME k + 1 < n PROVE Below(high[(k + 1) + 1], c, b, k + 1)
    OBVIOUS
  <2>1. PICK i \in 1 .. n - 1 : i = n - (k + 1)
    <3>1. n - (k + 1) \in 1 .. n - 1
      BY <1>1
    <3> QED
      BY <3>1
  <2>2. /\ high[(k + 1) + 1] = digits[n - ((k + 1) + 1) + 1] + b * high[((k + 1) + 1) - 1]
        /\ n - ((k + 1) + 1) + 1 = i /\ ((k + 1) + 1) - 1 = k + 1
    BY <1>2, <2>1
  <2>3. PICK h \in Nat, d \in 0 .. b - 1 : h = high[k + 1] /\ d = digits[i] /\ Below(h, c, b, k)
    <3>1. high[k + 1] \in Nat /\ digits[i] \in 0 .. b - 1 /\ Below(high[k + 1], c, b, k)
      <4>1. k + 1 \in 0 .. n /\ k < n /\ i \in 1 .. Len(digits) - 1
        BY <1>1, <2>1
      <4> QED
        BY <1>2, <1>4, <4>1
    <3> QED
      BY <3>1
  <2>4. Below(d + b * h, c, b, k + 1)
    BY <2>3, BelowIs
  <2> QED
    BY <2>2, <2>3, <2>4
<1>5. n - 1 \in S
  <2> HIDE DEF S
  <2> QED
    BY <1>1, <1>3, <1>4, ByInduction
<1>6. Below(high[(n - 1) + 1], c, b, n - 1) /\ (n - 1) + 1 = n
  BY <1>5
<1> QED
  BY <1>1, <1>2, <1>6

\* A number that is not larger has no higher digits.
LEMMA QuotientsBound ==
    ASSUME NEW b \in Nat \ {0}, NEW v \in Nat, NEW m \in Nat, NEW n \in 0 .. m,
           NEW c \in Nat \ {0}, Below(v, c, b, n)
    PROVE  Quotients(v, b, m)[n] < c
<1>0. n \in Nat /\ n - 0 = n
  OBVIOUS
<1>1. PICK rest : /\ rest = Quotients(v, b, m)
                 /\ rest \in [0 .. m -> Nat] /\ rest[0] = v
                 /\ \A k \in 1 .. m : rest[k] = rest[k - 1] \div b
  <2>1. /\ Quotients(v, b, m) \in [0 .. m -> Nat] /\ Quotients(v, b, m)[0] = v
        /\ \A k \in 1 .. m : Quotients(v, b, m)[k] = Quotients(v, b, m)[k - 1] \div b
    BY ZenonT(60), QuotientsIs
  <2> QED
    BY <2>1
<1> DEFINE S == {k \in Nat : k <= n => Below(rest[k], c, b, n - k)}
<1>2. 0 \in S
  BY <1>0, <1>1
<1>3. ASSUME NEW k \in Nat, k \in S PROVE k + 1 \in S
  <2> SUFFICES ASSUME k + 1 <= n PROVE Below(rest[k + 1], c, b, n - (k + 1))
    OBVIOUS
  <2>1. PICK j \in Nat : j = n - (k + 1) /\ n - k = j + 1
    BY <1>0
  <2>2. PICK r \in Nat : r = rest[k] /\ rest[k + 1] = r \div b
    <3>1. k \in 0 .. m /\ k + 1 \in 1 .. m /\ (k + 1) - 1 = k
      BY <1>0
    <3> QED
      BY <1>1, <3>1
  <2>3. Below(r, c, b, j + 1)
    <3>1. Below(rest[k], c, b, n - k)
      BY <1>3, <1>0
    <3> QED
      BY <2>1, <2>2, <3>1
  <2>4. PICK q \in Nat, d \in 0 .. b - 1 : q = r \div b /\ r = d + b * q
    BY DivisionIs
  <2>5. Below(q, c, b, j)
    <3>1. Below(d + b * q, c, b, j + 1)
      BY <2>3, <2>4
    <3> QED
      BY <3>1, BelowIs
  <2> QED
    BY <2>1, <2>2, <2>4, <2>5
<1>4. n \in S
  <2> HIDE DEF S
  <2> QED
    BY <1>0, <1>2, <1>3, ByInduction
<1>5. Below(rest[n], c, b, n - n) /\ n - n = 0 /\ rest[n] \in Nat
  BY <1>0, <1>1, <1>4
<1> QED
  BY <1>1, <1>5, BelowIs

\* A number with so few digits, the last one less than c.
LEMMA DigitsBound ==
    ASSUME NEW b \in Nat \ {0}, NEW c \in Nat \ {0}, NEW n \in Nat \ {0},
           NEW digits \in Seq(Nat), Len(digits) = n, AllBelow(digits, b), digits[n] < c
    PROVE  Below(Number(digits, b), c, b, n - 1)
<1>1. \A i \in 1 .. Len(digits) - 1 : digits[i] \in 0 .. b - 1
  BY DEF AllBelow
<1>2. Len(digits) # 0 /\ digits[Len(digits)] < c
  OBVIOUS
<1> QED
  BY <1>1, <1>2, NumberBound

-----------------------------------------------------------------------------
(* Bytes *)

\* The widths as the proofs use them.
LEMMA WidthsAre ==
    /\ Group \in Nat /\ Group >= 2
    /\ Base = 2 * Group /\ Base \in Nat \ {0}
    /\ ArrayLen \in Nat \ {0} /\ LeLen \in Nat \ {0} /\ MaxVarBytes \in Nat \ {0}
<1>1. PICK k \in Nat : GroupBits = k + 1
  <2>1. GroupBits - 1 \in Nat /\ GroupBits = (GroupBits - 1) + 1
    BY WireAssumption
  <2> QED
    BY <2>1
<1>2. Group = 2 * Power(2, k) /\ Power(2, k) \in Nat \ {0}
  <2>1. Power(2, k + 1) = 2 * Power(2, k)
    BY PowerIs
  <2>2. Power(2, k) \in Nat \ {0}
    BY PowerPositive
  <2> QED
    BY <1>1, <2>1, <2>2 DEF Group
<1>3. Group \in Nat /\ Group >= 2
  BY <1>2
<1> QED
  BY <1>3, WireAssumption DEF Base

\* What 64 bits hold, in groups and in bytes.
LEMMA MaxU64Is ==
    /\ MaxU64 \in Nat
    /\ \A v \in Nat : v <= MaxU64 <=> Below(v, 2, Group, MaxVarBytes)
    /\ \A v \in Nat, n \in 1 .. MaxVarBytes : Below(v, Base, Group, n - 1) => v <= MaxU64
    /\ \A v \in 0 .. MaxU64 : Below(v, Base, Group, MaxVarBytes - 1)
<1>1. PICK p \in Nat \ {0} : p = Power(Group, MaxVarBytes)
  BY WidthsAre, PowerPositive
<1>2. MaxU64 = 2 * p - 1 /\ MaxU64 \in Nat
  BY <1>1 DEF MaxU64
<1>3. \A v \in Nat : v <= MaxU64 <=> Below(v, 2, Group, MaxVarBytes)
  BY <1>1, <1>2 DEF Below
<1>4. ASSUME NEW n \in 1 .. MaxVarBytes
      PROVE  \E q \in Nat : Base * Power(Group, n - 1) = 2 * q /\ q = Power(Group, n)
  <2>0. n - 1 \in Nat /\ (n - 1) + 1 = n
    BY WidthsAre
  <2>1. PICK q \in Nat : q = Power(Group, n - 1) /\ Power(Group, (n - 1) + 1) = Group * q
    BY <2>0, WidthsAre, PowerIs
  <2>2. Base * q = 2 * (Group * q) /\ Group * q \in Nat
    BY WidthsAre
  <2> QED
    BY <2>0, <2>1, <2>2
<1>5. ASSUME NEW v \in Nat, NEW n \in 1 .. MaxVarBytes, Below(v, Base, Group, n - 1)
      PROVE  v <= MaxU64
  <2>1. PICK q \in Nat : Base * Power(Group, n - 1) = 2 * q /\ q = Power(Group, n)
    BY <1>4
  <2>2. PICK d \in Nat : MaxVarBytes = n + d
    <3>1. MaxVarBytes - n \in Nat /\ MaxVarBytes = n + (MaxVarBytes - n)
      BY WidthsAre
    <3> QED
      BY <3>1
  <2>3. PICK e \in Nat \ {0} : e = Power(Group, d)
    BY WidthsAre, PowerPositive
  <2>4. n \in Nat
    BY WidthsAre
  <2>5. p = q * e
    BY <1>1, <2>1, <2>2, <2>3, <2>4, WidthsAre, PowerOfSum
  <2>6. q <= q * e
    OBVIOUS
  <2>7. v < 2 * q
    BY <1>5, <2>1 DEF Below
  <2> QED
    BY <1>2, <2>5, <2>6, <2>7
<1>6. ASSUME NEW v \in 0 .. MaxU64 PROVE Below(v, Base, Group, MaxVarBytes - 1)
  <2>1. MaxVarBytes \in 1 .. MaxVarBytes
    BY WidthsAre
  <2>2. PICK q \in Nat : /\ Base * Power(Group, MaxVarBytes - 1) = 2 * q
                         /\ q = Power(Group, MaxVarBytes)
    BY <1>4, <2>1
  <2>3. v < 2 * p
    BY <1>2
  <2> QED
    BY <1>1, <2>2, <2>3 DEF Below
<1> QED
  BY <1>2, <1>3, <1>5, <1>6

\* s is w, and t behind it.
Splits(s, w, t) == w \in Str /\ t \in Str /\ s = w \o t

\* Sequences of bytes.
LEMMA StrIs ==
    /\ \A b \in Bytes : b \in Nat /\ b < Base /\ <<b>> \in Str /\ Len(<<b>>) = 1 /\ <<b>>[1] = b
    /\ <<>> \in Str /\ Len(<<>>) = 0
    /\ \A s \in Str : Len(s) \in Nat /\ DOMAIN s = 1 .. Len(s) /\ s \in Seq(Nat)
                      /\ (Len(s) = 0 => s = <<>>)
    /\ \A s \in Str : \A i \in 1 .. Len(s) : s[i] \in Bytes
<1>1. Bytes \subseteq Nat /\ \A b \in Bytes : b < Base
  BY WidthsAre DEF Bytes
<1>2. ASSUME NEW b \in Bytes
      PROVE  b \in Nat /\ b < Base /\ <<b>> \in Str /\ Len(<<b>>) = 1 /\ <<b>>[1] = b
  <2>1. <<b>> \in Str
    BY DEF Str
  <2> QED
    BY <1>1, <2>1
<1>3. <<>> \in Str /\ Len(<<>>) = 0
  BY DEF Str
<1>4. ASSUME NEW s \in Str
      PROVE  Len(s) \in Nat /\ DOMAIN s = 1 .. Len(s) /\ s \in Seq(Nat) /\ (Len(s) = 0 => s = <<>>)
  <2>1. Len(s) \in Nat /\ DOMAIN s = 1 .. Len(s)
    BY LenProperties DEF Str
  <2>2. s \in Seq(Nat)
    BY <1>1, SeqMonotonic DEF Str
  <2>3. Len(s) = 0 => s = <<>>
    BY EmptySeq DEF Str
  <2> QED
    BY <2>1, <2>2, <2>3
<1>5. ASSUME NEW s \in Str, NEW i \in 1 .. Len(s) PROVE s[i] \in Bytes
  BY ElementOfSeq DEF Str
<1> QED
  BY <1>2, <1>3, <1>4, <1>5

\* Pieces are sequences, and their lengths add up.
LEMMA SplitsIs ==
    \A s, w, t : Splits(s, w, t) => s \in Str /\ w \in Str /\ t \in Str /\ Len(s) = Len(w) + Len(t)
<1> SUFFICES ASSUME NEW s, NEW w, NEW t, Splits(s, w, t)
             PROVE  s \in Str /\ w \in Str /\ t \in Str /\ Len(s) = Len(w) + Len(t)
  OBVIOUS
<1>1. w \in Seq(Bytes) /\ t \in Seq(Bytes) /\ s = w \o t
  BY DEF Splits, Str
<1>2. w \o t \in Seq(Bytes) /\ Len(w \o t) = Len(w) + Len(t)
  BY <1>1, ConcatProperties
<1> QED
  BY <1>1, <1>2 DEF Str

\* Bytes split into nothing and themselves, and into themselves and nothing.
LEMMA SplitsEmpty ==
    \A s \in Str : Splits(s, <<>>, s) /\ Splits(s, s, <<>>)
<1>1. \A s \in Str : s = <<>> \o s /\ s = s \o <<>>
  BY ConcatEmptySeq DEF Str
<1>2. <<>> \in Str
  BY StrIs
<1> QED
  BY <1>1, <1>2 DEF Splits

\* Behind two pieces there is one more.
LEMMA SplitsTwice ==
    ASSUME NEW s, NEW t, NEW v, NEW w
    PROVE  (v \in Str /\ w \in Str /\ Splits(s, v \o w, t)) <=>
              \E r : Splits(s, v, r) /\ Splits(r, w, t)
<1>1. ASSUME v \in Str, w \in Str, Splits(s, v \o w, t)
      PROVE  Splits(s, v, w \o t) /\ Splits(w \o t, w, t)
  <2>1. t \in Str /\ s = (v \o w) \o t
    BY <1>1 DEF Splits
  <2>2. (v \o w) \o t = v \o (w \o t)
    BY SMTT(40), <1>1, <2>1, ConcatAssociative DEF Str
  <2>3. w \o t \in Str
    BY <1>1, <2>1, ConcatProperties DEF Str
  <2> QED
    BY <1>1, <2>1, <2>2, <2>3 DEF Splits
<1>2. ASSUME NEW r, Splits(s, v, r), Splits(r, w, t)
      PROVE  v \in Str /\ w \in Str /\ Splits(s, v \o w, t)
  <2>1. v \in Str /\ w \in Str /\ t \in Str /\ s = v \o (w \o t)
    BY <1>2 DEF Splits
  <2>2. (v \o w) \o t = v \o (w \o t)
    BY <2>1, ConcatAssociative DEF Str
  <2>3. v \o w \in Str
    BY <2>1, ConcatProperties DEF Str
  <2> QED
    BY <2>1, <2>2, <2>3 DEF Splits
<1> QED
  BY <1>1, <1>2

\* Pieces of the same length are the same.
LEMMA SplitsSame ==
    ASSUME NEW s, NEW v, NEW w, NEW q, NEW t, Splits(s, v, q), Splits(s, w, t), Len(v) = Len(w)
    PROVE  v = w /\ q = t
<1>1. v \in Str /\ w \in Str /\ q \in Str /\ t \in Str /\ s = v \o q /\ s = w \o t
  BY DEF Splits
<1>2. v = w
  <2>1. v \in Seq(Bytes) /\ w \in Seq(Bytes) /\ q \in Seq(Bytes) /\ t \in Seq(Bytes)
    BY <1>1 DEF Str
  <2>2. Len(v) \in Nat /\ Len(q) \in Nat /\ Len(t) \in Nat
    BY <1>1, StrIs
  <2>3. \A i \in 1 .. Len(v) : (v \o q)[i] = v[i]
    BY <2>1, <2>2, ConcatProperties
  <2>4. \A i \in 1 .. Len(w) : (w \o t)[i] = w[i]
    BY <2>1, <2>2, ConcatProperties
  <2>5. \A i \in 1 .. Len(v) : v[i] = w[i]
    BY <1>1, <2>3, <2>4
  <2> QED
    BY <2>1, <2>5, SeqEqual
<1>3. v \in Seq(Bytes) /\ q \in Seq(Bytes) /\ t \in Seq(Bytes) /\ v \o q = v \o t
  <2>1. v \o q = v \o t
    BY <1>1, <1>2
  <2> QED
    BY <1>1, <2>1 DEF Str
<1>4. \A a, b, c \in Seq(Bytes) : a \o b = a \o c => b = c
  BY ConcatSimplifications
<1>5. q = t
  BY <1>3, <1>4
<1> QED
  BY <1>2, <1>5

\* The piece in front, by its length.
LEMMA SplitsAt ==
    ASSUME NEW s \in Str, NEW n \in 0 .. Len(s)
    PROVE  Splits(s, SubSeq(s, 1, n), SubSeq(s, n + 1, Len(s))) /\ Len(SubSeq(s, 1, n)) = n
<1>1. Len(s) \in Nat /\ n \in Nat
  BY StrIs
<1>2. SubSeq(s, 1, n) \in Str /\ Len(SubSeq(s, 1, n)) = n /\ SubSeq(s, n + 1, Len(s)) \in Str
  <2>1. \A i \in 1 .. Len(s) : s[i] \in Bytes
    BY StrIs
  <2> QED
    BY <1>1, <2>1, SubSeqProperties DEF Str
<1>3. SubSeq(s, 1, n) \o SubSeq(s, n + 1, Len(s)) = s
  <2>1. s \in Seq(Bytes) /\ 1 \in 1 .. Len(s) + 1 /\ n \in 1 - 1 .. Len(s) /\ Len(s) \in n .. Len(s)
    BY <1>1 DEF Str
  <2>2. SubSeq(s, 1, n) \o SubSeq(s, n + 1, Len(s)) = SubSeq(s, 1, Len(s))
    BY <2>1, ConcatAdjacentSubSeq
  <2> QED
    BY <2>1, <2>2, SubSeqFull
<1> QED
  BY <1>2, <1>3 DEF Splits

-----------------------------------------------------------------------------
(* Codes: the bytes of each value of a type, as a function *)

\* Outcomes of a reader are what they were made of.
LEMMA GoodIs ==
    /\ \A x, t : Good(x, t).ok /\ Good(x, t).val = x /\ Good(x, t).rest = t
    /\ \A x, y, t, u : Good(x, t) = Good(y, u) => x = y /\ t = u
    /\ ~Failed.ok
<1>1. \A x, t : Good(x, t).ok /\ Good(x, t).val = x /\ Good(x, t).rest = t
  BY DEF Good
<1>2. ~Failed.ok
  BY DEF Failed
<1>3. ASSUME NEW x, NEW y, NEW t, NEW u, Good(x, t) = Good(y, u) PROVE x = y /\ t = u
  BY <1>1, <1>3
<1> QED
  BY <1>1, <1>2, <1>3

IsCode(code) == \A v \in DOMAIN code : code[v] \in Str

\* What reading s has to come out as: if the bytes of a value are in front, this
\* value and the bytes behind it, else nothing.
Begins(s, code, v, t) == v \in DOMAIN code /\ Splits(s, code[v], t)

Parsed(o, code, s) ==
    /\ \A v, t : Begins(s, code, v, t) => o = Good(v, t)
    /\ o = Failed \/ \E v, t : Begins(s, code, v, t)

\* A reader that came to an end has read a value, and what was not read is left.
LEMMA ParsedIs ==
    ASSUME NEW o, NEW code, NEW s, Parsed(o, code, s)
    PROVE  /\ ~o.ok => o = Failed
           /\ o.ok => /\ o = Good(o.val, o.rest) /\ Begins(s, code, o.val, o.rest)
                      /\ o.val \in DOMAIN code /\ o.rest \in Str
           /\ \A v, t : Begins(s, code, v, t) => o.ok /\ o.val = v /\ o.rest = t
<1>1. CASE o = Failed
  <2>1. \A v, t : ~Begins(s, code, v, t)
    BY <1>1, GoodIs DEF Parsed
  <2> QED
    BY <1>1, <2>1, GoodIs
<1>2. CASE o # Failed
  <2>1. PICK v, t : Begins(s, code, v, t)
    BY <1>2 DEF Parsed
  <2>2. o = Good(v, t)
    BY <2>1 DEF Parsed
  <2>3. o.ok /\ o.val = v /\ o.rest = t
    BY <2>2, GoodIs
  <2>4. \A x, u : Begins(s, code, x, u) => o.ok /\ o.val = x /\ o.rest = u
    BY GoodIs DEF Parsed
  <2>5. v \in DOMAIN code /\ t \in Str
    BY <2>1 DEF Begins, Splits
  <2> QED
    BY <2>1, <2>2, <2>3, <2>4, <2>5
<1> QED
  BY <1>1, <1>2

\* The converse, for outcomes that are given by cases.
LEMMA ParsedIf ==
    ASSUME NEW o, NEW code, NEW s,
           \A v, t : Begins(s, code, v, t) => o = Good(v, t),
           o # Failed => \E v, t : Begins(s, code, v, t)
    PROVE  Parsed(o, code, s)
  BY DEF Parsed

\* No value is read in two ways: a reader shows that its code is prefix-free.
LEMMA ParsedUnique ==
    ASSUME NEW o, NEW code, NEW s, Parsed(o, code, s), NEW v, NEW t, NEW w, NEW u,
           Begins(s, code, v, t), Begins(s, code, w, u)
    PROVE  v = w /\ t = u
<1>1. o = Good(v, t) /\ o = Good(w, u)
  BY DEF Parsed
<1>2. Good(v, t) = Good(w, u)
  BY <1>1
<1> QED
  BY <1>2, GoodIs

\* One value behind another: its code may depend on the first value.
Follows(first, next, code) ==
    /\ \A v \in DOMAIN first : \A u : u \in DOMAIN next[v] =>
          u \in DOMAIN code /\ code[u] = first[v] \o next[v][u]
    /\ \A u \in DOMAIN code : \E v \in DOMAIN first : u \in DOMAIN next[v]

\* One reader, and then another one that depends on the value read.
LEMMA ThenParsed ==
    ASSUME NEW o, NEW first, NEW s, Parsed(o, first, s), IsCode(first),
           NEW next, \A v \in DOMAIN first : IsCode(next[v]),
           NEW code, Follows(first, next, code),
           NEW p, ~o.ok => p = Failed,
           o.ok => Parsed(p, next[o.val], o.rest)
    PROVE  Parsed(p, code, s)
<1>1. ASSUME NEW u, NEW t, Begins(s, code, u, t) PROVE p = Good(u, t)
  <2>1. PICK v \in DOMAIN first : u \in DOMAIN next[v]
    BY <1>1 DEF Begins, Follows
  <2>2. first[v] \in Str /\ next[v][u] \in Str
    BY <2>1 DEF IsCode
  <2>3. code[u] = first[v] \o next[v][u]
    BY <2>1 DEF Follows
  <2>4. Splits(s, first[v] \o next[v][u], t)
    BY <1>1, <2>3 DEF Begins
  <2>5. PICK r : Splits(s, first[v], r) /\ Splits(r, next[v][u], t)
    BY <2>2, <2>4, SplitsTwice
  <2>6. Begins(s, first, v, r) /\ Begins(r, next[v], u, t)
    BY <2>1, <2>5 DEF Begins
  <2>7. o.ok /\ o.val = v /\ o.rest = r
    BY <2>6, ParsedIs
  <2>8. Parsed(p, next[v], r)
    BY <2>7
  <2> QED
    BY <2>6, <2>8 DEF Parsed
<1>2. ASSUME p # Failed PROVE \E u, t : Begins(s, code, u, t)
  <2>1. o.ok /\ o.val \in DOMAIN first /\ Begins(s, first, o.val, o.rest)
    BY <1>2, ParsedIs
  <2>2. PICK v, r : v \in DOMAIN first /\ v = o.val /\ r = o.rest
    BY <2>1
  <2>3. PICK u, t : Begins(r, next[v], u, t)
    BY <1>2, <2>1, <2>2 DEF Parsed
  <2>4. u \in DOMAIN next[v] /\ Splits(r, next[v][u], t) /\ Splits(s, first[v], r)
    BY <2>1, <2>2, <2>3 DEF Begins
  <2>5. u \in DOMAIN code /\ code[u] = first[v] \o next[v][u]
    BY <2>2, <2>4 DEF Follows
  <2>6. Splits(s, first[v] \o next[v][u], t)
    BY <2>4, SplitsTwice
  <2> QED
    BY <2>5, <2>6 DEF Begins
<1> QED
  BY <1>1, <1>2, ParsedIf

\* The same bytes for other values.
Renames(f, first, code) ==
    /\ \A v \in DOMAIN first : f[v] \in DOMAIN code /\ code[f[v]] = first[v]
    /\ \A u \in DOMAIN code : \E v \in DOMAIN first : f[v] = u

\* A reader whose value is turned into a value of another type.
LEMMA IntoParsed ==
    ASSUME NEW o, NEW first, NEW s, Parsed(o, first, s),
           NEW f, NEW code, Renames(f, first, code),
           NEW p, ~o.ok => p = Failed,
           o.ok => p = Good(f[o.val], o.rest)
    PROVE  Parsed(p, code, s)
<1>1. ASSUME NEW u, NEW t, Begins(s, code, u, t) PROVE p = Good(u, t)
  <2>1. PICK v \in DOMAIN first : f[v] = u
    BY <1>1 DEF Begins, Renames
  <2>2. Begins(s, first, v, t)
    BY <1>1, <2>1 DEF Begins, Renames
  <2>3. o.ok /\ o.val = v /\ o.rest = t
    BY <2>2, ParsedIs
  <2> QED
    BY <2>1, <2>3
<1>2. ASSUME p # Failed PROVE \E u, t : Begins(s, code, u, t)
  <2>1. o.ok /\ Begins(s, first, o.val, o.rest)
    BY <1>2, ParsedIs
  <2>2. Begins(s, code, f[o.val], o.rest)
    BY <2>1 DEF Begins, Renames
  <2> QED
    BY <2>2
<1> QED
  BY <1>1, <1>2, ParsedIf

\* Some of the values only.
LEMMA CheckedParsed ==
    ASSUME NEW o, NEW first, NEW s, Parsed(o, first, s),
           NEW code, DOMAIN code \subseteq DOMAIN first,
           \A v \in DOMAIN code : code[v] = first[v],
           NEW p, ~o.ok => p = Failed,
           o.ok => p = IF o.val \in DOMAIN code THEN o ELSE Failed
    PROVE  Parsed(p, code, s)
<1>1. \A u, t : Begins(s, code, u, t) => Begins(s, first, u, t)
  BY DEF Begins
<1>2. ASSUME NEW u, NEW t, Begins(s, code, u, t) PROVE p = Good(u, t)
  <2>1. o.ok /\ o.val = u /\ o = Good(u, t) /\ u \in DOMAIN code
    BY <1>1, <1>2, ParsedIs DEF Begins
  <2> QED
    BY <2>1
<1>3. ASSUME p # Failed PROVE \E u, t : Begins(s, code, u, t)
  <2>1. o.ok /\ o.val \in DOMAIN code /\ Begins(s, first, o.val, o.rest)
    BY <1>3, ParsedIs
  <2>2. Begins(s, code, o.val, o.rest)
    BY <2>1 DEF Begins
  <2> QED
    BY <2>2
<1> QED
  BY <1>2, <1>3, ParsedIf

-----------------------------------------------------------------------------
(* The readers of bytes and numbers *)

SliceCode(n) == [w \in {w \in Str : Len(w) = n} |-> w]
ArrayCode == SliceCode(ArrayLen)
ByteCode == [b \in Bytes |-> <<b>>]
FlagCode(allowed) == [b \in allowed |-> <<b>>]
LeCode(len) == [v \in Fixed(len) |-> Le(v, len)]
VarCode == [v \in U64 |-> VarU64(v)]
ZigzagCode == [v \in I64 |-> Zigzag(v)]
LenCode == [w \in ByteString |-> LenPrefixed(w)]
RangeCode == [r \in Range64 |-> RangeBytes(r)]

\* read_slice().
LEMMA ReadSliceParsed ==
    ASSUME NEW r, r.ok, r.rest \in Str, NEW n \in Nat
    PROVE  Parsed(ReadSlice(r, n), SliceCode(n), r.rest)
<1> DEFINE s == r.rest
<1>0. Len(s) \in Nat
  BY StrIs
<1>1. \A w, t : Begins(s, SliceCode(n), w, t) <=> Splits(s, w, t) /\ Len(w) = n
  BY DEF Begins, SliceCode, Splits
<1>2. CASE n <= Len(s)
  <2>1. n \in 0 .. Len(s)
    BY <1>0, <1>2
  <2>2. PICK w, t : w = SubSeq(s, 1, n) /\ t = SubSeq(s, n + 1, Len(s))
    OBVIOUS
  <2>3. Splits(s, w, t) /\ Len(w) = n
    BY <2>1, <2>2, SplitsAt
  <2>4. ReadSlice(r, n) = Good(w, t)
    BY <1>2, <2>2 DEF ReadSlice
  <2>5. \A v, u : Begins(s, SliceCode(n), v, u) => v = w /\ u = t
    BY <1>1, <2>3, SplitsSame
  <2> QED
    BY <1>1, <2>3, <2>4, <2>5, ParsedIf
<1>3. CASE ~(n <= Len(s))
  <2>1. \A w, t : ~Begins(s, SliceCode(n), w, t)
    <3> SUFFICES ASSUME NEW w, NEW t, Splits(s, w, t), Len(w) = n PROVE FALSE
      BY <1>1
    <3>1. t \in Str /\ Len(s) = Len(w) + Len(t)
      BY SplitsIs
    <3>2. Len(t) \in Nat
      BY <3>1, StrIs
    <3> QED
      BY <1>3, <3>1, <3>2
  <2>2. ReadSlice(r, n) = Failed
    BY <1>3 DEF ReadSlice
  <2> QED
    BY <2>1, <2>2, ParsedIf
<1> QED
  BY <1>2, <1>3

\* read_array(): so many bytes, as they are.
LEMMA ReadArrayParsed ==
    ASSUME NEW r, r.ok, r.rest \in Str
    PROVE  Parsed(ReadArray(r), ArrayCode, r.rest)
  BY ReadSliceParsed, WidthsAre DEF ReadArray, ArrayCode

\* read_u8().
LEMMA ReadByteParsed ==
    ASSUME NEW r, r.ok, r.rest \in Str
    PROVE  Parsed(ReadByte(r), ByteCode, r.rest)
<1> DEFINE f == [w \in DOMAIN SliceCode(1) |-> w[1]]
           o == ReadSlice(r, 1)
<1>1. Parsed(o, SliceCode(1), r.rest)
  BY ReadSliceParsed
<1>2. Renames(f, SliceCode(1), ByteCode)
  <2>1. ASSUME NEW w \in Str, Len(w) = 1 PROVE w[1] \in Bytes /\ w = <<w[1]>>
    <3>1. w[1] \in Bytes
      <4>1. 1 \in 1 .. Len(w)
        BY <2>1
      <4> QED
        BY <4>1, StrIs
    <3>2. w \in Seq(Bytes) /\ <<w[1]>> \in Seq(Bytes) /\ Len(<<w[1]>>) = 1
      BY <3>1 DEF Str
    <3> QED
      BY <2>1, <3>1, <3>2, SeqEqual
  <2>2. \A b \in Bytes : <<b>> \in Str /\ Len(<<b>>) = 1 /\ <<b>>[1] = b
    BY StrIs
  <2> QED
    BY <2>1, <2>2 DEF Renames, SliceCode, ByteCode
<1>3. /\ ~o.ok => ReadByte(r) = Failed
      /\ o.ok => ReadByte(r) = Good(f[o.val], o.rest)
  BY <1>1, ParsedIs DEF ReadByte, Into
<1> HIDE DEF o, f
<1> QED
  BY <1>1, <1>2, <1>3, IntoParsed

\* A tag that is one of these.
LEMMA ReadByteInParsed ==
    ASSUME NEW r, r.ok, r.rest \in Str, NEW allowed \in SUBSET Bytes
    PROVE  Parsed(ReadByteIn(r, allowed), FlagCode(allowed), r.rest)
<1> DEFINE o == ReadByte(r)
<1>1. Parsed(o, ByteCode, r.rest)
  BY ReadByteParsed
<1>2. /\ DOMAIN FlagCode(allowed) \subseteq DOMAIN ByteCode
      /\ \A b \in DOMAIN FlagCode(allowed) : FlagCode(allowed)[b] = ByteCode[b]
      /\ DOMAIN FlagCode(allowed) = allowed
  BY DEF FlagCode, ByteCode
<1>3. /\ ~o.ok => ReadByteIn(r, allowed) = Failed
      /\ o.ok => ReadByteIn(r, allowed) = IF o.val \in allowed THEN o ELSE Failed
  BY DEF ReadByteIn, Checked
<1> HIDE DEF o
<1> QED
  BY <1>1, <1>2, <1>3, CheckedParsed

\* The bytes of a u64 of fixed length, and the number back.
LEMMA LeIs ==
    ASSUME NEW len \in Nat \ {0}
    PROVE  /\ \A v \in Fixed(len) : /\ Le(v, len) \in Str /\ Len(Le(v, len)) = len
                                    /\ Number(Le(v, len), Base) = v
           /\ \A w \in Str : Len(w) = len =>
                 Number(w, Base) \in Fixed(len) /\ Le(Number(w, Base), len) = w
<1>0. len \in 1 .. len /\ len - 1 \in 0 .. len /\ len - 1 \in Nat /\ len \in Nat /\ (len - 1) + 1 = len
  OBVIOUS
<1>1. \A v \in Nat : v \in Fixed(len) <=> Below(v, Base, Base, len - 1)
  <2>1. Power(Base, (len - 1) + 1) = Base * Power(Base, len - 1) /\ Power(Base, len) \in Nat
    BY <1>0, WidthsAre, PowerIs
  <2> QED
    BY <1>0, <2>1 DEF Fixed, Below
<1>2. ASSUME NEW v \in Fixed(len)
      PROVE  Le(v, len) \in Str /\ Len(Le(v, len)) = len /\ Number(Le(v, len), Base) = v
  <2>1. v \in Nat
    BY DEF Fixed
  <2>2. PICK rest : rest = Quotients(v, Base, len) /\ rest \in [0 .. len -> Nat]
    BY <1>0, <2>1, WidthsAre, QuotientsIs
  <2>3. rest[len - 1] < Base
    BY <1>0, <1>1, <2>1, <2>2, WidthsAre, QuotientsBound
  <2>4. PICK w : w = [i \in 1 .. len |-> rest[i - 1] % Base]
    OBVIOUS
  <2>5. Le(v, len) = w
    BY <2>2, <2>4 DEF Le
  <2>6. \A i \in 1 .. len : w[i] \in Bytes /\ w[i] = rest[i - 1] % Base
    <3> SUFFICES ASSUME NEW i \in 1 .. len PROVE w[i] \in Bytes /\ w[i] = rest[i - 1] % Base
      OBVIOUS
    <3>1. rest[i - 1] \in Nat
      BY <2>2
    <3>2. rest[i - 1] % Base \in 0 .. Base - 1
      BY <3>1, WidthsAre
    <3> QED
      BY <2>4, <3>2 DEF Bytes
  <2>7. w \in Str /\ Len(w) = len
    <3>1. w = [i \in 1 .. len |-> w[i]] /\ DOMAIN w = 1 .. len
      BY <2>4
    <3>2. w \in Seq(Bytes)
      BY <1>0, <2>6, <3>1, IsASeq
    <3> QED
      BY <1>0, <3>1, <3>2, LenProperties DEF Str
  <2>8. w[len] = rest[len - 1]
    <3>1. rest[len - 1] \in Nat
      BY <1>0, <2>2
    <3>2. rest[len - 1] % Base = rest[len - 1]
      BY <2>3, <3>1, WidthsAre
    <3> QED
      BY <1>0, <2>6, <3>2
  <2>9. Number(w, Base) = v
    <3>1. w \in Seq(Nat)
      BY <2>7, StrIs
    <3>2. AreDigits(w, v, Base, len)
      BY <2>2, <2>6, <2>7, <2>8 DEF AreDigits
    <3> QED
      BY <1>0, <2>1, <2>7, <3>1, <3>2, WidthsAre, NumberOfQuotients
  <2> QED
    BY <2>5, <2>7, <2>9
<1>3. ASSUME NEW w \in Str, Len(w) = len
      PROVE  Number(w, Base) \in Fixed(len) /\ Le(Number(w, Base), len) = w
  <2>1. w \in Seq(Nat) /\ \A i \in 1 .. len : w[i] \in 0 .. Base - 1
    BY <1>3, StrIs DEF Bytes
  <2>a. AllBelow(w, Base)
    BY <1>3, <2>1 DEF AllBelow
  <2>b. Number(w, Base) \in Nat /\ AreDigits(w, Number(w, Base), Base, len)
    BY <1>0, <1>3, <2>1, <2>a, WidthsAre, QuotientsOfNumber
  <2>2. PICK v \in Nat : v = Number(w, Base)
    BY <2>b
  <2>3. PICK rest : rest = Quotients(v, Base, len) /\ rest \in [0 .. len -> Nat]
    BY <1>0, WidthsAre, QuotientsIs
  <2>4. /\ \A i \in 1 .. len - 1 : rest[i - 1] % Base = w[i]
        /\ rest[len - 1] = w[len]
    BY <1>3, <2>b, <2>2, <2>3 DEF AreDigits
  <2>5. rest[len - 1] % Base = w[len]
    <3>1. w[len] \in 0 .. Base - 1
      BY <1>0, <2>1
    <3> QED
      BY <2>4, <3>1, WidthsAre
  <2>6. Le(v, len) = [i \in 1 .. len |-> rest[i - 1] % Base]
    BY <2>3 DEF Le
  <2>7. \A i \in 1 .. len : rest[i - 1] % Base = w[i]
    <3> SUFFICES ASSUME NEW i \in 1 .. len PROVE rest[i - 1] % Base = w[i]
      OBVIOUS
    <3>1. CASE i = len
      BY <2>5, <3>1
    <3>2. CASE i # len
      <4>1. i \in 1 .. len - 1
        BY <3>2
      <4> QED
        BY <2>4, <4>1
    <3> QED
      BY <3>1, <3>2
  <2>8. w = [i \in 1 .. len |-> w[i]]
    BY <1>3 DEF Str
  <2>9. Le(v, len) = w
    BY <2>6, <2>7, <2>8
  <2>10. v \in Fixed(len)
    <3>1. w[len] < Base
      BY <1>0, <2>1, WidthsAre
    <3>3. Below(v, Base, Base, len - 1)
      BY <1>3, <2>1, <2>2, <2>a, <3>1, WidthsAre, DigitsBound
    <3> QED
      BY <1>1, <3>3
  <2> QED
    BY <2>2, <2>9, <2>10
<1> QED
  BY <1>2, <1>3

\* u64::from_le_bytes().
LEMMA ReadLeParsed ==
    ASSUME NEW r, r.ok, r.rest \in Str, NEW len \in Nat \ {0}
    PROVE  Parsed(ReadLe(r, len), LeCode(len), r.rest)
<1> DEFINE f == [w \in DOMAIN SliceCode(len) |-> Number(w, Base)]
           o == ReadSlice(r, len)
<1>1. Parsed(o, SliceCode(len), r.rest)
  BY ReadSliceParsed
<1>2. Renames(f, SliceCode(len), LeCode(len))
  <2>1. \A w \in DOMAIN SliceCode(len) : /\ w \in Str /\ Len(w) = len /\ SliceCode(len)[w] = w
                                         /\ f[w] = Number(w, Base)
    BY DEF SliceCode
  <2>2. \A w \in Str : Len(w) = len => w \in DOMAIN SliceCode(len)
    BY DEF SliceCode
  <2>3. DOMAIN LeCode(len) = Fixed(len) /\ \A v \in Fixed(len) : LeCode(len)[v] = Le(v, len)
    BY DEF LeCode
  <2> HIDE DEF f
  <2>4. \A v \in DOMAIN SliceCode(len) : f[v] \in DOMAIN LeCode(len)
            /\ LeCode(len)[f[v]] = SliceCode(len)[v]
    BY <2>1, <2>3, LeIs
  <2>5. \A u \in DOMAIN LeCode(len) : \E v \in DOMAIN SliceCode(len) : f[v] = u
    BY <2>1, <2>2, <2>3, LeIs
  <2> QED
    BY <2>4, <2>5 DEF Renames
<1>3. /\ ~o.ok => ReadLe(r, len) = Failed
      /\ o.ok => ReadLe(r, len) = Good(f[o.val], o.rest)
  BY <1>1, ParsedIs DEF ReadLe, Into
<1> HIDE DEF o, f
<1> QED
  BY <1>1, <1>2, <1>3, IntoParsed

-----------------------------------------------------------------------------
(* Variable-length integers *)

\* The shapes that the writer gives a number: all but the last byte have the
\* high bit, and the last one is not zero unless it is alone.
IsVar(w, n) ==
    /\ w \in Str /\ Len(w) = n /\ n \in 1 .. MaxVarBytes
    /\ \A i \in 1 .. n - 1 : w[i] >= Group
    /\ n = MaxVarBytes \/ w[n] < Group
    /\ n = 1 \/ w[n] # 0

\* A byte with the high bit, and without it.
LEMMA HighBit ==
    \A b \in Nat : /\ b < Group => b % Group = b /\ b \div Group = 0
                   /\ b >= Group /\ b < Base => Group + (b % Group) = b
                   /\ (Group + (b % Group)) % Group = b % Group
                   /\ b % Group \in 0 .. Group - 1
                   /\ Group + (b % Group) \in Bytes /\ Group + (b % Group) >= Group
<1> SUFFICES ASSUME NEW b \in Nat
             PROVE  /\ b < Group => b % Group = b /\ b \div Group = 0
                    /\ b >= Group /\ b < Base => Group + (b % Group) = b
                    /\ (Group + (b % Group)) % Group = b % Group
                    /\ b % Group \in 0 .. Group - 1
                    /\ Group + (b % Group) \in Bytes /\ Group + (b % Group) >= Group
  OBVIOUS
<1>1. PICK g \in Nat \ {0} : g = Group /\ Base = 2 * g /\ g >= 2
  BY WidthsAre
<1>2. PICK r \in 0 .. g - 1 : r = b % g
  BY DivisionIs
<1>3. (r + g * 1) % g = r
  BY QuotientIs
<1>4. g + r \in 0 .. Base - 1 /\ g + r >= g /\ r + g * 1 = g + r
  BY <1>1
<1>5. ASSUME b < g PROVE b % g = b /\ b \div g = 0
  <2>1. (b + g * 0) \div g = 0 /\ (b + g * 0) % g = b
    BY <1>5, QuotientIs
  <2>2. b + g * 0 = b
    OBVIOUS
  <2> QED
    BY <2>1, <2>2
<1>6. ASSUME b >= g, b < Base PROVE g + (b % g) = b
  <2>1. PICK d \in 0 .. g - 1 : b = d + g * 1
    <3>1. b - g \in 0 .. g - 1 /\ b = (b - g) + g * 1
      BY <1>1, <1>6
    <3> QED
      BY <3>1
  <2>2. b % g = d
    BY <2>1, QuotientIs
  <2> QED
    BY <2>1, <2>2
<1> QED
  BY <1>1, <1>2, <1>3, <1>4, <1>5, <1>6 DEF Bytes

\* How many bytes a number takes.
LEMMA VarLenIs ==
    ASSUME NEW v \in U64, NEW rest, rest = Quotients(v, Group, MaxVarBytes)
    PROVE  /\ VarLen(rest) \in 1 .. MaxVarBytes
           /\ VarLen(rest) = MaxVarBytes \/ rest[VarLen(rest)] = 0
           /\ \A n \in 1 .. VarLen(rest) - 1 : n # MaxVarBytes /\ rest[n] # 0
<1> DEFINE S == {n \in 1 .. MaxVarBytes : n = MaxVarBytes \/ rest[n] = 0}
<1>1. MaxVarBytes \in Nat /\ MaxVarBytes \in S /\ S \subseteq Nat
  BY WidthsAre
<1>2. PICK m : m = Min(S)
  OBVIOUS
<1>3. m \in S /\ \A n \in S : m <= n
  <2> HIDE DEF S
  <2> QED
    BY <1>1, <1>2, LeastOf
<1>4. VarLen(rest) = m
  BY <1>2 DEF VarLen
<1>5. \A n \in 1 .. m - 1 : n \in 1 .. MaxVarBytes /\ ~(m <= n)
  BY <1>1, <1>3
<1> QED
  BY <1>3, <1>4, <1>5

\* The bytes of a number, and the number of its bytes.
LEMMA VarWrites ==
    ASSUME NEW v \in U64
    PROVE  \E n : IsVar(VarU64(v), n) /\ VarValue(VarU64(v)) = v
<1>0. v \in Nat /\ v \in 0 .. MaxU64 /\ Group \in Nat \ {0} /\ MaxVarBytes \in Nat \ {0}
  BY WidthsAre, MaxU64Is DEF U64
<1>1. PICK rest : /\ rest = Quotients(v, Group, MaxVarBytes)
                 /\ rest \in [0 .. MaxVarBytes -> Nat]
                 /\ \A k \in 1 .. MaxVarBytes : rest[k] = rest[k - 1] \div Group
  <2>1. /\ Quotients(v, Group, MaxVarBytes) \in [0 .. MaxVarBytes -> Nat]
        /\ \A k \in 1 .. MaxVarBytes :
              Quotients(v, Group, MaxVarBytes)[k] = Quotients(v, Group, MaxVarBytes)[k - 1] \div Group
    BY <1>0, QuotientsIs
  <2> QED
    BY <2>1
<1>2. PICK n \in 1 .. MaxVarBytes :
         /\ n = VarLen(rest)
         /\ n = MaxVarBytes \/ rest[n] = 0
         /\ \A m \in 1 .. n - 1 : m # MaxVarBytes /\ rest[m] # 0
  BY <1>1, VarLenIs
<1>a. n \in Nat /\ n - 1 \in Nat /\ n \in 1 .. n /\ n - 1 \in 0 .. MaxVarBytes
  BY <1>0
<1>3. PICK w : w = [i \in 1 .. n |-> IF i = n THEN rest[i - 1] ELSE Group + (rest[i - 1] % Group)]
  OBVIOUS
<1>4. VarU64(v) = w
  BY <1>1, <1>2, <1>3 DEF VarU64, VarBytes
<1>5. rest[n - 1] \in Nat /\ rest[n - 1] < Base /\ (n = MaxVarBytes \/ rest[n - 1] < Group)
  <2>0. rest[n - 1] \in Nat
    BY <1>1, <1>a
  <2>1. CASE n = MaxVarBytes
    <3>1. Below(v, Base, Group, n - 1)
      BY <1>0, <2>1, MaxU64Is
    <3>2. rest[n - 1] < Base
      BY <1>0, <1>1, <1>a, <3>1, WidthsAre, QuotientsBound
    <3> QED
      BY <2>0, <2>1, <3>2
  <2>2. CASE n # MaxVarBytes
    <3>1. rest[n] = 0 /\ rest[n] = rest[n - 1] \div Group
      BY <1>1, <1>2, <2>2
    <3>2. PICK q \in Nat, g \in Nat \ {0} : q = rest[n - 1] /\ g = Group /\ Base = 2 * g
      BY <2>0, WidthsAre
    <3>3. q \div g = 0 /\ q % g \in 0 .. g - 1
      BY <3>1, <3>2, DivisionIs
    <3>a. q = (q % g) + g * (q \div g)
      BY DivisionIs
    <3>b. g * (q \div g) = 0
      BY <3>3
    <3>4. q < g
      BY <3>3, <3>a, <3>b
    <3> QED
      BY <2>0, <3>2, <3>4
  <2> QED
    BY <2>1, <2>2
<1>6. w[n] = rest[n - 1]
  BY <1>3, <1>a
<1>7. \A i \in 1 .. n - 1 : /\ w[i] = Group + (rest[i - 1] % Group) /\ rest[i - 1] \in Nat
                            /\ w[i] \in Bytes /\ w[i] >= Group
  <2> SUFFICES ASSUME NEW i \in 1 .. n - 1
               PROVE  /\ w[i] = Group + (rest[i - 1] % Group) /\ rest[i - 1] \in Nat
                      /\ w[i] \in Bytes /\ w[i] >= Group
    OBVIOUS
  <2>1. i \in 1 .. n /\ i # n /\ i - 1 \in 0 .. MaxVarBytes
    BY <1>a, <1>0
  <2>2. w[i] = Group + (rest[i - 1] % Group) /\ rest[i - 1] \in Nat
    BY <1>1, <1>3, <2>1
  <2> QED
    BY <2>2, HighBit
<1>8. w \in Str /\ Len(w) = n
  <2>1. \A i \in 1 .. n : w[i] \in Bytes
    <3> SUFFICES ASSUME NEW i \in 1 .. n PROVE w[i] \in Bytes
      OBVIOUS
    <3>1. CASE i = n
      <4>1. rest[n - 1] \in 0 .. Base - 1
        BY <1>5, WidthsAre
      <4> QED
        BY <1>6, <3>1, <4>1 DEF Bytes
    <3>2. CASE i # n
      <4>1. i \in 1 .. n - 1
        BY <1>a, <3>2
      <4> QED
        BY <1>7, <4>1
    <3> QED
      BY <3>1, <3>2
  <2>2. w = [i \in 1 .. n |-> w[i]] /\ DOMAIN w = 1 .. n
    BY <1>3
  <2>3. w \in Seq(Bytes)
    BY <1>a, <2>1, <2>2, IsASeq
  <2> QED
    BY <1>a, <2>2, <2>3, LenProperties DEF Str
<1>9. n = 1 \/ w[n] # 0
  <2> SUFFICES ASSUME n # 1 PROVE w[n] # 0
    OBVIOUS
  <2>1. n - 1 \in 1 .. n - 1
    BY <1>a
  <2> QED
    BY <1>2, <1>6, <2>1
<1>10. IsVar(w, n)
  BY <1>5, <1>6, <1>7, <1>8, <1>9 DEF IsVar
<1>11. VarValue(w) = v
  <2>1. PICK d : d = VarDigits(w)
    OBVIOUS
  <2>2. DOMAIN w = 1 .. n
    BY <1>8, StrIs
  <2>3. d = [i \in 1 .. n |-> IF i = n THEN w[i] ELSE w[i] % Group]
    BY <1>8, <2>1, <2>2 DEF VarDigits
  <2>4. d[n] = rest[n - 1] /\ d[n] \in Nat
    BY <1>5, <1>6, <1>a, <2>3
  <2>5. \A i \in 1 .. n - 1 : d[i] = rest[i - 1] % Group /\ d[i] \in Nat
    <3> SUFFICES ASSUME NEW i \in 1 .. n - 1 PROVE d[i] = rest[i - 1] % Group /\ d[i] \in Nat
      OBVIOUS
    <3>1. i \in 1 .. n /\ i # n
      BY <1>a
    <3>2. d[i] = w[i] % Group
      BY <2>3, <3>1
    <3>3. w[i] % Group = rest[i - 1] % Group
      BY <1>7, HighBit
    <3>4. rest[i - 1] % Group \in 0 .. Group - 1
      BY <1>7, HighBit
    <3> QED
      BY <3>2, <3>3, <3>4
  <2>6. \A i \in 1 .. n : d[i] \in Nat
    <3> SUFFICES ASSUME NEW i \in 1 .. n PROVE d[i] \in Nat
      OBVIOUS
    <3>1. i = n \/ i \in 1 .. n - 1
      BY <1>a
    <3> QED
      BY <2>4, <2>5, <3>1
  <2>7. d \in Seq(Nat) /\ Len(d) = n
    <3>1. d = [i \in 1 .. n |-> d[i]] /\ DOMAIN d = 1 .. n
      BY <2>3
    <3>2. d \in Seq(Nat)
      BY <1>a, <2>6, <3>1, IsASeq
    <3> QED
      BY <1>a, <3>1, <3>2, LenProperties
  <2>8. AreDigits(d, v, Group, MaxVarBytes)
    BY <1>1, <2>4, <2>5, <2>7 DEF AreDigits
  <2>9. Number(d, Group) = v
    BY <1>0, <2>7, <2>8, NumberOfQuotients
  <2> QED
    BY <2>1, <2>9 DEF VarValue
<1> QED
  BY <1>4, <1>10, <1>11

\* Whatever has this shape is the bytes of a number.
LEMMA VarReads ==
    ASSUME NEW w, NEW n, IsVar(w, n)
    PROVE  VarValue(w) \in U64 /\ VarU64(VarValue(w)) = w
<1>0. n \in 1 .. MaxVarBytes /\ n \in Nat /\ n - 1 \in Nat /\ n \in 1 .. n
      /\ Group \in Nat \ {0} /\ MaxVarBytes \in Nat \ {0}
  BY WidthsAre DEF IsVar
<1>1. w \in Str /\ Len(w) = n /\ DOMAIN w = 1 .. n /\ \A i \in 1 .. n : w[i] \in Nat /\ w[i] < Base
  <2>1. w \in Str /\ Len(w) = n
    BY DEF IsVar
  <2>2. DOMAIN w = 1 .. n
    BY <2>1, StrIs
  <2>3. \A i \in 1 .. n : w[i] \in Bytes
    BY <2>1, StrIs
  <2>4. \A b \in Bytes : b \in Nat /\ b < Base
    BY StrIs
  <2> QED
    BY <2>1, <2>2, <2>3, <2>4
<1>2. PICK d : d = VarDigits(w)
  OBVIOUS
<1>3. d = [i \in 1 .. n |-> IF i = n THEN w[i] ELSE w[i] % Group]
  BY <1>1, <1>2 DEF VarDigits
<1>4. d[n] = w[n] /\ d[n] \in Nat /\ d[n] < Base
  BY <1>0, <1>1, <1>3
<1>5. \A i \in 1 .. n - 1 : d[i] = w[i] % Group /\ d[i] \in 0 .. Group - 1 /\ w[i] = Group + d[i]
  <2> SUFFICES ASSUME NEW i \in 1 .. n - 1
               PROVE  d[i] = w[i] % Group /\ d[i] \in 0 .. Group - 1 /\ w[i] = Group + d[i]
    OBVIOUS
  <2>1. i \in 1 .. n /\ i # n
    BY <1>0
  <2>2. d[i] = w[i] % Group /\ w[i] \in Nat /\ w[i] < Base
    BY <1>1, <1>3, <2>1
  <2>3. w[i] >= Group
    BY DEF IsVar
  <2> QED
    BY <2>2, <2>3, HighBit
<1>6. d \in Seq(Nat) /\ Len(d) = n
  <2>1. \A i \in 1 .. n : d[i] \in Nat
    <3> SUFFICES ASSUME NEW i \in 1 .. n PROVE d[i] \in Nat
      OBVIOUS
    <3>1. i = n \/ i \in 1 .. n - 1
      BY <1>0
    <3>2. \A k \in 0 .. Group - 1 : k \in Nat
      BY <1>0
    <3> QED
      BY <1>4, <1>5, <3>1, <3>2
  <2>2. d = [i \in 1 .. n |-> d[i]] /\ DOMAIN d = 1 .. n
    BY <1>3
  <2>3. d \in Seq(Nat)
    BY <1>0, <2>1, <2>2, IsASeq
  <2> QED
    BY <1>0, <2>2, <2>3, LenProperties
<1>7. AllBelow(d, Group)
  BY <1>5, <1>6 DEF AllBelow
<1>a. PICK v : v = Number(d, Group)
  OBVIOUS
<1>b. /\ Number(d, Group) \in Nat
      /\ AreDigits(d, Number(d, Group), Group, MaxVarBytes)
      /\ d[n] # 0 => NoneZero(Quotients(Number(d, Group), Group, MaxVarBytes), n)
  BY <1>0, <1>6, <1>7, QuotientsOfNumber
<1>8. /\ v \in Nat
      /\ AreDigits(d, v, Group, MaxVarBytes)
      /\ d[n] # 0 => NoneZero(Quotients(v, Group, MaxVarBytes), n)
  BY <1>a, <1>b
<1>9. v \in U64
  <2>1. Below(v, Base, Group, n - 1)
    <3>1. d[n] < Base /\ Base \in Nat \ {0}
      BY <1>4, WidthsAre
    <3>2. Below(Number(d, Group), Base, Group, n - 1)
      BY <1>0, <1>6, <1>7, <3>1, DigitsBound
    <3> QED
      BY <1>a, <3>2
  <2>2. v <= MaxU64
    BY <1>0, <1>8, <2>1, MaxU64Is
  <2> QED
    BY <1>8, <2>2, MaxU64Is DEF U64
<1>10. PICK rest : /\ rest = Quotients(v, Group, MaxVarBytes)
                  /\ rest \in [0 .. MaxVarBytes -> Nat]
                  /\ \A k \in 1 .. MaxVarBytes : rest[k] = rest[k - 1] \div Group
  <2>1. /\ Quotients(v, Group, MaxVarBytes) \in [0 .. MaxVarBytes -> Nat]
        /\ \A k \in 1 .. MaxVarBytes :
              Quotients(v, Group, MaxVarBytes)[k] = Quotients(v, Group, MaxVarBytes)[k - 1] \div Group
    <3>1. v \in Nat /\ Group \in Nat \ {0} /\ MaxVarBytes \in Nat
      BY <1>0, <1>8
    <3> QED
      BY <3>1, QuotientsIs
  <2> QED
    BY <2>1
<1>11. /\ \A i \in 1 .. n - 1 : d[i] = rest[i - 1] % Group
       /\ d[n] = rest[n - 1]
       /\ d[n] # 0 => \A i \in 0 .. n - 1 : rest[i] # 0
  <2>1. AreDigits(d, v, Group, MaxVarBytes) /\ (d[n] # 0 => NoneZero(rest, n))
    BY <1>8, <1>10
  <2>2. \A i \in 1 .. n - 1 : d[i] = rest[i - 1] % Group
    BY <1>6, <1>10, <2>1 DEF AreDigits
  <2>3. d[n] = rest[n - 1]
    BY <1>6, <1>10, <2>1 DEF AreDigits
  <2>4. d[n] # 0 => \A i \in 0 .. n - 1 : rest[i] # 0
    BY <2>1 DEF NoneZero
  <2> QED
    BY <2>2, <2>3, <2>4
<1>12. n = MaxVarBytes \/ rest[n] = 0
  <2> SUFFICES ASSUME n # MaxVarBytes PROVE rest[n] = 0
    OBVIOUS
  <2>1. w[n] < Group
    BY DEF IsVar
  <2>2. rest[n] = d[n] \div Group
    BY <1>0, <1>10, <1>11
  <2> QED
    BY <1>4, <2>1, <2>2, HighBit
<1>13. \A m \in 1 .. n - 1 : m # MaxVarBytes /\ rest[m] # 0
  <2> SUFFICES ASSUME NEW m \in 1 .. n - 1 PROVE m # MaxVarBytes /\ rest[m] # 0
    OBVIOUS
  <2>1. n # 1 /\ m \in 0 .. n - 1 /\ m # MaxVarBytes
    BY <1>0
  <2>2. d[n] # 0
    BY <1>4, <2>1 DEF IsVar
  <2> QED
    BY <1>11, <2>1, <2>2
<1>14. VarLen(rest) = n
  <2>1. PICK m \in 1 .. MaxVarBytes :
           /\ m = VarLen(rest)
           /\ m = MaxVarBytes \/ rest[m] = 0
           /\ \A k \in 1 .. m - 1 : k # MaxVarBytes /\ rest[k] # 0
    BY <1>9, <1>10, VarLenIs
  <2>2. m \in Nat
    BY <1>0
  <2>3. ~(m < n)
    <3>1. m < n => m \in 1 .. n - 1
      BY <1>0, <2>2
    <3> QED
      BY <1>13, <2>1, <3>1
  <2>4. ~(n < m)
    <3>1. n < m => n \in 1 .. m - 1
      BY <1>0, <2>2
    <3> QED
      BY <1>12, <2>1, <3>1
  <2> QED
    BY <1>0, <2>1, <2>2, <2>3, <2>4
<1>15. VarU64(v) = w
  <2>1. VarU64(v) = [i \in 1 .. n |-> IF i = n THEN rest[i - 1] ELSE Group + (rest[i - 1] % Group)]
    BY <1>10, <1>14 DEF VarU64, VarBytes
  <2>2. \A i \in 1 .. n : w[i] = IF i = n THEN rest[i - 1] ELSE Group + (rest[i - 1] % Group)
    <3> SUFFICES ASSUME NEW i \in 1 .. n
                 PROVE  w[i] = IF i = n THEN rest[i - 1] ELSE Group + (rest[i - 1] % Group)
      OBVIOUS
    <3>1. CASE i = n
      BY <1>4, <1>11, <3>1
    <3>2. CASE i # n
      <4>1. i \in 1 .. n - 1
        BY <1>0, <3>2
      <4>2. w[i] = Group + d[i] /\ d[i] = rest[i - 1] % Group
        BY <1>5, <1>11, <4>1
      <4> QED
        BY <3>2, <4>2
    <3> QED
      BY <3>1, <3>2
  <2>3. w = [i \in 1 .. n |-> w[i]]
    BY <1>1 DEF Str
  <2> QED
    BY <2>1, <2>2, <2>3
<1>16. VarValue(w) = v
  BY <1>a, <1>2 DEF VarValue
<1> QED
  BY <1>9, <1>15, <1>16

\* The n bytes in front of s that a reader takes for a number.
TakesFor(s, n, w, t) ==
    /\ n \in 0 .. Len(s) /\ n = Min(VarEnds(s)) /\ Splits(s, w, t) /\ Len(w) = n
    /\ w = SubSeq(s, 1, n) /\ t = SubSeq(s, n + 1, Len(s))
    /\ Minimal(w[Len(w)], Len(w)) => IsVar(w, n)

\* Where the bytes of a number end in front of others.
LEMMA VarEndsAt ==
    ASSUME NEW s \in Str
    PROVE  /\ \A w, t, n : IsVar(w, n) /\ Splits(s, w, t) => VarEnds(s) # {} /\ Min(VarEnds(s)) = n
           /\ VarEnds(s) # {} => \E n, w, t : TakesFor(s, n, w, t)
<1>0. DOMAIN s = 1 .. Len(s) /\ Len(s) \in Nat /\ MaxVarBytes \in Nat /\ MaxVarBytes \in Nat \ {0}
      /\ Group \in Nat
  BY StrIs, WidthsAre
<1>1. VarEnds(s) \in SUBSET Nat
  BY <1>0 DEF VarEnds
<1>2. ASSUME NEW w, NEW t, NEW n, IsVar(w, n), Splits(s, w, t)
      PROVE  VarEnds(s) # {} /\ Min(VarEnds(s)) = n
  <2>1. /\ w \in Str /\ Len(w) = n /\ n \in 1 .. MaxVarBytes
        /\ \A i \in 1 .. n - 1 : w[i] >= Group
        /\ n = MaxVarBytes \/ w[n] < Group
    BY <1>2 DEF IsVar
  <2>2. t \in Str /\ Len(s) = Len(w) + Len(t)
    BY <1>2, SplitsIs
  <2>3. Len(t) \in Nat /\ n \in Nat /\ n \in 1 .. n
    BY <1>0, <2>1, <2>2, StrIs
  <2>4. \A i \in 1 .. n : s[i] = w[i]
    <3>1. w \in Seq(Bytes) /\ t \in Seq(Bytes) /\ s = w \o t
      BY <1>2 DEF Splits, Str
    <3>2. \A i \in 1 .. Len(w) + Len(t) : (w \o t)[i] = IF i <= Len(w) THEN w[i] ELSE t[i - Len(w)]
      BY <3>1, ConcatProperties
    <3>3. \A i \in 1 .. n : i \in 1 .. Len(w) + Len(t) /\ i <= Len(w)
      BY <2>1, <2>3
    <3> QED
      BY <3>1, <3>2, <3>3
  <2>5. n \in VarEnds(s)
    <3>1. n \in DOMAIN s /\ n <= MaxVarBytes
      BY <1>0, <2>1, <2>2, <2>3
    <3>2. n = MaxVarBytes \/ s[n] < Group
      BY <2>1, <2>3, <2>4
    <3> QED
      BY <3>1, <3>2 DEF VarEnds
  <2>6. \A i \in VarEnds(s) : ~(i < n)
    <3> SUFFICES ASSUME NEW i \in VarEnds(s), i < n PROVE FALSE
      OBVIOUS
    <3>1. i \in 1 .. n - 1 /\ (i = MaxVarBytes \/ s[i] < Group)
      BY <1>0, <2>1, <2>3 DEF VarEnds
    <3>2. s[i] = w[i] /\ w[i] >= Group /\ i # MaxVarBytes
      BY <1>0, <2>1, <2>3, <2>4, <3>1
    <3>3. w[i] \in Nat
      <4>1. i \in 1 .. Len(w)
        BY <2>1, <2>3, <3>1
      <4>2. w[i] \in Bytes
        BY <2>1, <4>1, StrIs
      <4> QED
        BY <4>2, StrIs
    <3> QED
      BY <1>0, <3>1, <3>2, <3>3
  <2>7. PICK m : m = Min(VarEnds(s))
    OBVIOUS
  <2>8. m \in VarEnds(s) /\ \A i \in VarEnds(s) : m <= i
    BY <1>1, <2>5, <2>7, LeastOf
  <2>9. m \in Nat /\ m <= n /\ ~(m < n)
    BY <1>1, <2>5, <2>6, <2>8
  <2> QED
    BY <2>3, <2>5, <2>7, <2>9
<1>3. ASSUME VarEnds(s) # {}
      PROVE  \E n, w, t : TakesFor(s, n, w, t)
  <2>1. PICK n : n = Min(VarEnds(s))
    OBVIOUS
  <2>2. n \in VarEnds(s) /\ \A i \in VarEnds(s) : n <= i
    BY <1>1, <1>3, <2>1, LeastOf
  <2>3. n \in 1 .. Len(s) /\ n \in 0 .. Len(s) /\ n <= MaxVarBytes /\ n \in Nat
        /\ (n = MaxVarBytes \/ s[n] < Group)
    BY <1>0, <2>2 DEF VarEnds
  <2>4. PICK w, t : w = SubSeq(s, 1, n) /\ t = SubSeq(s, n + 1, Len(s))
    OBVIOUS
  <2>5. Splits(s, w, t) /\ Len(w) = n
    BY <2>3, <2>4, SplitsAt
  <2>6. w \in Str /\ \A i \in 1 .. n : w[i] = s[i]
    <3>1. \A i \in 1 .. n : s[i] \in Bytes
      BY <1>0, <2>3, StrIs
    <3>2. \A i \in 1 .. n - 1 + 1 : w[i] = s[1 + i - 1]
      BY <2>3, <2>4, <3>1, SubSeqProperties
    <3>3. \A i \in 1 .. n : i \in 1 .. n - 1 + 1 /\ 1 + i - 1 = i
      BY <2>3
    <3>4. w \in Str
      BY <2>5 DEF Splits
    <3> QED
      BY <3>2, <3>3, <3>4
  <2>7. \A i \in 1 .. n - 1 : w[i] >= Group
    <3> SUFFICES ASSUME NEW i \in 1 .. n - 1 PROVE w[i] >= Group
      OBVIOUS
    <3>1. i \in 1 .. n /\ i \in DOMAIN s /\ i <= MaxVarBytes /\ i # MaxVarBytes /\ ~(n <= i)
      BY <1>0, <2>3
    <3>2. ~(s[i] < Group)
      BY <2>2, <3>1 DEF VarEnds
    <3>3. s[i] \in Nat
      <4>1. s[i] \in Bytes
        BY <1>0, <3>1, StrIs
      <4> QED
        BY <4>1, StrIs
    <3> QED
      BY <1>0, <2>6, <3>1, <3>2, <3>3
  <2>8. ASSUME Minimal(w[Len(w)], Len(w)) PROVE IsVar(w, n)
    <3>1. n = 1 \/ w[n] # 0
      BY <2>5, <2>8 DEF Minimal
    <3>2. n = MaxVarBytes \/ w[n] < Group
      BY <2>3, <2>6
    <3>3. n \in 1 .. MaxVarBytes
      BY <1>0, <2>3
    <3> QED
      BY <2>5, <2>6, <2>7, <3>1, <3>2, <3>3 DEF IsVar
  <2>9. TakesFor(s, n, w, t)
    BY <2>1, <2>3, <2>4, <2>5, <2>8 DEF TakesFor
  <2> QED
    BY <2>9
<1> QED
  BY <1>2, <1>3

\* read_var_u64().
LEMMA ReadVarParsed ==
    ASSUME NEW r, r.ok, r.rest \in Str
    PROVE  Parsed(ReadVar(r), VarCode, r.rest)
<1>1. PICK s \in Str : s = r.rest
  OBVIOUS
<1>2. \A v, t : Begins(s, VarCode, v, t) <=> v \in U64 /\ Splits(s, VarU64(v), t)
  BY DEF Begins, VarCode
<1>3. ASSUME VarEnds(s) # {}
      PROVE  \E n, w, t : /\ n = Min(VarEnds(s)) /\ Splits(s, w, t) /\ Len(w) = n
                          /\ Minimal(w[Len(w)], Len(w)) => IsVar(w, n)
                          /\ ReadVar(r) = IF Minimal(w[Len(w)], Len(w)) THEN Good(VarValue(w), t)
                                          ELSE Failed
  <2>a. PICK n, w, t : TakesFor(s, n, w, t)
    BY <1>3, VarEndsAt
  <2>1. /\ n \in 0 .. Len(s) /\ n = Min(VarEnds(s)) /\ Splits(s, w, t) /\ Len(w) = n
        /\ w = SubSeq(s, 1, n) /\ t = SubSeq(s, n + 1, Len(s))
        /\ Minimal(w[Len(w)], Len(w)) => IsVar(w, n)
    BY <2>a DEF TakesFor
  <2>2. ReadSlice(r, n) = Good(w, t)
    BY <1>1, <2>1 DEF ReadSlice
  <2>3. PICK o : o = ReadSlice(r, Min(VarEnds(r.rest)))
    OBVIOUS
  <2>4. o = Good(w, t)
    BY <1>1, <2>1, <2>2, <2>3
  <2>5. o.ok /\ o.val = w /\ o.rest = t
    BY <2>4, GoodIs
  <2>6. CASE Minimal(w[Len(w)], Len(w))
    <3>1. ReadVar(r) = Good(VarValue(o.val), o.rest)
      BY <1>1, <1>3, <2>3, <2>5, <2>6 DEF ReadVar, Checked, Into
    <3> QED
      BY <2>1, <2>5, <2>6, <3>1
  <2>7. CASE ~Minimal(w[Len(w)], Len(w))
    <3>1. ReadVar(r) = Failed
      BY <1>1, <1>3, <2>3, <2>5, <2>7, GoodIs DEF ReadVar, Checked, Into
    <3> QED
      BY <2>1, <2>7, <3>1
  <2> QED
    BY <2>6, <2>7
<1>4. ASSUME NEW v, NEW t, Begins(s, VarCode, v, t) PROVE ReadVar(r) = Good(v, t)
  <2>1. PICK w : w = VarU64(v) /\ v \in U64 /\ Splits(s, w, t)
    BY <1>2, <1>4
  <2>2. PICK n : IsVar(w, n) /\ VarValue(w) = v
    BY <2>1, VarWrites
  <2>3. VarEnds(s) # {} /\ Min(VarEnds(s)) = n
    BY <2>1, <2>2, VarEndsAt
  <2>4. PICK w2, t2 : /\ Splits(s, w2, t2) /\ Len(w2) = n
                      /\ ReadVar(r) = IF Minimal(w2[Len(w2)], Len(w2)) THEN Good(VarValue(w2), t2)
                                      ELSE Failed
    BY <1>3, <2>3
  <2>5. w2 = w /\ t2 = t
    BY <2>1, <2>2, <2>4, SplitsSame DEF IsVar
  <2>6. Minimal(w[Len(w)], Len(w))
    BY <2>2 DEF IsVar, Minimal
  <2> QED
    BY <2>2, <2>4, <2>5, <2>6
<1>5. ASSUME ReadVar(r) # Failed PROVE \E v, t : Begins(s, VarCode, v, t)
  <2>1. VarEnds(s) # {}
    BY <1>1, <1>5 DEF ReadVar
  <2>2. PICK n, w, t : Splits(s, w, t) /\ IsVar(w, n)
    BY <1>3, <1>5, <2>1
  <2>3. VarValue(w) \in U64 /\ VarU64(VarValue(w)) = w
    BY <2>2, VarReads
  <2>4. Begins(s, VarCode, VarValue(w), t)
    BY <1>2, <2>2, <2>3
  <2> QED
    BY <2>4
<1> QED
  BY <1>1, <1>4, <1>5, ParsedIf

\* MaxU64 is odd: as many numbers are negative as are not.
LEMMA MaxI64Is ==
    MaxI64 \in Nat /\ MaxU64 = 2 * MaxI64 + 1
<1>1. PICK p \in Nat \ {0} : p = Power(Group, MaxVarBytes)
  BY WidthsAre, PowerPositive
<1>2. MaxU64 = 1 + 2 * (p - 1) /\ p - 1 \in Nat
  BY <1>1 DEF MaxU64
<1>3. (1 + 2 * (p - 1)) \div 2 = p - 1
  OBVIOUS
<1> QED
  BY <1>2, <1>3 DEF MaxI64

ZigzagOf(v) == IF v >= 0 THEN 2 * v ELSE -2 * v - 1
Unzigzag(n) == IF n % 2 = 0 THEN n \div 2 ELSE -((n + 1) \div 2)

\* Zigzag and its inverse lead from i64 to u64 and back.
LEMMA ZigzagIs ==
    /\ \A v \in I64 : ZigzagOf(v) \in U64 /\ Unzigzag(ZigzagOf(v)) = v
    /\ \A n \in U64 : Unzigzag(n) \in I64 /\ ZigzagOf(Unzigzag(n)) = n
<1>1. PICK m \in Nat : m = MaxI64 /\ MaxU64 = 2 * m + 1
  BY MaxI64Is
<1>2. ASSUME NEW v \in -m - 1 .. m
      PROVE  ZigzagOf(v) \in 0 .. 2 * m + 1 /\ Unzigzag(ZigzagOf(v)) = v
  BY DEF ZigzagOf, Unzigzag
<1>3. ASSUME NEW n \in 0 .. 2 * m + 1
      PROVE  Unzigzag(n) \in -m - 1 .. m /\ ZigzagOf(Unzigzag(n)) = n
  BY DEF ZigzagOf, Unzigzag
<1> QED
  BY <1>1, <1>2, <1>3 DEF I64, U64

\* read_zigzag().
LEMMA ReadZigzagParsed ==
    ASSUME NEW r, r.ok, r.rest \in Str
    PROVE  Parsed(ReadZigzag(r), ZigzagCode, r.rest)
<1> DEFINE f == [n \in U64 |-> Unzigzag(n)]
<1>1. PICK o : o = ReadVar(r)
  OBVIOUS
<1>2. Parsed(o, VarCode, r.rest)
  BY <1>1, ReadVarParsed
<1>3. Renames(f, VarCode, ZigzagCode)
  <2>1. /\ DOMAIN VarCode = U64 /\ \A n \in U64 : VarCode[n] = VarU64(n)
        /\ DOMAIN ZigzagCode = I64 /\ \A v \in I64 : ZigzagCode[v] = VarU64(ZigzagOf(v))
    BY DEF VarCode, ZigzagCode, Zigzag, ZigzagOf
  <2>2. \A n \in U64 : f[n] = Unzigzag(n)
    OBVIOUS
  <2> HIDE DEF f
  <2> QED
    BY <2>1, <2>2, ZigzagIs DEF Renames
<1>4. o.ok => o.val \in U64
  BY <1>2, ParsedIs DEF VarCode
<1>5. /\ ~o.ok => ReadZigzag(r) = Failed
      /\ o.ok => ReadZigzag(r) = Good(f[o.val], o.rest)
  BY <1>1, <1>4 DEF ReadZigzag, Into, Unzigzag
<1> HIDE DEF f
<1> QED
  BY <1>2, <1>3, <1>5, IntoParsed

\* The codes of numbers: one byte, eight bytes, variable length, zigzag.
LEMMA CodesOfNumbers ==
    /\ IsCode(VarCode) /\ IsCode(ZigzagCode) /\ IsCode(ByteCode) /\ IsCode(ArrayCode)
    /\ \A n : IsCode(SliceCode(n))
    /\ \A n \in Nat \ {0} : IsCode(LeCode(n))
    /\ \A allowed \in SUBSET Bytes : IsCode(FlagCode(allowed))
<1>1. IsCode(VarCode)
  BY VarWrites DEF IsCode, VarCode, IsVar
<1>2. IsCode(ZigzagCode)
  <2>1. \A v \in I64 : ZigzagOf(v) \in U64 /\ ZigzagCode[v] = VarU64(ZigzagOf(v))
    BY ZigzagIs DEF ZigzagCode, Zigzag, ZigzagOf
  <2>2. \A n \in U64 : VarU64(n) \in Str
    BY <1>1 DEF IsCode, VarCode
  <2> QED
    BY <2>1, <2>2 DEF IsCode, ZigzagCode
<1>3. IsCode(ByteCode) /\ \A allowed \in SUBSET Bytes : IsCode(FlagCode(allowed))
  BY StrIs DEF IsCode, ByteCode, FlagCode
<1>4. \A n : IsCode(SliceCode(n))
  BY DEF IsCode, SliceCode
<1>5. IsCode(ArrayCode)
  BY <1>4 DEF ArrayCode
<1>6. \A n \in Nat \ {0} : IsCode(LeCode(n))
  BY LeIs DEF IsCode, LeCode
<1> QED
  BY <1>1, <1>2, <1>3, <1>4, <1>5, <1>6

\* read_len_prefixed().
LEMMA ReadLenPrefixedParsed ==
    ASSUME NEW r, r.ok, r.rest \in Str
    PROVE  Parsed(ReadLenPrefixed(r), LenCode, r.rest)
<1> DEFINE next == [n \in U64 |-> SliceCode(n)]
<1>1. PICK o : o = ReadVar(r)
  OBVIOUS
<1>2. Parsed(o, VarCode, r.rest)
  BY <1>1, ReadVarParsed
<1>3. DOMAIN VarCode = U64 /\ \A n \in U64 : VarCode[n] = VarU64(n)
  BY DEF VarCode
<1>4. PICK p : p = ReadLenPrefixed(r)
  OBVIOUS
<1>5. ~o.ok => p = Failed
  BY <1>1, <1>4 DEF ReadLenPrefixed, SliceOf, ReadSlice
<1>6. ASSUME o.ok PROVE Parsed(p, next[o.val], o.rest)
  <2>1. o.val \in U64 /\ o.rest \in Str
    BY <1>2, <1>3, <1>6, ParsedIs
  <2>2. o.val \in Nat /\ next[o.val] = SliceCode(o.val)
    BY <2>1, MaxU64Is DEF U64
  <2>3. p = ReadSlice(o, o.val)
    BY <1>1, <1>4 DEF ReadLenPrefixed, SliceOf
  <2> HIDE DEF next
  <2> QED
    BY <1>6, <2>1, <2>2, <2>3, ReadSliceParsed
<1>7. \A v \in DOMAIN VarCode : IsCode(next[v])
  BY <1>3, CodesOfNumbers
<1>8. Follows(VarCode, next, LenCode)
  <2>1. \A n \in U64 : \A w : w \in DOMAIN next[n] <=> w \in Str /\ Len(w) = n
    BY DEF SliceCode
  <2>2. \A n \in U64 : \A w \in DOMAIN next[n] : next[n][w] = w
    BY DEF SliceCode
  <2>3. /\ \A w : w \in DOMAIN LenCode <=> w \in Str /\ Len(w) <= MaxU64
        /\ \A w \in DOMAIN LenCode : LenCode[w] = VarU64(Len(w)) \o w
    BY DEF LenCode, ByteString, LenPrefixed
  <2>4. \A w \in Str : Len(w) <= MaxU64 <=> Len(w) \in U64
    BY StrIs, MaxU64Is DEF U64
  <2> HIDE DEF next
  <2>5. ASSUME NEW n \in U64, NEW w, w \in DOMAIN next[n]
        PROVE  w \in DOMAIN LenCode /\ LenCode[w] = VarCode[n] \o next[n][w]
    <3>1. w \in Str /\ Len(w) = n /\ next[n][w] = w /\ VarCode[n] = VarU64(n)
      BY <1>3, <2>1, <2>2, <2>5
    <3>2. w \in DOMAIN LenCode
      BY <2>3, <2>4, <3>1
    <3>3. LenCode[w] = VarU64(Len(w)) \o w
      BY <2>3, <3>2
    <3> QED
      BY <3>1, <3>2, <3>3
  <2>6. ASSUME NEW w \in DOMAIN LenCode PROVE \E n \in U64 : w \in DOMAIN next[n]
    BY <2>1, <2>3, <2>4
  <2> QED
    BY <1>3, <2>5, <2>6 DEF Follows
<1> HIDE DEF next
<1>9. Parsed(p, LenCode, r.rest)
  BY <1>2, <1>5, <1>6, <1>7, <1>8, CodesOfNumbers, ThenParsed
<1> QED
  BY <1>4, <1>9

-----------------------------------------------------------------------------
(* Values behind each other *)

\* Concatenation, with a name that the provers leave alone.
Cat(x, y) == x \o y

\* The codes of tuples: the bytes of one value behind those of another.
One(A) ==
    [v \in {<<a>> : a \in DOMAIN A} |-> A[v[1]]]
Two(A, B) ==
    [v \in {<<a, b>> : a \in DOMAIN A, b \in DOMAIN B} |-> Cat(A[v[1]], B[v[2]])]
Three(A, B, C) ==
    [v \in {<<a, b, c>> : a \in DOMAIN A, b \in DOMAIN B, c \in DOMAIN C} |->
        Cat(Cat(A[v[1]], B[v[2]]), C[v[3]])]
Four(A, B, C, D) ==
    [v \in {<<a, b, c, d>> : a \in DOMAIN A, b \in DOMAIN B, c \in DOMAIN C,
        d \in DOMAIN D} |-> Cat(Cat(Cat(A[v[1]], B[v[2]]), C[v[3]]), D[v[4]])]
Five(A, B, C, D, E) ==
    [v \in {<<a, b, c, d, e>> : a \in DOMAIN A, b \in DOMAIN B, c \in DOMAIN C, d \in DOMAIN D,
        e \in DOMAIN E} |->
        Cat(Cat(Cat(Cat(A[v[1]], B[v[2]]), C[v[3]]), D[v[4]]), E[v[5]])]
Six(A, B, C, D, E, F) ==
    [v \in {<<a, b, c, d, e, f>> : a \in DOMAIN A, b \in DOMAIN B, c \in DOMAIN C,
        d \in DOMAIN D, e \in DOMAIN E, f \in DOMAIN F} |->
        Cat(Cat(Cat(Cat(Cat(A[v[1]], B[v[2]]), C[v[3]]), D[v[4]]), E[v[5]]), F[v[6]])]
Seven(A, B, C, D, E, F, G) ==
    [v \in {<<a, b, c, d, e, f, g>> : a \in DOMAIN A, b \in DOMAIN B, c \in DOMAIN C,
        d \in DOMAIN D, e \in DOMAIN E, f \in DOMAIN F, g \in DOMAIN G} |->
        Cat(Cat(Cat(Cat(Cat(Cat(A[v[1]], B[v[2]]), C[v[3]]), D[v[4]]), E[v[5]]), F[v[6]]), G[v[7]])]

\* The tuples of more are those of more with one value appended.
Appends(tuples, code, longer) ==
    /\ \A c \in DOMAIN tuples, b \in DOMAIN code :
          Append(c, b) \in DOMAIN longer /\ longer[Append(c, b)] = tuples[c] \o code[b]
    /\ \A d \in DOMAIN longer : \E c \in DOMAIN tuples, b \in DOMAIN code : d = Append(c, b)

\* A tuple read so far is the tuple of no value.
LEMMA FirstParsed ==
    ASSUME NEW o, NEW A, NEW s, Parsed(o, A, s)
    PROVE  Parsed(First(o), One(A), s)
<1> DEFINE f == [a \in DOMAIN A |-> <<a>>]
<1>1. Renames(f, A, One(A))
  <2>1. \A a \in DOMAIN A : f[a] = <<a>> /\ <<a>> \in DOMAIN One(A)
    BY DEF One
  <2>2. \A a \in DOMAIN A : One(A)[<<a>>] = A[a]
    BY DEF One
  <2>3. \A u \in DOMAIN One(A) : \E a \in DOMAIN A : u = <<a>>
    BY DEF One
  <2> HIDE DEF f
  <2> QED
    BY <2>1, <2>2, <2>3 DEF Renames
<1>2. /\ ~o.ok => First(o) = Failed
      /\ o.ok => First(o) = Good(f[o.val], o.rest)
  BY ParsedIs DEF First
<1> HIDE DEF f
<1> QED
  BY <1>1, <1>2, IntoParsed

\* A tuple, and one more value read behind it.
LEMMA BehindParsed ==
    ASSUME NEW o, NEW tuples, NEW s, Parsed(o, tuples, s), IsCode(tuples),
           NEW n, NEW code, IsCode(code), o.ok => Parsed(n, code, o.rest),
           NEW longer, Appends(tuples, code, longer)
    PROVE  Parsed(Behind(o, n), longer, s)
<1>1. ASSUME NEW u, NEW t, Begins(s, longer, u, t) PROVE Behind(o, n) = Good(u, t)
  <2>1. PICK c \in DOMAIN tuples, b \in DOMAIN code : u = Append(c, b)
    BY <1>1 DEF Begins, Appends
  <2>2. longer[u] = tuples[c] \o code[b] /\ tuples[c] \in Str /\ code[b] \in Str
    BY <2>1 DEF Appends, IsCode
  <2>3. Splits(s, tuples[c] \o code[b], t)
    BY <1>1, <2>2 DEF Begins
  <2>4. PICK r : Splits(s, tuples[c], r) /\ Splits(r, code[b], t)
    BY <2>2, <2>3, SplitsTwice
  <2>5. Begins(s, tuples, c, r) /\ Begins(r, code, b, t)
    BY <2>4 DEF Begins
  <2>6. o.ok /\ o.val = c /\ o.rest = r
    BY <2>5, ParsedIs
  <2>7. Parsed(n, code, r)
    BY <2>6
  <2>8. n.ok /\ n.val = b /\ n.rest = t
    BY <2>5, <2>7, ParsedIs
  <2> QED
    BY <2>1, <2>6, <2>8 DEF Behind
<1>2. ASSUME Behind(o, n) # Failed PROVE \E u, t : Begins(s, longer, u, t)
  <2>1. o.ok /\ n.ok
    BY <1>2 DEF Behind
  <2>2. Begins(s, tuples, o.val, o.rest) /\ o.val \in DOMAIN tuples
    BY <2>1, ParsedIs
  <2>3. Begins(o.rest, code, n.val, n.rest) /\ n.val \in DOMAIN code
    BY <2>1, ParsedIs
  <2>4. PICK c \in DOMAIN tuples, b \in DOMAIN code : c = o.val /\ b = n.val
    BY <2>2, <2>3
  <2>5. Append(c, b) \in DOMAIN longer /\ longer[Append(c, b)] = tuples[c] \o code[b]
    BY DEF Appends
  <2>6. Splits(s, tuples[c], o.rest) /\ Splits(o.rest, code[b], n.rest)
    BY <2>2, <2>3, <2>4 DEF Begins
  <2>7. Splits(s, tuples[c] \o code[b], n.rest)
    BY <2>6, SplitsTwice
  <2>8. Begins(s, longer, Append(c, b), n.rest)
    BY <2>5, <2>7 DEF Begins
  <2> QED
    BY <2>8
<1> QED
  BY <1>1, <1>2, ParsedIf

\* The tuple codes, one at a time.
LEMMA OneIs ==
    ASSUME NEW A, IsCode(A)
    PROVE  IsCode(One(A)) /\ DOMAIN One(A) = {<<a>> : a \in DOMAIN A}
  BY DEF IsCode, One

\* A tuple of two is a shorter one with a value behind it.
LEMMA AppendTwo ==
    \A a, b : Append(<<a>>, b) = <<a, b>>
<1> SUFFICES ASSUME NEW a, NEW b PROVE Append(<<a>>, b) = <<a, b>>
  OBVIOUS
<1> DEFINE S == {a, b}
           short == <<a>>
           long == <<a, b>>
<1>1. /\ short \in Seq(S) /\ Len(short) = 1 /\ long \in Seq(S) /\ Len(long) = 2 /\ b \in S
  OBVIOUS
<1>2. /\ short[1] = a
      /\ long[1] = a /\ long[2] = b
  OBVIOUS
<1> HIDE DEF short, long, S
<1>3. /\ Append(short, b) \in Seq(S) /\ Len(Append(short, b)) = 2
      /\ \A i \in 1 .. 1 : Append(short, b)[i] = short[i]
      /\ Append(short, b)[2] = b
  <2>1. short \in Seq(S) /\ b \in S
    BY <1>1
  <2>2. /\ Append(short, b) \in Seq(S)
        /\ Len(Append(short, b)) = Len(short) + 1
        /\ \A i \in 1 .. Len(short) : Append(short, b)[i] = short[i]
        /\ Append(short, b)[Len(short) + 1] = b
    BY <2>1, AppendProperties
  <2>3. Len(short) = 1
    BY <1>1
  <2> QED
    BY <2>2, <2>3
<1>4. \A i \in 1 .. 2 : Append(short, b)[i] = long[i]
  BY <1>1, <1>2, <1>3
<1>5. Append(short, b) = long
  BY <1>1, <1>3, <1>4, SeqEqual
<1> QED
  BY <1>5 DEF short, long

\* The code of two values, one behind the other.
LEMMA TwoIs ==
    ASSUME NEW A, NEW B, IsCode(One(A)), IsCode(B)
    PROVE  IsCode(Two(A, B)) /\ Appends(One(A), B, Two(A, B))
<1> DEFINE short == One(A)
           long == Two(A, B)
<1>1. \A a \in DOMAIN A :
         <<a>> \in DOMAIN short
  BY DEF One
<1>2. \A a \in DOMAIN A :
         short[<<a>>] = A[a]
  BY <1>1 DEF One
<1>3. \A a \in DOMAIN A, b \in DOMAIN B :
         <<a, b>> \in DOMAIN long
  BY DEF Two
<1>4. \A a \in DOMAIN A, b \in DOMAIN B :
         long[<<a, b>>] = Cat(A[a], B[b])
  BY <1>3 DEF Two
<1>5. \A u \in DOMAIN short : \E a \in DOMAIN A : u = <<a>>
  BY DEF One
<1>6. \A w \in DOMAIN long : \E a \in DOMAIN A, b \in DOMAIN B : w = <<a, b>>
  BY DEF Two
<1> HIDE DEF short, long
<1>7. \A a, b : Append(<<a>>, b) = <<a, b>>
  BY AppendTwo
<1>c. \A x, y : Cat(x, y) = x \o y
  BY DEF Cat
<1>8. ASSUME NEW a \in DOMAIN A, NEW b \in DOMAIN B
      PROVE  /\ <<a>> \in DOMAIN short /\ Append(<<a>>, b) \in DOMAIN long
             /\ long[Append(<<a>>, b)] = short[<<a>>] \o B[b]
  <2>1. long[<<a, b>>] = Cat(A[a], B[b])
    BY <1>4
  <2>2. short[<<a>>] = A[a]
    BY <1>2
  <2>3. long[<<a, b>>] = Cat(short[<<a>>], B[b])
    BY <2>1, <2>2
  <2>4. long[<<a, b>>] = short[<<a>>] \o B[b]
    BY <1>c, <2>3
  <2>5. Append(<<a>>, b) = <<a, b>>
    BY <1>7
  <2> QED
    BY <1>1, <1>3, <2>4, <2>5
<1>9. ASSUME NEW u \in DOMAIN short, NEW b \in DOMAIN B
      PROVE  Append(u, b) \in DOMAIN long /\ long[Append(u, b)] = short[u] \o B[b]
  <2>1. PICK a \in DOMAIN A : u = <<a>>
    BY <1>5
  <2> QED
    BY <1>8, <2>1
<1>10. ASSUME NEW w \in DOMAIN long
       PROVE  \E u \in DOMAIN short, b \in DOMAIN B : w = Append(u, b)
  <2>1. PICK a \in DOMAIN A, b \in DOMAIN B : w = <<a, b>>
    BY <1>6
  <2>2. <<a>> \in DOMAIN short /\ w = Append(<<a>>, b)
    BY <1>1, <1>7, <2>1
  <2> QED
    BY <2>2
<1>11. ASSUME NEW w \in DOMAIN long PROVE long[w] \in Str
  <2>1. PICK u \in DOMAIN short, b \in DOMAIN B : w = Append(u, b)
    BY <1>10
  <2>2. short[u] \in Str /\ B[b] \in Str
    BY DEF IsCode, short
  <2>3. short[u] \o B[b] \in Str
    BY <2>2, ConcatProperties DEF Str
  <2> QED
    BY <1>9, <2>1, <2>3
<1> QED
  BY <1>9, <1>10, <1>11 DEF Appends, IsCode, short, long

\* A tuple of three is a shorter one with a value behind it.
LEMMA AppendThree ==
    \A a, b, c : Append(<<a, b>>, c) = <<a, b, c>>
<1> SUFFICES ASSUME NEW a, NEW b, NEW c PROVE Append(<<a, b>>, c) = <<a, b, c>>
  OBVIOUS
<1> DEFINE S == {a, b, c}
           short == <<a, b>>
           long == <<a, b, c>>
<1>1. /\ short \in Seq(S) /\ Len(short) = 2 /\ long \in Seq(S) /\ Len(long) = 3 /\ c \in S
  OBVIOUS
<1>2. /\ short[1] = a /\ short[2] = b
      /\ long[1] = a /\ long[2] = b /\ long[3] = c
  OBVIOUS
<1> HIDE DEF short, long, S
<1>3. /\ Append(short, c) \in Seq(S) /\ Len(Append(short, c)) = 3
      /\ \A i \in 1 .. 2 : Append(short, c)[i] = short[i]
      /\ Append(short, c)[3] = c
  <2>1. short \in Seq(S) /\ c \in S
    BY <1>1
  <2>2. /\ Append(short, c) \in Seq(S)
        /\ Len(Append(short, c)) = Len(short) + 1
        /\ \A i \in 1 .. Len(short) : Append(short, c)[i] = short[i]
        /\ Append(short, c)[Len(short) + 1] = c
    BY <2>1, AppendProperties
  <2>3. Len(short) = 2
    BY <1>1
  <2> QED
    BY <2>2, <2>3
<1>4. \A i \in 1 .. 3 : Append(short, c)[i] = long[i]
  BY <1>1, <1>2, <1>3
<1>5. Append(short, c) = long
  BY <1>1, <1>3, <1>4, SeqEqual
<1> QED
  BY <1>5 DEF short, long

\* The code of three values, one behind the other.
LEMMA ThreeIs ==
    ASSUME NEW A, NEW B, NEW C, IsCode(Two(A, B)), IsCode(C)
    PROVE  IsCode(Three(A, B, C)) /\ Appends(Two(A, B), C, Three(A, B, C))
<1> DEFINE short == Two(A, B)
           long == Three(A, B, C)
<1>1. \A a \in DOMAIN A, b \in DOMAIN B :
         <<a, b>> \in DOMAIN short
  BY DEF Two
<1>2. \A a \in DOMAIN A, b \in DOMAIN B :
         short[<<a, b>>] = Cat(A[a], B[b])
  BY <1>1 DEF Two
<1>3. \A a \in DOMAIN A, b \in DOMAIN B, c \in DOMAIN C :
         <<a, b, c>> \in DOMAIN long
  BY DEF Three
<1>4. \A a \in DOMAIN A, b \in DOMAIN B, c \in DOMAIN C :
         long[<<a, b, c>>] = Cat(Cat(A[a], B[b]), C[c])
  BY <1>3 DEF Three
<1>5. \A u \in DOMAIN short : \E a \in DOMAIN A, b \in DOMAIN B : u = <<a, b>>
  BY DEF Two
<1>6. \A w \in DOMAIN long : \E a \in DOMAIN A, b \in DOMAIN B, c \in DOMAIN C : w = <<a, b, c>>
  BY DEF Three
<1> HIDE DEF short, long
<1>7. \A a, b, c : Append(<<a, b>>, c) = <<a, b, c>>
  BY AppendThree
<1>c. \A x, y : Cat(x, y) = x \o y
  BY DEF Cat
<1>8. ASSUME NEW a \in DOMAIN A, NEW b \in DOMAIN B, NEW c \in DOMAIN C
      PROVE  /\ <<a, b>> \in DOMAIN short /\ Append(<<a, b>>, c) \in DOMAIN long
             /\ long[Append(<<a, b>>, c)] = short[<<a, b>>] \o C[c]
  <2>1. long[<<a, b, c>>] = Cat(Cat(A[a], B[b]), C[c])
    BY <1>4
  <2>2. short[<<a, b>>] = Cat(A[a], B[b])
    BY <1>2
  <2>3. long[<<a, b, c>>] = Cat(short[<<a, b>>], C[c])
    BY <2>1, <2>2
  <2>4. long[<<a, b, c>>] = short[<<a, b>>] \o C[c]
    BY <1>c, <2>3
  <2>5. Append(<<a, b>>, c) = <<a, b, c>>
    BY <1>7
  <2> QED
    BY <1>1, <1>3, <2>4, <2>5
<1>9. ASSUME NEW u \in DOMAIN short, NEW c \in DOMAIN C
      PROVE  Append(u, c) \in DOMAIN long /\ long[Append(u, c)] = short[u] \o C[c]
  <2>1. PICK a \in DOMAIN A, b \in DOMAIN B : u = <<a, b>>
    BY <1>5
  <2> QED
    BY <1>8, <2>1
<1>10. ASSUME NEW w \in DOMAIN long
       PROVE  \E u \in DOMAIN short, c \in DOMAIN C : w = Append(u, c)
  <2>1. PICK a \in DOMAIN A, b \in DOMAIN B, c \in DOMAIN C : w = <<a, b, c>>
    BY <1>6
  <2>2. <<a, b>> \in DOMAIN short /\ w = Append(<<a, b>>, c)
    BY <1>1, <1>7, <2>1
  <2> QED
    BY <2>2
<1>11. ASSUME NEW w \in DOMAIN long PROVE long[w] \in Str
  <2>1. PICK u \in DOMAIN short, c \in DOMAIN C : w = Append(u, c)
    BY <1>10
  <2>2. short[u] \in Str /\ C[c] \in Str
    BY DEF IsCode, short
  <2>3. short[u] \o C[c] \in Str
    BY <2>2, ConcatProperties DEF Str
  <2> QED
    BY <1>9, <2>1, <2>3
<1> QED
  BY <1>9, <1>10, <1>11 DEF Appends, IsCode, short, long

\* A tuple of four is a shorter one with a value behind it.
LEMMA AppendFour ==
    \A a, b, c, d : Append(<<a, b, c>>, d) = <<a, b, c, d>>
<1> SUFFICES ASSUME NEW a, NEW b, NEW c, NEW d PROVE Append(<<a, b, c>>, d) = <<a, b, c, d>>
  OBVIOUS
<1> DEFINE S == {a, b, c, d}
           short == <<a, b, c>>
           long == <<a, b, c, d>>
<1>1. /\ short \in Seq(S) /\ Len(short) = 3 /\ long \in Seq(S) /\ Len(long) = 4 /\ d \in S
  OBVIOUS
<1>2. /\ short[1] = a /\ short[2] = b /\ short[3] = c
      /\ long[1] = a /\ long[2] = b /\ long[3] = c /\ long[4] = d
  OBVIOUS
<1> HIDE DEF short, long, S
<1>3. /\ Append(short, d) \in Seq(S) /\ Len(Append(short, d)) = 4
      /\ \A i \in 1 .. 3 : Append(short, d)[i] = short[i]
      /\ Append(short, d)[4] = d
  <2>1. short \in Seq(S) /\ d \in S
    BY <1>1
  <2>2. /\ Append(short, d) \in Seq(S)
        /\ Len(Append(short, d)) = Len(short) + 1
        /\ \A i \in 1 .. Len(short) : Append(short, d)[i] = short[i]
        /\ Append(short, d)[Len(short) + 1] = d
    BY <2>1, AppendProperties
  <2>3. Len(short) = 3
    BY <1>1
  <2> QED
    BY <2>2, <2>3
<1>4. \A i \in 1 .. 4 : Append(short, d)[i] = long[i]
  BY <1>1, <1>2, <1>3
<1>5. Append(short, d) = long
  BY <1>1, <1>3, <1>4, SeqEqual
<1> QED
  BY <1>5 DEF short, long

\* The code of four values, one behind the other.
LEMMA FourIs ==
    ASSUME NEW A, NEW B, NEW C, NEW D, IsCode(Three(A, B, C)), IsCode(D)
    PROVE  IsCode(Four(A, B, C, D)) /\ Appends(Three(A, B, C), D, Four(A, B, C, D))
<1> DEFINE short == Three(A, B, C)
           long == Four(A, B, C, D)
<1>1. \A a \in DOMAIN A, b \in DOMAIN B, c \in DOMAIN C :
         <<a, b, c>> \in DOMAIN short
  BY DEF Three
<1>2. \A a \in DOMAIN A, b \in DOMAIN B, c \in DOMAIN C :
         short[<<a, b, c>>] = Cat(Cat(A[a], B[b]), C[c])
  BY <1>1 DEF Three
<1>3. \A a \in DOMAIN A, b \in DOMAIN B, c \in DOMAIN C, d \in DOMAIN D :
         <<a, b, c, d>> \in DOMAIN long
  BY DEF Four
<1>4. \A a \in DOMAIN A, b \in DOMAIN B, c \in DOMAIN C, d \in DOMAIN D :
         long[<<a, b, c, d>>] = Cat(Cat(Cat(A[a], B[b]), C[c]), D[d])
  BY <1>3 DEF Four
<1>5. \A u \in DOMAIN short : \E a \in DOMAIN A, b \in DOMAIN B, c \in DOMAIN C : u = <<a, b, c>>
  BY DEF Three
<1>6. \A w \in DOMAIN long : \E a \in DOMAIN A, b \in DOMAIN B, c \in DOMAIN C,
          d \in DOMAIN D : w = <<a, b, c, d>>
  BY DEF Four
<1> HIDE DEF short, long
<1>7. \A a, b, c, d : Append(<<a, b, c>>, d) = <<a, b, c, d>>
  BY AppendFour
<1>c. \A x, y : Cat(x, y) = x \o y
  BY DEF Cat
<1>8. ASSUME NEW a \in DOMAIN A, NEW b \in DOMAIN B, NEW c \in DOMAIN C, NEW d \in DOMAIN D
      PROVE  /\ <<a, b, c>> \in DOMAIN short /\ Append(<<a, b, c>>, d) \in DOMAIN long
             /\ long[Append(<<a, b, c>>, d)] = short[<<a, b, c>>] \o D[d]
  <2>1. long[<<a, b, c, d>>] = Cat(Cat(Cat(A[a], B[b]), C[c]), D[d])
    BY <1>4
  <2>2. short[<<a, b, c>>] = Cat(Cat(A[a], B[b]), C[c])
    BY <1>2
  <2>3. long[<<a, b, c, d>>] = Cat(short[<<a, b, c>>], D[d])
    BY <2>1, <2>2
  <2>4. long[<<a, b, c, d>>] = short[<<a, b, c>>] \o D[d]
    BY <1>c, <2>3
  <2>5. Append(<<a, b, c>>, d) = <<a, b, c, d>>
    BY <1>7
  <2> QED
    BY <1>1, <1>3, <2>4, <2>5
<1>9. ASSUME NEW u \in DOMAIN short, NEW d \in DOMAIN D
      PROVE  Append(u, d) \in DOMAIN long /\ long[Append(u, d)] = short[u] \o D[d]
  <2>1. PICK a \in DOMAIN A, b \in DOMAIN B, c \in DOMAIN C : u = <<a, b, c>>
    BY <1>5
  <2> QED
    BY <1>8, <2>1
<1>10. ASSUME NEW w \in DOMAIN long
       PROVE  \E u \in DOMAIN short, d \in DOMAIN D : w = Append(u, d)
  <2>1. PICK a \in DOMAIN A, b \in DOMAIN B, c \in DOMAIN C, d \in DOMAIN D : w = <<a, b, c, d>>
    BY <1>6
  <2>2. <<a, b, c>> \in DOMAIN short /\ w = Append(<<a, b, c>>, d)
    BY <1>1, <1>7, <2>1
  <2> QED
    BY <2>2
<1>11. ASSUME NEW w \in DOMAIN long PROVE long[w] \in Str
  <2>1. PICK u \in DOMAIN short, d \in DOMAIN D : w = Append(u, d)
    BY <1>10
  <2>2. short[u] \in Str /\ D[d] \in Str
    BY DEF IsCode, short
  <2>3. short[u] \o D[d] \in Str
    BY <2>2, ConcatProperties DEF Str
  <2> QED
    BY <1>9, <2>1, <2>3
<1> QED
  BY <1>9, <1>10, <1>11 DEF Appends, IsCode, short, long

\* A tuple of five is a shorter one with a value behind it.
LEMMA AppendFive ==
    \A a, b, c, d, e : Append(<<a, b, c, d>>, e) = <<a, b, c, d, e>>
<1> SUFFICES ASSUME NEW a, NEW b, NEW c, NEW d, NEW e
                        PROVE Append(<<a, b, c, d>>, e) = <<a, b, c, d, e>>
  OBVIOUS
<1> DEFINE S == {a, b, c, d, e}
           short == <<a, b, c, d>>
           long == <<a, b, c, d, e>>
<1>1. /\ short \in Seq(S) /\ Len(short) = 4 /\ long \in Seq(S) /\ Len(long) = 5 /\ e \in S
  OBVIOUS
<1>2. /\ short[1] = a /\ short[2] = b /\ short[3] = c /\ short[4] = d
      /\ long[1] = a /\ long[2] = b /\ long[3] = c /\ long[4] = d /\ long[5] = e
  OBVIOUS
<1> HIDE DEF short, long, S
<1>3. /\ Append(short, e) \in Seq(S) /\ Len(Append(short, e)) = 5
      /\ \A i \in 1 .. 4 : Append(short, e)[i] = short[i]
      /\ Append(short, e)[5] = e
  <2>1. short \in Seq(S) /\ e \in S
    BY <1>1
  <2>2. /\ Append(short, e) \in Seq(S)
        /\ Len(Append(short, e)) = Len(short) + 1
        /\ \A i \in 1 .. Len(short) : Append(short, e)[i] = short[i]
        /\ Append(short, e)[Len(short) + 1] = e
    BY <2>1, AppendProperties
  <2>3. Len(short) = 4
    BY <1>1
  <2> QED
    BY <2>2, <2>3
<1>4. \A i \in 1 .. 5 : Append(short, e)[i] = long[i]
  BY <1>1, <1>2, <1>3
<1>5. Append(short, e) = long
  BY <1>1, <1>3, <1>4, SeqEqual
<1> QED
  BY <1>5 DEF short, long

\* The code of five values, one behind the other.
LEMMA FiveIs ==
    ASSUME NEW A, NEW B, NEW C, NEW D, NEW E, IsCode(Four(A, B, C, D)), IsCode(E)
    PROVE  IsCode(Five(A, B, C, D, E)) /\ Appends(Four(A, B, C, D), E, Five(A, B, C, D, E))
<1> DEFINE short == Four(A, B, C, D)
           long == Five(A, B, C, D, E)
<1>1. \A a \in DOMAIN A, b \in DOMAIN B, c \in DOMAIN C, d \in DOMAIN D :
         <<a, b, c, d>> \in DOMAIN short
  BY DEF Four
<1>2. \A a \in DOMAIN A, b \in DOMAIN B, c \in DOMAIN C, d \in DOMAIN D :
         short[<<a, b, c, d>>] = Cat(Cat(Cat(A[a], B[b]), C[c]), D[d])
  BY <1>1 DEF Four
<1>3. \A a \in DOMAIN A, b \in DOMAIN B, c \in DOMAIN C, d \in DOMAIN D, e \in DOMAIN E :
         <<a, b, c, d, e>> \in DOMAIN long
  BY DEF Five
<1>4. \A a \in DOMAIN A, b \in DOMAIN B, c \in DOMAIN C, d \in DOMAIN D, e \in DOMAIN E :
         long[<<a, b, c, d, e>>] = Cat(Cat(Cat(Cat(A[a], B[b]), C[c]), D[d]), E[e])
  BY <1>3 DEF Five
<1>5. \A u \in DOMAIN short : \E a \in DOMAIN A, b \in DOMAIN B, c \in DOMAIN C,
          d \in DOMAIN D : u = <<a, b, c, d>>
  BY DEF Four
<1>6. \A w \in DOMAIN long : \E a \in DOMAIN A, b \in DOMAIN B, c \in DOMAIN C, d \in DOMAIN D,
          e \in DOMAIN E : w = <<a, b, c, d, e>>
  BY DEF Five
<1> HIDE DEF short, long
<1>7. \A a, b, c, d, e : Append(<<a, b, c, d>>, e) = <<a, b, c, d, e>>
  BY AppendFive
<1>c. \A x, y : Cat(x, y) = x \o y
  BY DEF Cat
<1>8. ASSUME NEW a \in DOMAIN A, NEW b \in DOMAIN B, NEW c \in DOMAIN C, NEW d \in DOMAIN D,
                 NEW e \in DOMAIN E
      PROVE  /\ <<a, b, c, d>> \in DOMAIN short /\ Append(<<a, b, c, d>>, e) \in DOMAIN long
             /\ long[Append(<<a, b, c, d>>, e)] = short[<<a, b, c, d>>] \o E[e]
  <2>1. long[<<a, b, c, d, e>>] = Cat(Cat(Cat(Cat(A[a], B[b]), C[c]), D[d]), E[e])
    BY <1>4
  <2>2. short[<<a, b, c, d>>] = Cat(Cat(Cat(A[a], B[b]), C[c]), D[d])
    BY <1>2
  <2>3. long[<<a, b, c, d, e>>] = Cat(short[<<a, b, c, d>>], E[e])
    BY <2>1, <2>2
  <2>4. long[<<a, b, c, d, e>>] = short[<<a, b, c, d>>] \o E[e]
    BY <1>c, <2>3
  <2>5. Append(<<a, b, c, d>>, e) = <<a, b, c, d, e>>
    BY <1>7
  <2> QED
    BY <1>1, <1>3, <2>4, <2>5
<1>9. ASSUME NEW u \in DOMAIN short, NEW e \in DOMAIN E
      PROVE  Append(u, e) \in DOMAIN long /\ long[Append(u, e)] = short[u] \o E[e]
  <2>1. PICK a \in DOMAIN A, b \in DOMAIN B, c \in DOMAIN C, d \in DOMAIN D : u = <<a, b, c, d>>
    BY <1>5
  <2> QED
    BY <1>8, <2>1
<1>10. ASSUME NEW w \in DOMAIN long
       PROVE  \E u \in DOMAIN short, e \in DOMAIN E : w = Append(u, e)
  <2>1. PICK a \in DOMAIN A, b \in DOMAIN B, c \in DOMAIN C, d \in DOMAIN D, e \in DOMAIN E :
                 w = <<a, b, c, d, e>>
    BY <1>6
  <2>2. <<a, b, c, d>> \in DOMAIN short /\ w = Append(<<a, b, c, d>>, e)
    BY <1>1, <1>7, <2>1
  <2> QED
    BY <2>2
<1>11. ASSUME NEW w \in DOMAIN long PROVE long[w] \in Str
  <2>1. PICK u \in DOMAIN short, e \in DOMAIN E : w = Append(u, e)
    BY <1>10
  <2>2. short[u] \in Str /\ E[e] \in Str
    BY DEF IsCode, short
  <2>3. short[u] \o E[e] \in Str
    BY <2>2, ConcatProperties DEF Str
  <2> QED
    BY <1>9, <2>1, <2>3
<1> QED
  BY <1>9, <1>10, <1>11 DEF Appends, IsCode, short, long

\* A tuple of six is a shorter one with a value behind it.
LEMMA AppendSix ==
    \A a, b, c, d, e, f : Append(<<a, b, c, d, e>>, f) = <<a, b, c, d, e, f>>
<1> SUFFICES ASSUME NEW a, NEW b, NEW c, NEW d, NEW e, NEW f
                        PROVE Append(<<a, b, c, d, e>>, f) = <<a, b, c, d, e, f>>
  OBVIOUS
<1> DEFINE S == {a, b, c, d, e, f}
           short == <<a, b, c, d, e>>
           long == <<a, b, c, d, e, f>>
<1>1. /\ short \in Seq(S) /\ Len(short) = 5 /\ long \in Seq(S) /\ Len(long) = 6 /\ f \in S
  OBVIOUS
<1>2. /\ short[1] = a /\ short[2] = b /\ short[3] = c /\ short[4] = d /\ short[5] = e
      /\ long[1] = a /\ long[2] = b /\ long[3] = c /\ long[4] = d /\ long[5] = e /\ long[6] = f
  OBVIOUS
<1> HIDE DEF short, long, S
<1>3. /\ Append(short, f) \in Seq(S) /\ Len(Append(short, f)) = 6
      /\ \A i \in 1 .. 5 : Append(short, f)[i] = short[i]
      /\ Append(short, f)[6] = f
  <2>1. short \in Seq(S) /\ f \in S
    BY <1>1
  <2>2. /\ Append(short, f) \in Seq(S)
        /\ Len(Append(short, f)) = Len(short) + 1
        /\ \A i \in 1 .. Len(short) : Append(short, f)[i] = short[i]
        /\ Append(short, f)[Len(short) + 1] = f
    BY <2>1, AppendProperties
  <2>3. Len(short) = 5
    BY <1>1
  <2> QED
    BY <2>2, <2>3
<1>4. \A i \in 1 .. 6 : Append(short, f)[i] = long[i]
  BY <1>1, <1>2, <1>3
<1>5. Append(short, f) = long
  BY <1>1, <1>3, <1>4, SeqEqual
<1> QED
  BY <1>5 DEF short, long

\* The code of six values, one behind the other.
LEMMA SixIs ==
    ASSUME NEW A, NEW B, NEW C, NEW D, NEW E, NEW F, IsCode(Five(A, B, C, D, E)), IsCode(F)
    PROVE  IsCode(Six(A, B, C, D, E, F)) /\ Appends(Five(A, B, C, D, E), F, Six(A, B, C, D, E, F))
<1> DEFINE short == Five(A, B, C, D, E)
           long == Six(A, B, C, D, E, F)
<1>1. \A a \in DOMAIN A, b \in DOMAIN B, c \in DOMAIN C, d \in DOMAIN D, e \in DOMAIN E :
         <<a, b, c, d, e>> \in DOMAIN short
  BY DEF Five
<1>2. \A a \in DOMAIN A, b \in DOMAIN B, c \in DOMAIN C, d \in DOMAIN D, e \in DOMAIN E :
         short[<<a, b, c, d, e>>] = Cat(Cat(Cat(Cat(A[a], B[b]), C[c]), D[d]), E[e])
  BY <1>1 DEF Five
<1>3. \A a \in DOMAIN A, b \in DOMAIN B, c \in DOMAIN C, d \in DOMAIN D, e \in DOMAIN E,
          f \in DOMAIN F :
         <<a, b, c, d, e, f>> \in DOMAIN long
  BY DEF Six
<1>4. \A a \in DOMAIN A, b \in DOMAIN B, c \in DOMAIN C, d \in DOMAIN D, e \in DOMAIN E,
          f \in DOMAIN F :
         long[<<a, b, c, d, e, f>>] = Cat(Cat(Cat(Cat(Cat(A[a], B[b]), C[c]), D[d]), E[e]), F[f])
  BY <1>3 DEF Six
<1>5. \A u \in DOMAIN short : \E a \in DOMAIN A, b \in DOMAIN B, c \in DOMAIN C,
          d \in DOMAIN D, e \in DOMAIN E : u = <<a, b, c, d, e>>
  BY DEF Five
<1>6. \A w \in DOMAIN long : \E a \in DOMAIN A, b \in DOMAIN B, c \in DOMAIN C, d \in DOMAIN D,
          e \in DOMAIN E, f \in DOMAIN F : w = <<a, b, c, d, e, f>>
  BY DEF Six
<1> HIDE DEF short, long
<1>7. \A a, b, c, d, e, f : Append(<<a, b, c, d, e>>, f) = <<a, b, c, d, e, f>>
  BY AppendSix
<1>c. \A x, y : Cat(x, y) = x \o y
  BY DEF Cat
<1>8. ASSUME NEW a \in DOMAIN A, NEW b \in DOMAIN B, NEW c \in DOMAIN C, NEW d \in DOMAIN D,
                 NEW e \in DOMAIN E, NEW f \in DOMAIN F
      PROVE  /\ <<a, b, c, d, e>> \in DOMAIN short /\ Append(<<a, b, c, d, e>>, f) \in DOMAIN long
             /\ long[Append(<<a, b, c, d, e>>, f)] = short[<<a, b, c, d, e>>] \o F[f]
  <2>1. long[<<a, b, c, d, e, f>>] = Cat(Cat(Cat(Cat(Cat(A[a], B[b]), C[c]), D[d]), E[e]), F[f])
    BY <1>4
  <2>2. short[<<a, b, c, d, e>>] = Cat(Cat(Cat(Cat(A[a], B[b]), C[c]), D[d]), E[e])
    BY <1>2
  <2>3. long[<<a, b, c, d, e, f>>] = Cat(short[<<a, b, c, d, e>>], F[f])
    BY <2>1, <2>2
  <2>4. long[<<a, b, c, d, e, f>>] = short[<<a, b, c, d, e>>] \o F[f]
    BY <1>c, <2>3
  <2>5. Append(<<a, b, c, d, e>>, f) = <<a, b, c, d, e, f>>
    BY <1>7
  <2> QED
    BY <1>1, <1>3, <2>4, <2>5
<1>9. ASSUME NEW u \in DOMAIN short, NEW f \in DOMAIN F
      PROVE  Append(u, f) \in DOMAIN long /\ long[Append(u, f)] = short[u] \o F[f]
  <2>1. PICK a \in DOMAIN A, b \in DOMAIN B, c \in DOMAIN C, d \in DOMAIN D, e \in DOMAIN E :
                 u = <<a, b, c, d, e>>
    BY <1>5
  <2> QED
    BY <1>8, <2>1
<1>10. ASSUME NEW w \in DOMAIN long
       PROVE  \E u \in DOMAIN short, f \in DOMAIN F : w = Append(u, f)
  <2>1. PICK a \in DOMAIN A, b \in DOMAIN B, c \in DOMAIN C, d \in DOMAIN D, e \in DOMAIN E,
                 f \in DOMAIN F : w = <<a, b, c, d, e, f>>
    BY <1>6
  <2>2. <<a, b, c, d, e>> \in DOMAIN short /\ w = Append(<<a, b, c, d, e>>, f)
    BY <1>1, <1>7, <2>1
  <2> QED
    BY <2>2
<1>11. ASSUME NEW w \in DOMAIN long PROVE long[w] \in Str
  <2>1. PICK u \in DOMAIN short, f \in DOMAIN F : w = Append(u, f)
    BY <1>10
  <2>2. short[u] \in Str /\ F[f] \in Str
    BY DEF IsCode, short
  <2>3. short[u] \o F[f] \in Str
    BY <2>2, ConcatProperties DEF Str
  <2> QED
    BY <1>9, <2>1, <2>3
<1> QED
  BY <1>9, <1>10, <1>11 DEF Appends, IsCode, short, long

\* A tuple of seven is a shorter one with a value behind it.
LEMMA AppendSeven ==
    \A a, b, c, d, e, f, g : Append(<<a, b, c, d, e, f>>, g) = <<a, b, c, d, e, f, g>>
<1> SUFFICES ASSUME NEW a, NEW b, NEW c, NEW d, NEW e, NEW f, NEW g
                        PROVE Append(<<a, b, c, d, e, f>>, g) = <<a, b, c, d, e, f, g>>
  OBVIOUS
<1> DEFINE S == {a, b, c, d, e, f, g}
           short == <<a, b, c, d, e, f>>
           long == <<a, b, c, d, e, f, g>>
<1>1. /\ short \in Seq(S) /\ Len(short) = 6 /\ long \in Seq(S) /\ Len(long) = 7 /\ g \in S
  OBVIOUS
<1>2. /\ short[1] = a /\ short[2] = b /\ short[3] = c /\ short[4] = d /\ short[5] = e /\ short[6] = f
      /\ long[1] = a /\ long[2] = b /\ long[3] = c /\ long[4] = d /\ long[5] = e /\ long[6] = f
             /\ long[7] = g
  OBVIOUS
<1> HIDE DEF short, long, S
<1>3. /\ Append(short, g) \in Seq(S) /\ Len(Append(short, g)) = 7
      /\ \A i \in 1 .. 6 : Append(short, g)[i] = short[i]
      /\ Append(short, g)[7] = g
  <2>1. short \in Seq(S) /\ g \in S
    BY <1>1
  <2>2. /\ Append(short, g) \in Seq(S)
        /\ Len(Append(short, g)) = Len(short) + 1
        /\ \A i \in 1 .. Len(short) : Append(short, g)[i] = short[i]
        /\ Append(short, g)[Len(short) + 1] = g
    BY <2>1, AppendProperties
  <2>3. Len(short) = 6
    BY <1>1
  <2> QED
    BY <2>2, <2>3
<1>4. \A i \in 1 .. 7 : Append(short, g)[i] = long[i]
  BY <1>1, <1>2, <1>3
<1>5. Append(short, g) = long
  BY <1>1, <1>3, <1>4, SeqEqual
<1> QED
  BY <1>5 DEF short, long

\* The code of seven values, one behind the other.
LEMMA SevenIs ==
    ASSUME NEW A, NEW B, NEW C, NEW D, NEW E, NEW F, NEW G, IsCode(Six(A, B, C, D, E, F)), IsCode(G)
    PROVE  IsCode(Seven(A, B, C, D, E, F, G))
               /\ Appends(Six(A, B, C, D, E, F), G, Seven(A, B, C, D, E, F, G))
<1> DEFINE short == Six(A, B, C, D, E, F)
           long == Seven(A, B, C, D, E, F, G)
<1>1. \A a \in DOMAIN A, b \in DOMAIN B, c \in DOMAIN C, d \in DOMAIN D, e \in DOMAIN E,
          f \in DOMAIN F :
         <<a, b, c, d, e, f>> \in DOMAIN short
  BY DEF Six
<1>2. \A a \in DOMAIN A, b \in DOMAIN B, c \in DOMAIN C, d \in DOMAIN D, e \in DOMAIN E,
          f \in DOMAIN F :
         short[<<a, b, c, d, e, f>>] = Cat(Cat(Cat(Cat(Cat(A[a], B[b]), C[c]), D[d]), E[e]), F[f])
  BY <1>1 DEF Six
<1>3. \A a \in DOMAIN A, b \in DOMAIN B, c \in DOMAIN C, d \in DOMAIN D, e \in DOMAIN E,
          f \in DOMAIN F, g \in DOMAIN G :
         <<a, b, c, d, e, f, g>> \in DOMAIN long
  BY DEF Seven
<1>4. \A a \in DOMAIN A, b \in DOMAIN B, c \in DOMAIN C, d \in DOMAIN D, e \in DOMAIN E,
          f \in DOMAIN F, g \in DOMAIN G :
         long[<<a, b, c, d, e, f, g>>]
             = Cat(Cat(Cat(Cat(Cat(Cat(A[a], B[b]), C[c]), D[d]), E[e]), F[f]), G[g])
  BY <1>3 DEF Seven
<1>5. \A u \in DOMAIN short : \E a \in DOMAIN A, b \in DOMAIN B, c \in DOMAIN C,
          d \in DOMAIN D, e \in DOMAIN E, f \in DOMAIN F : u = <<a, b, c, d, e, f>>
  BY DEF Six
<1>6. \A w \in DOMAIN long : \E a \in DOMAIN A, b \in DOMAIN B, c \in DOMAIN C, d \in DOMAIN D,
          e \in DOMAIN E, f \in DOMAIN F, g \in DOMAIN G : w = <<a, b, c, d, e, f, g>>
  BY DEF Seven
<1> HIDE DEF short, long
<1>7. \A a, b, c, d, e, f, g : Append(<<a, b, c, d, e, f>>, g) = <<a, b, c, d, e, f, g>>
  BY AppendSeven
<1>c. \A x, y : Cat(x, y) = x \o y
  BY DEF Cat
<1>8. ASSUME NEW a \in DOMAIN A, NEW b \in DOMAIN B, NEW c \in DOMAIN C, NEW d \in DOMAIN D,
                 NEW e \in DOMAIN E, NEW f \in DOMAIN F, NEW g \in DOMAIN G
      PROVE  /\ <<a, b, c, d, e, f>> \in DOMAIN short /\ Append(<<a, b, c, d, e, f>>, g) \in DOMAIN long
             /\ long[Append(<<a, b, c, d, e, f>>, g)] = short[<<a, b, c, d, e, f>>] \o G[g]
  <2>1. long[<<a, b, c, d, e, f, g>>]
            = Cat(Cat(Cat(Cat(Cat(Cat(A[a], B[b]), C[c]), D[d]), E[e]), F[f]), G[g])
    BY <1>4
  <2>2. short[<<a, b, c, d, e, f>>] = Cat(Cat(Cat(Cat(Cat(A[a], B[b]), C[c]), D[d]), E[e]), F[f])
    BY <1>2
  <2>3. long[<<a, b, c, d, e, f, g>>] = Cat(short[<<a, b, c, d, e, f>>], G[g])
    BY <2>1, <2>2
  <2>4. long[<<a, b, c, d, e, f, g>>] = short[<<a, b, c, d, e, f>>] \o G[g]
    BY <1>c, <2>3
  <2>5. Append(<<a, b, c, d, e, f>>, g) = <<a, b, c, d, e, f, g>>
    BY <1>7
  <2> QED
    BY <1>1, <1>3, <2>4, <2>5
<1>9. ASSUME NEW u \in DOMAIN short, NEW g \in DOMAIN G
      PROVE  Append(u, g) \in DOMAIN long /\ long[Append(u, g)] = short[u] \o G[g]
  <2>1. PICK a \in DOMAIN A, b \in DOMAIN B, c \in DOMAIN C, d \in DOMAIN D, e \in DOMAIN E,
                 f \in DOMAIN F : u = <<a, b, c, d, e, f>>
    BY <1>5
  <2> QED
    BY <1>8, <2>1
<1>10. ASSUME NEW w \in DOMAIN long
       PROVE  \E u \in DOMAIN short, g \in DOMAIN G : w = Append(u, g)
  <2>1. PICK a \in DOMAIN A, b \in DOMAIN B, c \in DOMAIN C, d \in DOMAIN D, e \in DOMAIN E,
                 f \in DOMAIN F, g \in DOMAIN G : w = <<a, b, c, d, e, f, g>>
    BY <1>6
  <2>2. <<a, b, c, d, e, f>> \in DOMAIN short /\ w = Append(<<a, b, c, d, e, f>>, g)
    BY <1>1, <1>7, <2>1
  <2> QED
    BY <2>2
<1>11. ASSUME NEW w \in DOMAIN long PROVE long[w] \in Str
  <2>1. PICK u \in DOMAIN short, g \in DOMAIN G : w = Append(u, g)
    BY <1>10
  <2>2. short[u] \in Str /\ G[g] \in Str
    BY DEF IsCode, short
  <2>3. short[u] \o G[g] \in Str
    BY <2>2, ConcatProperties DEF Str
  <2> QED
    BY <1>9, <2>1, <2>3
<1> QED
  BY <1>9, <1>10, <1>11 DEF Appends, IsCode, short, long

-----------------------------------------------------------------------------
(* Pieces behind each other *)

\* Joining a sequence of byte strings, one at a time.
JoinedUp(joined, q) ==
    /\ joined \in [0 .. Len(q) -> Str]
    /\ joined[0] = <<>>
    /\ \A k \in 1 .. Len(q) : joined[k] = joined[k - 1] \o q[k]

\* The bytes of two sequences, one behind the other.
LEMMA ConcatIs ==
    /\ \A v, w \in Str : v \o w \in Str /\ Len(v \o w) = Len(v) + Len(w)
    /\ \A v \in Str : <<>> \o v = v /\ v \o <<>> = v
    /\ \A u, v, w \in Str : (u \o v) \o w = u \o (v \o w)
<1>1. \A v, w \in Str : v \o w \in Str /\ Len(v \o w) = Len(v) + Len(w)
  BY ConcatProperties DEF Str
<1>2. \A v \in Str : <<>> \o v = v /\ v \o <<>> = v
  BY ConcatEmptySeq DEF Str
<1>3. \A u, v, w \in Str : (u \o v) \o w = u \o (v \o w)
  BY ConcatAssociative DEF Str
<1> QED
  BY <1>1, <1>2, <1>3

\* The bytes of a list are those of its elements, in order.
LEMMA FlattenIs ==
    ASSUME NEW q \in Seq(Str)
    PROVE  \E joined : JoinedUp(joined, q) /\ FlattenSeq(q) = joined[Len(q)]
<1>1. PICK n \in Nat : n = Len(q)
  BY LenProperties
<1>2. \A k \in 1 .. n : q[k] \in Str
  BY <1>1, ElementOfSeq
<1>3. CASE n = 0
  <2>1. q = <<>>
    BY <1>1, <1>3, EmptySeq
  <2>2. FlattenSeq(q) = <<>>
    BY <1>1, <1>3, <2>1 DEF FlattenSeq
  <2> DEFINE joined == [k \in 0 .. 0 |-> <<>>]
  <2>3. joined \in [0 .. Len(q) -> Str] /\ joined[0] = <<>> /\ joined[Len(q)] = <<>>
    BY <1>1, <1>3, StrIs
  <2>4. \A k \in 1 .. Len(q) : FALSE
    BY <1>1, <1>3
  <2> HIDE DEF joined
  <2> QED
    BY <2>2, <2>3, <2>4 DEF JoinedUp
<1>4. CASE n # 0
  <2> DEFINE Solves(f) == f = [i \in 1 .. Len(q) |-> IF i = 1 THEN q[i] ELSE f[i - 1] \o q[i]]
             step == [k \in 1 .. n |-> [y \in Str |-> y \o q[k]]]
  <2>1. PICK f : Iterates(f, Str, <<>>, step, n)
    <3>1. Steps(step, Str, n)
      <4> SUFFICES ASSUME NEW k \in 1 .. n PROVE step[k] \in [Str -> Str]
        BY DEF Steps
      <4>1. \A y \in Str : y \o q[k] \in Str
        BY <1>2, ConcatIs
      <4> QED
        BY <4>1
    <3> HIDE DEF step
    <3>2. <<>> \in Str
      BY StrIs
    <3> QED
      BY <3>1, <3>2, RecursionIs
  <2>2. f \in [0 .. n -> Str] /\ f[0] = <<>> /\ \A k \in 1 .. n : f[k] = f[k - 1] \o q[k]
    <3>1. f \in [0 .. n -> Str] /\ f[0] = <<>> /\ \A k \in 1 .. n : f[k] = step[k][f[k - 1]]
      BY <2>1 DEF Iterates
    <3>2. ASSUME NEW k \in 1 .. n PROVE f[k] = f[k - 1] \o q[k]
      <4>1. f[k - 1] \in Str
        BY <3>1
      <4> QED
        BY <3>1, <4>1
    <3> QED
      BY <3>1, <3>2
  <2> HIDE DEF step
  <2>3. \E g : Solves(g)
    <3> DEFINE g == [i \in 1 .. n |-> f[i]]
    <3>1. \A i \in 1 .. n : g[i] = IF i = 1 THEN q[i] ELSE g[i - 1] \o q[i]
      <4> SUFFICES ASSUME NEW i \in 1 .. n PROVE g[i] = IF i = 1 THEN q[i] ELSE g[i - 1] \o q[i]
        OBVIOUS
      <4>1. f[i] = f[i - 1] \o q[i] /\ g[i] = f[i]
        BY <2>2
      <4>2. CASE i = 1
        <5>1. f[i - 1] = <<>> /\ q[i] \in Str
          BY <1>2, <2>2, <4>2
        <5>2. <<>> \o q[i] = q[i]
          BY <5>1, ConcatIs
        <5> QED
          BY <4>1, <4>2, <5>1, <5>2
      <4>3. CASE i # 1
        <5>1. i - 1 \in 1 .. n /\ g[i - 1] = f[i - 1]
          BY <4>3
        <5> QED
          BY <4>1, <4>3, <5>1
      <4> QED
        BY <4>2, <4>3
    <3>2. g = [i \in 1 .. n |-> IF i = 1 THEN q[i] ELSE g[i - 1] \o q[i]]
      BY <3>1
    <3> HIDE DEF g
    <3> QED
      BY <1>1, <3>2
  <2> DEFINE flatten == CHOOSE g : Solves(g)
  <2>4. Solves(flatten)
    <3> HIDE DEF Solves
    <3> QED
      BY <2>3
  <2>5. FlattenSeq(q) = flatten[n]
    BY <1>1, <1>4 DEF FlattenSeq
  <2> HIDE DEF flatten
  <2> DEFINE joined == [k \in 0 .. n |-> IF k = 0 THEN <<>> ELSE flatten[k]]
  <2>6. joined[0] = <<>> /\ joined[n] = flatten[n]
    BY <1>4
  <2>7. \A k \in 1 .. n : joined[k] = IF k = 1 THEN q[k] ELSE joined[k - 1] \o q[k]
    <3> SUFFICES ASSUME NEW k \in 1 .. n PROVE joined[k] = IF k = 1 THEN q[k] ELSE joined[k - 1] \o q[k]
      OBVIOUS
    <3>1. flatten[k] = IF k = 1 THEN q[k] ELSE flatten[k - 1] \o q[k]
      BY <1>1, <2>4
    <3>2. joined[k] = flatten[k] /\ (k # 1 => joined[k - 1] = flatten[k - 1])
      OBVIOUS
    <3> HIDE DEF joined
    <3> QED
      BY <3>1, <3>2
  <2>8. DOMAIN joined = 0 .. n /\ joined = [k \in 0 .. n |-> joined[k]]
    OBVIOUS
  <2> HIDE DEF joined
  <2> DEFINE S == {k \in Nat : k <= n => joined[k] \in Str}
  <2>9. 0 \in S
    BY <2>6, StrIs
  <2>10. ASSUME NEW k \in Nat, k \in S PROVE k + 1 \in S
    <3> SUFFICES ASSUME k + 1 <= n PROVE joined[k + 1] \in Str
      OBVIOUS
    <3>1. k + 1 \in 1 .. n /\ (k + 1) - 1 = k /\ joined[k] \in Str /\ q[k + 1] \in Str
      BY <1>2, <2>10
    <3>2. joined[k] \o q[k + 1] \in Str
      BY <3>1, ConcatIs
    <3>3. joined[k + 1] = IF k + 1 = 1 THEN q[k + 1] ELSE joined[(k + 1) - 1] \o q[k + 1]
      BY <2>7, <3>1
    <3> QED
      BY <3>1, <3>2, <3>3
  <2> HIDE DEF S
  <2>11. Nat \subseteq S
    BY <2>9, <2>10, ByInduction
  <2>12. \A k \in 0 .. n : joined[k] \in Str
    BY <2>11 DEF S
  <2>13. \A k \in 1 .. n : joined[k] = joined[k - 1] \o q[k]
    <3> SUFFICES ASSUME NEW k \in 1 .. n PROVE joined[k] = joined[k - 1] \o q[k]
      OBVIOUS
    <3>1. CASE k = 1
      <4>1. joined[k - 1] = <<>> /\ q[k] \in Str
        BY <1>2, <2>6, <3>1
      <4>2. <<>> \o q[k] = q[k]
        BY <4>1, ConcatIs
      <4> QED
        BY <2>7, <3>1, <4>1, <4>2
    <3>2. CASE k # 1
      BY <2>7, <3>2
    <3> QED
      BY <3>1, <3>2
  <2>14. joined \in [0 .. n -> Str]
    BY <2>8, <2>12
  <2> QED
    BY <1>1, <2>5, <2>6, <2>13, <2>14 DEF JoinedUp
<1> QED
  BY <1>3, <1>4

\* One more element adds its bytes at the end.
LEMMA FlattenGrows ==
    /\ FlattenSeq(<<>>) = <<>>
    /\ \A q \in Seq(Str) : FlattenSeq(q) \in Str
    /\ \A q \in Seq(Str), w \in Str : FlattenSeq(Append(q, w)) = FlattenSeq(q) \o w
<1>1. FlattenSeq(<<>>) = <<>>
  BY StrIs DEF FlattenSeq
<1>2. \A q \in Seq(Str) : FlattenSeq(q) \in Str
  <2> SUFFICES ASSUME NEW q \in Seq(Str) PROVE FlattenSeq(q) \in Str
    OBVIOUS
  <2>1. PICK joined : JoinedUp(joined, q) /\ FlattenSeq(q) = joined[Len(q)]
    BY FlattenIs
  <2>2. Len(q) \in Nat /\ Len(q) \in 0 .. Len(q)
    BY LenProperties
  <2> QED
    BY <2>1, <2>2 DEF JoinedUp
<1>3. ASSUME NEW q \in Seq(Str), NEW w \in Str
      PROVE  FlattenSeq(Append(q, w)) = FlattenSeq(q) \o w
  <2>1. PICK n \in Nat : n = Len(q)
    BY LenProperties
  <2>2. PICK p : p = Append(q, w)
    OBVIOUS
  <2>3. p \in Seq(Str) /\ Len(p) = n + 1 /\ (\A k \in 1 .. n : p[k] = q[k]) /\ p[n + 1] = w
    BY <2>1, <2>2, AppendProperties
  <2>4. PICK f : JoinedUp(f, q) /\ FlattenSeq(q) = f[n]
    BY <2>1, FlattenIs
  <2>5. PICK g : JoinedUp(g, p) /\ FlattenSeq(p) = g[n + 1]
    BY <2>3, FlattenIs
  <2>6. f[0] = <<>> /\ \A k \in 1 .. n : f[k] = f[k - 1] \o q[k]
    BY <2>1, <2>4 DEF JoinedUp
  <2>7. g[0] = <<>> /\ \A k \in 1 .. n + 1 : g[k] = g[k - 1] \o p[k]
    BY <2>3, <2>5 DEF JoinedUp
  <2> DEFINE S == {k \in Nat : k <= n => f[k] = g[k]}
  <2>8. 0 \in S
    BY <2>6, <2>7
  <2>9. ASSUME NEW k \in Nat, k \in S PROVE k + 1 \in S
    <3> SUFFICES ASSUME k + 1 <= n PROVE f[k + 1] = g[k + 1]
      OBVIOUS
    <3>1. k + 1 \in 1 .. n /\ k + 1 \in 1 .. n + 1 /\ (k + 1) - 1 = k /\ f[k] = g[k]
      BY <2>9
    <3> QED
      BY <2>3, <2>6, <2>7, <3>1
  <2> HIDE DEF S
  <2>10. n \in S
    BY <2>8, <2>9, ByInduction
  <2>11. f[n] = g[n]
    BY <2>10 DEF S
  <2>12. n + 1 \in 1 .. n + 1 /\ (n + 1) - 1 = n
    OBVIOUS
  <2>13. g[n + 1] = g[n] \o w
    BY <2>3, <2>7, <2>12
  <2> QED
    BY <2>2, <2>4, <2>5, <2>11, <2>13
<1> QED
  BY <1>1, <1>2, <1>3

-----------------------------------------------------------------------------
(* Lists: elements behind each other, each of a code of its own *)

Pieces(codes, v) == [k \in DOMAIN v |-> codes[k][v[k]]]

\* The elements are from S; of n elements, the k-th has the code codes[k].
IsListOf(v, codes, S, n) ==
    v \in Seq(S) /\ Len(v) = n /\ \A k \in 1 .. n : v[k] \in DOMAIN codes[k]

ListOf(codes, S, n) ==
    [v \in {v \in Seq(S) : IsListOf(v, codes, S, n)} |-> FlattenSeq(Pieces(codes, v))]

\* The list code: a function from lists to bytes.
LEMMA ListOfIs ==
    ASSUME NEW codes, NEW S, NEW n
    PROVE  /\ \A v : v \in DOMAIN ListOf(codes, S, n) <=> IsListOf(v, codes, S, n)
           /\ \A v : IsListOf(v, codes, S, n) =>
                 ListOf(codes, S, n)[v] = FlattenSeq(Pieces(codes, v))
<1>1. \A v : v \in DOMAIN ListOf(codes, S, n) <=> IsListOf(v, codes, S, n)
  BY DEF ListOf, IsListOf
<1>2. \A v \in DOMAIN ListOf(codes, S, n) : ListOf(codes, S, n)[v] = FlattenSeq(Pieces(codes, v))
  BY DEF ListOf
<1> QED
  BY <1>1, <1>2

\* The codes of the first n elements are codes, of elements in S.
AreCodes(codes, S, n) == \A k \in 1 .. n : IsCode(codes[k]) /\ DOMAIN codes[k] \subseteq S

\* The bytes of each element of a list are bytes.
LEMMA PiecesAre ==
    ASSUME NEW codes, NEW S, NEW n \in Nat, AreCodes(codes, S, n), NEW v, IsListOf(v, codes, S, n)
    PROVE  /\ Pieces(codes, v) \in Seq(Str) /\ Len(Pieces(codes, v)) = n
           /\ \A k \in 1 .. n : Pieces(codes, v)[k] = codes[k][v[k]]
<1>1. v \in Seq(S) /\ Len(v) = n /\ DOMAIN v = 1 .. n
  BY LenProperties DEF IsListOf
<1>2. ASSUME NEW k \in 1 .. n PROVE codes[k][v[k]] \in Str
  <2>1. v[k] \in DOMAIN codes[k] /\ IsCode(codes[k])
    BY DEF IsListOf, AreCodes
  <2> QED
    BY <2>1 DEF IsCode
<1>3. PICK q : q = [k \in 1 .. n |-> codes[k][v[k]]]
  OBVIOUS
<1>4. DOMAIN q = 1 .. n /\ (\A k \in 1 .. n : q[k] = codes[k][v[k]]) /\ q = [k \in 1 .. n |-> q[k]]
  BY <1>3
<1>5. q \in Seq(Str)
  BY <1>2, <1>4, IsASeq
<1>6. Len(q) = n
  BY <1>4, <1>5, LenProperties
<1> QED
  BY <1>1, <1>3, <1>4, <1>5, <1>6 DEF Pieces

\* The list of no elements is the empty one, and it has no bytes.
LEMMA NoElements ==
    ASSUME NEW codes, NEW S
    PROVE  /\ \A v : IsListOf(v, codes, S, 0) <=> v = <<>>
           /\ ListOf(codes, S, 0)[<<>>] = <<>>
<1>1. \A v : IsListOf(v, codes, S, 0) <=> v = <<>>
  <2>1. <<>> \in Seq(S) /\ Len(<<>>) = 0
    BY EmptySeq
  <2>2. \A v \in Seq(S) : Len(v) = 0 => v = <<>>
    BY EmptySeq
  <2>3. \A k \in 1 .. 0 : FALSE
    OBVIOUS
  <2> QED
    BY <2>1, <2>2, <2>3 DEF IsListOf
<1>2. Pieces(codes, <<>>) = <<>>
  BY DEF Pieces
<1> QED
  BY <1>1, <1>2, FlattenGrows, ListOfIs

\* One more element behind a list.
LEMMA OneMore ==
    ASSUME NEW codes, NEW S, NEW n \in Nat, AreCodes(codes, S, n + 1)
    PROVE  /\ IsCode(ListOf(codes, S, n)) /\ IsCode(codes[n + 1])
           /\ Appends(ListOf(codes, S, n), codes[n + 1], ListOf(codes, S, n + 1))
<1>0. n + 1 \in 1 .. n + 1 /\ \A k \in 1 .. n : k \in 1 .. n + 1
  OBVIOUS
<1>1. AreCodes(codes, S, n) /\ IsCode(codes[n + 1]) /\ DOMAIN codes[n + 1] \subseteq S
  BY <1>0 DEF AreCodes
<1>2. ASSUME NEW v, IsListOf(v, codes, S, n)
      PROVE  Pieces(codes, v) \in Seq(Str) /\ FlattenSeq(Pieces(codes, v)) \in Str
  <2>1. Pieces(codes, v) \in Seq(Str)
    BY <1>1, <1>2, PiecesAre
  <2> QED
    BY <2>1, FlattenGrows
<1>3. IsCode(ListOf(codes, S, n))
  <2> SUFFICES ASSUME NEW v \in DOMAIN ListOf(codes, S, n) PROVE ListOf(codes, S, n)[v] \in Str
    BY DEF IsCode
  <2>1. IsListOf(v, codes, S, n)
    BY ListOfIs
  <2> QED
    BY <1>2, <2>1, ListOfIs
<1>4. ASSUME NEW v, IsListOf(v, codes, S, n), NEW b \in DOMAIN codes[n + 1]
      PROVE  /\ IsListOf(Append(v, b), codes, S, n + 1)
             /\ FlattenSeq(Pieces(codes, Append(v, b))) = FlattenSeq(Pieces(codes, v))
                    \o codes[n + 1][b]
  <2>1. v \in Seq(S) /\ Len(v) = n /\ b \in S /\ codes[n + 1][b] \in Str
    BY <1>1, <1>4 DEF IsListOf, IsCode
  <2>2. PICK w : w = Append(v, b)
    OBVIOUS
  <2>3. w \in Seq(S) /\ Len(w) = n + 1 /\ (\A k \in 1 .. n : w[k] = v[k]) /\ w[n + 1] = b
    BY <2>1, <2>2, AppendProperties
  <2>4. \A k \in 1 .. n + 1 : w[k] \in DOMAIN codes[k]
    <3> SUFFICES ASSUME NEW k \in 1 .. n + 1 PROVE w[k] \in DOMAIN codes[k]
      OBVIOUS
    <3>1. CASE k = n + 1
      BY <2>3, <3>1
    <3>2. CASE k # n + 1
      <4>1. k \in 1 .. n
        BY <3>2
      <4> QED
        BY <1>4, <2>3, <4>1 DEF IsListOf
    <3> QED
      BY <3>1, <3>2
  <2>5. IsListOf(w, codes, S, n + 1)
    BY <2>3, <2>4 DEF IsListOf
  <2>6. PICK p : p = Pieces(codes, v)
    OBVIOUS
  <2>7. p \in Seq(Str) /\ Len(p) = n /\ \A k \in 1 .. n : p[k] = codes[k][v[k]]
    BY <1>1, <1>4, <2>6, PiecesAre
  <2>8. PICK q : q = Pieces(codes, w)
    OBVIOUS
  <2>9. n + 1 \in Nat
    OBVIOUS
  <2>10. q \in Seq(Str) /\ Len(q) = n + 1 /\ \A k \in 1 .. n + 1 : q[k] = codes[k][w[k]]
    BY <2>5, <2>8, <2>9, PiecesAre
  <2>11. PICK d \in Str : d = codes[n + 1][b]
    BY <2>1
  <2>12. /\ Append(p, d) \in Seq(Str) /\ Len(Append(p, d)) = n + 1
         /\ (\A k \in 1 .. n : Append(p, d)[k] = p[k]) /\ Append(p, d)[n + 1] = d
    BY <2>7, AppendProperties
  <2>13. \A k \in 1 .. n + 1 : q[k] = Append(p, d)[k]
    <3> SUFFICES ASSUME NEW k \in 1 .. n + 1 PROVE q[k] = Append(p, d)[k]
      OBVIOUS
    <3>1. CASE k = n + 1
      BY <2>3, <2>10, <2>11, <2>12, <3>1
    <3>2. CASE k # n + 1
      <4>1. k \in 1 .. n
        BY <3>2
      <4> QED
        BY <2>3, <2>7, <2>10, <2>12, <4>1
    <3> QED
      BY <3>1, <3>2
  <2>14. q = Append(p, d)
    BY <2>10, <2>12, <2>13, SeqEqual
  <2>15. FlattenSeq(Append(p, d)) = FlattenSeq(p) \o d
    BY <2>7, FlattenGrows
  <2> QED
    BY <2>2, <2>5, <2>6, <2>8, <2>11, <2>14, <2>15
<1>5. ASSUME NEW w, IsListOf(w, codes, S, n + 1)
      PROVE  \E v, b : IsListOf(v, codes, S, n) /\ b \in DOMAIN codes[n + 1] /\ w = Append(v, b)
  <2>1. w \in Seq(S) /\ Len(w) = n + 1 /\ \A k \in 1 .. n + 1 : w[k] \in DOMAIN codes[k]
    BY <1>5 DEF IsListOf
  <2>2. w # <<>>
    BY <2>1
  <2>3. PICK v \in Seq(S), b \in S : w = Append(v, b)
    BY <2>1, <2>2, SequenceEmptyOrAppend
  <2>4. Len(v) \in Nat
    BY LenProperties
  <2>5. Len(w) = Len(v) + 1 /\ (\A k \in 1 .. Len(v) : w[k] = v[k]) /\ w[Len(v) + 1] = b
    BY <2>3, AppendProperties
  <2>6. Len(v) = n
    BY <2>1, <2>4, <2>5
  <2>7. \A k \in 1 .. n : v[k] \in DOMAIN codes[k]
    BY <1>0, <2>1, <2>5, <2>6
  <2>8. b \in DOMAIN codes[n + 1]
    BY <1>0, <2>1, <2>5, <2>6
  <2> QED
    BY <2>3, <2>6, <2>7, <2>8 DEF IsListOf
<1>6. ASSUME NEW v \in DOMAIN ListOf(codes, S, n), NEW b \in DOMAIN codes[n + 1]
      PROVE  /\ Append(v, b) \in DOMAIN ListOf(codes, S, n + 1)
             /\ ListOf(codes, S, n + 1)[Append(v, b)] = ListOf(codes, S, n)[v] \o codes[n + 1][b]
  <2>1. IsListOf(v, codes, S, n)
    BY ListOfIs
  <2>2. ListOf(codes, S, n)[v] = FlattenSeq(Pieces(codes, v))
    BY <2>1, ListOfIs
  <2>3. IsListOf(Append(v, b), codes, S, n + 1)
    BY <1>4, <2>1
  <2>4. /\ Append(v, b) \in DOMAIN ListOf(codes, S, n + 1)
        /\ ListOf(codes, S, n + 1)[Append(v, b)] = FlattenSeq(Pieces(codes, Append(v, b)))
    BY <2>3, ListOfIs
  <2> QED
    BY <1>4, <2>1, <2>2, <2>4
<1>7. ASSUME NEW w \in DOMAIN ListOf(codes, S, n + 1)
      PROVE  \E v \in DOMAIN ListOf(codes, S, n), b \in DOMAIN codes[n + 1] : w = Append(v, b)
  <2>1. IsListOf(w, codes, S, n + 1)
    BY ListOfIs
  <2>2. PICK v, b : IsListOf(v, codes, S, n) /\ b \in DOMAIN codes[n + 1] /\ w = Append(v, b)
    BY <1>5, <2>1
  <2>3. v \in DOMAIN ListOf(codes, S, n)
    BY <2>2, ListOfIs
  <2> QED
    BY <2>2, <2>3
<1> QED
  BY <1>1, <1>3, <1>6, <1>7 DEF Appends

\* What reading n elements, one behind the other, comes to: outcomes[k] is that
\* of the first k, next[k] that of the k-th element.
ReadsOneByOne(outcomes, next, codes, s, n) ==
    /\ outcomes[0] = Good(<<>>, s)
    /\ \A k \in 1 .. n :
          /\ outcomes[k] = Behind(outcomes[k - 1], next[k])
          /\ outcomes[k - 1].ok /\ outcomes[k - 1].rest \in Str =>
                Parsed(next[k], codes[k], outcomes[k - 1].rest)

\* A list of known length is read element by element.
LEMMA ListParsed ==
    ASSUME NEW codes, NEW S, NEW n \in Nat, AreCodes(codes, S, n), NEW s \in Str,
           NEW outcomes, NEW next, ReadsOneByOne(outcomes, next, codes, s, n)
    PROVE  \A k \in 0 .. n : Parsed(outcomes[k], ListOf(codes, S, k), s)
<1> DEFINE T == {k \in Nat : k <= n => Parsed(outcomes[k], ListOf(codes, S, k), s)}
<1>1. 0 \in T
  <2>1. outcomes[0] = Good(<<>>, s)
    BY DEF ReadsOneByOne
  <2>2. \A v, t : Begins(s, ListOf(codes, S, 0), v, t) <=> v = <<>> /\ Splits(s, <<>>, t)
    BY NoElements, ListOfIs DEF Begins
  <2>3. Splits(s, <<>>, s)
    BY SplitsEmpty
  <2>4. \A t : Splits(s, <<>>, t) => t = s
    BY <2>3, SplitsSame
  <2>5. Parsed(outcomes[0], ListOf(codes, S, 0), s)
    BY <2>1, <2>2, <2>3, <2>4, ParsedIf
  <2> QED
    BY <2>5
<1>2. ASSUME NEW k \in Nat, k \in T PROVE k + 1 \in T
  <2> SUFFICES ASSUME k + 1 <= n PROVE Parsed(outcomes[k + 1], ListOf(codes, S, k + 1), s)
    OBVIOUS
  <2>1. k + 1 \in 1 .. n /\ (k + 1) - 1 = k /\ \A i \in 1 .. k + 1 : i \in 1 .. n
    OBVIOUS
  <2>2. PICK o, p : o = outcomes[k] /\ p = next[k + 1]
    OBVIOUS
  <2>3. /\ outcomes[k + 1] = Behind(o, p)
        /\ o.ok /\ o.rest \in Str => Parsed(p, codes[k + 1], o.rest)
    BY <2>1, <2>2 DEF ReadsOneByOne
  <2>4. Parsed(o, ListOf(codes, S, k), s)
    BY <1>2, <2>2
  <2>5. o.ok => o.rest \in Str
    BY <2>4, ParsedIs
  <2>6. AreCodes(codes, S, k + 1)
    BY <2>1 DEF AreCodes
  <2>7. /\ IsCode(ListOf(codes, S, k)) /\ IsCode(codes[k + 1])
        /\ Appends(ListOf(codes, S, k), codes[k + 1], ListOf(codes, S, k + 1))
    BY <2>6, OneMore
  <2>8. o.ok => Parsed(p, codes[k + 1], o.rest)
    BY <2>3, <2>5
  <2>9. Parsed(Behind(o, p), ListOf(codes, S, k + 1), s)
    BY <2>4, <2>7, <2>8, BehindParsed
  <2> QED
    BY <2>3, <2>9
<1> HIDE DEF T
<1>3. Nat \subseteq T
  BY <1>1, <1>2, ByInduction
<1> QED
  BY <1>3 DEF T

\* Elements of one code, none of them without bytes.
Same(code) == [k \in Nat |-> code]

NoneEmpty(code) == \A v \in DOMAIN code : code[v] # <<>>

\* A list whose elements all have one code is a sequence of its values.
LEMMA SameIs ==
    ASSUME NEW code, IsCode(code)
    PROVE  /\ \A n \in Nat : AreCodes(Same(code), DOMAIN code, n)
           /\ \A n \in Nat : \A v : IsListOf(v, Same(code), DOMAIN code, n) <=>
                                       v \in Seq(DOMAIN code) /\ Len(v) = n
           /\ \A v \in Seq(DOMAIN code) : Pieces(Same(code), v) = [k \in DOMAIN v |-> code[v[k]]]
<1>1. \A n \in Nat : AreCodes(Same(code), DOMAIN code, n)
  BY DEF AreCodes, Same
<1>2. ASSUME NEW v \in Seq(DOMAIN code)
      PROVE  \A k \in 1 .. Len(v) : k \in Nat /\ k \in DOMAIN v /\ v[k] \in DOMAIN code
  BY LenProperties
<1>3. \A v : \A n \in Nat : IsListOf(v, Same(code), DOMAIN code, n) <=>
                               v \in Seq(DOMAIN code) /\ Len(v) = n
  BY <1>2 DEF IsListOf, Same
<1>4. ASSUME NEW v \in Seq(DOMAIN code)
      PROVE  Pieces(Same(code), v) = [k \in DOMAIN v |-> code[v[k]]]
  <2>1. \A k \in DOMAIN v : k \in Nat
    BY LenProperties
  <2> QED
    BY <2>1 DEF Pieces, Same
<1> QED
  BY <1>1, <1>3, <1>4

\* Each of them takes one byte at least.
LEMMA ListLength ==
    ASSUME NEW code, IsCode(code), NoneEmpty(code), NEW n \in Nat,
           NEW v, IsListOf(v, Same(code), DOMAIN code, n)
    PROVE  /\ ListOf(Same(code), DOMAIN code, n)[v] \in Str
           /\ n <= Len(ListOf(Same(code), DOMAIN code, n)[v])
<1> DEFINE L(m) == ListOf(Same(code), DOMAIN code, m)
           T == {m \in Nat : \A w \in DOMAIN L(m) : L(m)[w] \in Str /\ m <= Len(L(m)[w])}
<1>1. 0 \in T
  <2>1. \A w \in DOMAIN L(0) : L(0)[w] = <<>>
    BY NoElements, ListOfIs
  <2>2. <<>> \in Str /\ Len(<<>>) = 0
    BY StrIs
  <2> QED
    BY <2>1, <2>2
<1>2. ASSUME NEW m \in Nat, m \in T PROVE m + 1 \in T
  <2>1. AreCodes(Same(code), DOMAIN code, m + 1)
    BY SameIs
  <2>2. Appends(L(m), Same(code)[m + 1], L(m + 1))
    BY <2>1, OneMore
  <2>3. Same(code)[m + 1] = code
    BY DEF Same
  <2> HIDE DEF L
  <2>4. ASSUME NEW w \in DOMAIN L(m + 1) PROVE L(m + 1)[w] \in Str /\ m + 1 <= Len(L(m + 1)[w])
    <3>1. PICK u \in DOMAIN L(m), b \in DOMAIN code : w = Append(u, b)
      BY <2>2, <2>3 DEF Appends
    <3>2. L(m + 1)[w] = L(m)[u] \o code[b]
      BY <2>2, <2>3, <3>1 DEF Appends
    <3>3. L(m)[u] \in Str /\ m <= Len(L(m)[u])
      BY <1>2
    <3>4. code[b] \in Str /\ code[b] # <<>>
      BY DEF IsCode, NoneEmpty
    <3>5. Len(code[b]) \in Nat /\ Len(code[b]) # 0 /\ Len(L(m)[u]) \in Nat
      BY <3>3, <3>4, StrIs
    <3>6. L(m)[u] \o code[b] \in Str /\ Len(L(m)[u] \o code[b]) = Len(L(m)[u]) + Len(code[b])
      BY <3>3, <3>4, ConcatIs
    <3>7. L(m + 1)[w] \in Str /\ Len(L(m + 1)[w]) = Len(L(m)[u]) + Len(code[b])
      BY <3>2, <3>6
    <3> QED
      BY <3>3, <3>5, <3>7
  <2>5. m + 1 \in Nat
    OBVIOUS
  <2> QED
    BY <2>4, <2>5
<1>3. n \in T
  <2> HIDE DEF T
  <2> QED
    BY <1>1, <1>2, ByInduction
<1>4. v \in DOMAIN L(n)
  BY ListOfIs
<1> QED
  BY <1>3, <1>4

\* What reading a list may come to.
Outcomes(S) == {Failed} \cup {Good(v, t) : v \in Seq(S), t \in Str}

\* The outcomes of reading lists: failed, or a list and what was not read.
LEMMA OutcomesAre ==
    ASSUME NEW S
    PROVE  /\ Failed \in Outcomes(S)
           /\ \A v \in Seq(S), t \in Str : Good(v, t) \in Outcomes(S)
           /\ \A o \in Outcomes(S) : /\ ~o.ok => o = Failed
                                     /\ o.ok => o = Good(o.val, o.rest) /\ o.val \in Seq(S)
                                          /\ o.rest \in Str
<1>1. ASSUME NEW o \in Outcomes(S)
      PROVE  /\ ~o.ok => o = Failed
             /\ o.ok => o = Good(o.val, o.rest) /\ o.val \in Seq(S) /\ o.rest \in Str
  <2>1. CASE o = Failed
    BY <2>1, GoodIs
  <2>2. CASE o # Failed
    <3>1. PICK v \in Seq(S), t \in Str : o = Good(v, t)
      BY <2>2 DEF Outcomes
    <3>2. o.ok /\ o.val = v /\ o.rest = t
      BY <3>1, GoodIs
    <3> QED
      BY <3>1, <3>2
  <2> QED
    BY <2>1, <2>2
<1> QED
  BY <1>1 DEF Outcomes

\* One more element was read, or reading failed.
LEMMA BehindOutcome ==
    ASSUME NEW S, NEW o \in Outcomes(S), NEW p, NEW code, DOMAIN code \subseteq S,
           o.ok => Parsed(p, code, o.rest)
    PROVE  Behind(o, p) \in Outcomes(S)
<1>1. CASE o.ok /\ p.ok
  <2>1. o.val \in Seq(S) /\ p.val \in S /\ p.rest \in Str
    BY <1>1, OutcomesAre, ParsedIs
  <2>2. Append(o.val, p.val) \in Seq(S)
    BY <2>1, AppendProperties
  <2> QED
    BY <1>1, <2>1, <2>2, OutcomesAre DEF Behind
<1>2. CASE ~(o.ok /\ p.ok)
  <2>1. Behind(o, p) = Failed
    BY <1>2 DEF Behind
  <2> QED
    BY <2>1, OutcomesAre
<1> QED
  BY <1>1, <1>2

\* Reading n elements one behind the other from o: reads[k] is the reader of the
\* k-th element, as a function.
Runs(f, reads, S, o, n) ==
    /\ f \in [0 .. n -> Outcomes(S)] /\ f[0] = o
    /\ \A k \in 1 .. n : f[k] = Behind(f[k - 1], reads[k][f[k - 1]])

\* The outcomes of reading one element after the other exist.
LEMMA RunsExist ==
    ASSUME NEW codes, NEW S, NEW n \in Nat, AreCodes(codes, S, n), NEW o \in Outcomes(S), NEW reads,
           \A k \in 1 .. n : \A p \in Outcomes(S) : p.ok => Parsed(reads[k][p], codes[k], p.rest)
    PROVE  \E f : Runs(f, reads, S, o, n)
<1> DEFINE step == [k \in 1 .. n |-> [p \in Outcomes(S) |-> Behind(p, reads[k][p])]]
<1>1. Steps(step, Outcomes(S), n)
  <2> SUFFICES ASSUME NEW k \in 1 .. n PROVE step[k] \in [Outcomes(S) -> Outcomes(S)]
    BY DEF Steps
  <2>1. ASSUME NEW p \in Outcomes(S) PROVE Behind(p, reads[k][p]) \in Outcomes(S)
    <3>1. DOMAIN codes[k] \subseteq S
      BY DEF AreCodes
    <3>2. p.ok => Parsed(reads[k][p], codes[k], p.rest)
      OBVIOUS
    <3> QED
      BY <3>1, <3>2, BehindOutcome
  <2> QED
    BY <2>1
<1>2. \A k \in 1 .. n : \A p \in Outcomes(S) : step[k][p] = Behind(p, reads[k][p])
  OBVIOUS
<1> HIDE DEF step
<1>3. PICK f : Iterates(f, Outcomes(S), o, step, n)
  BY <1>1, RecursionIs
<1>4. f \in [0 .. n -> Outcomes(S)] /\ f[0] = o /\ \A k \in 1 .. n : f[k] = step[k][f[k - 1]]
  BY <1>3 DEF Iterates
<1>5. ASSUME NEW k \in 1 .. n PROVE f[k] = Behind(f[k - 1], reads[k][f[k - 1]])
  <2>1. f[k - 1] \in Outcomes(S)
    BY <1>4
  <2> QED
    BY <1>2, <1>4, <2>1
<1> QED
  BY <1>4, <1>5 DEF Runs

-----------------------------------------------------------------------------
(* Lists behind their length *)

VecCode(code) ==
    [v \in Vec(DOMAIN code) |-> Cat(VarU64(Len(v)), FlattenSeq([k \in DOMAIN v |-> code[v[k]]]))]

\* A vector: its length, and its elements.
LEMMA VecCodeIs ==
    ASSUME NEW code, IsCode(code)
    PROVE  /\ DOMAIN VecCode(code) = Vec(DOMAIN code)
           /\ \A v \in Vec(DOMAIN code) :
                 /\ v \in DOMAIN ListOf(Same(code), DOMAIN code, Len(v)) /\ Len(v) \in U64
                 /\ VecCode(code)[v] = VarU64(Len(v)) \o ListOf(Same(code), DOMAIN code, Len(v))[v]
           /\ \A n \in U64 : \A v \in DOMAIN ListOf(Same(code), DOMAIN code, n) :
                 v \in Vec(DOMAIN code) /\ Len(v) = n
<1>1. DOMAIN VecCode(code) = Vec(DOMAIN code)
  BY DEF VecCode
<1>2. ASSUME NEW v \in Vec(DOMAIN code)
      PROVE  /\ v \in DOMAIN ListOf(Same(code), DOMAIN code, Len(v)) /\ Len(v) \in U64
             /\ VecCode(code)[v] = VarU64(Len(v)) \o ListOf(Same(code), DOMAIN code, Len(v))[v]
  <2>1. v \in Seq(DOMAIN code) /\ Len(v) <= MaxU64 /\ Len(v) \in Nat
    BY LenProperties DEF Vec
  <2>2. IsListOf(v, Same(code), DOMAIN code, Len(v))
    BY <2>1, SameIs
  <2>3. /\ v \in DOMAIN ListOf(Same(code), DOMAIN code, Len(v))
        /\ ListOf(Same(code), DOMAIN code, Len(v))[v] = FlattenSeq(Pieces(Same(code), v))
    BY <2>2, ListOfIs
  <2>4. Pieces(Same(code), v) = [k \in DOMAIN v |-> code[v[k]]]
    BY <2>1, SameIs
  <2>5. VecCode(code)[v] = Cat(VarU64(Len(v)), FlattenSeq(Pieces(Same(code), v)))
    BY <2>4 DEF VecCode
  <2>6. Len(v) \in U64
    BY <2>1, MaxU64Is DEF U64
  <2> QED
    BY <2>3, <2>5, <2>6 DEF Cat
<1>3. ASSUME NEW n \in U64, NEW v \in DOMAIN ListOf(Same(code), DOMAIN code, n)
      PROVE  v \in Vec(DOMAIN code) /\ Len(v) = n
  <2>1. n \in Nat /\ n <= MaxU64
    BY MaxU64Is DEF U64
  <2>2. IsListOf(v, Same(code), DOMAIN code, n)
    BY ListOfIs
  <2>3. v \in Seq(DOMAIN code) /\ Len(v) = n
    BY <2>2 DEF IsListOf
  <2> QED
    BY <2>1, <2>3 DEF Vec
<1> QED
  BY <1>1, <1>2, <1>3

\* The vectors of values with a code have a code.
LEMMA VecCodeIsCode ==
    ASSUME NEW code, IsCode(code)
    PROVE  IsCode(VecCode(code)) /\ NoneEmpty(VecCode(code))
<1> SUFFICES ASSUME NEW v \in DOMAIN VecCode(code)
             PROVE  VecCode(code)[v] \in Str /\ VecCode(code)[v] # <<>>
  BY DEF IsCode, NoneEmpty
<1>1. v \in Vec(DOMAIN code)
  BY VecCodeIs
<1>2. /\ v \in DOMAIN ListOf(Same(code), DOMAIN code, Len(v)) /\ Len(v) \in U64
      /\ VecCode(code)[v] = VarU64(Len(v)) \o ListOf(Same(code), DOMAIN code, Len(v))[v]
  BY <1>1, VecCodeIs
<1>3. Len(v) \in Nat
  BY <1>2, MaxU64Is DEF U64
<1>4. AreCodes(Same(code), DOMAIN code, Len(v) + 1)
  BY <1>3, SameIs
<1>5. IsCode(ListOf(Same(code), DOMAIN code, Len(v)))
  BY <1>3, <1>4, OneMore
<1>6. PICK w \in Str : w = ListOf(Same(code), DOMAIN code, Len(v))[v]
  BY <1>2, <1>5 DEF IsCode
<1>7. PICK n : IsVar(VarU64(Len(v)), n)
  BY <1>2, VarWrites
<1>8. VarU64(Len(v)) \in Str /\ Len(VarU64(Len(v))) = n /\ n \in Nat /\ n # 0
  BY <1>7, WidthsAre DEF IsVar
<1>9. VarU64(Len(v)) \o w \in Str /\ Len(VarU64(Len(v)) \o w) = n + Len(w) /\ Len(w) \in Nat
  BY <1>8, ConcatIs, StrIs
<1>10. VarU64(Len(v)) \o w # <<>>
  BY <1>8, <1>9, StrIs
<1> QED
  BY <1>2, <1>6, <1>9, <1>10

\* VecOf(): the count was read, and the elements are read one behind the other.
LEMMA VecParsed ==
    ASSUME NEW o, NEW s, Parsed(o, VarCode, s),
           NEW code, IsCode(code), NoneEmpty(code),
           NEW outcomes, NEW next, o.ok => ReadsOneByOne(outcomes, next, Same(code), o.rest, o.val),
           NEW p, ~o.ok => p = Failed,
           o.ok => p = IF o.val <= Len(o.rest) THEN outcomes[o.val] ELSE Failed
    PROVE  Parsed(p, VecCode(code), s)
<1> DEFINE L(n) == ListOf(Same(code), DOMAIN code, n)
           next1 == [n \in U64 |-> L(n)]
<1>1. DOMAIN VarCode = U64 /\ \A n \in U64 : VarCode[n] = VarU64(n)
  BY DEF VarCode
<1>2. \A n \in U64 : next1[n] = L(n)
  OBVIOUS
<1>3. U64 \subseteq Nat
  BY MaxU64Is DEF U64
<1> HIDE DEF next1
<1>4. ASSUME NEW n \in U64 PROVE IsCode(L(n))
  <2>1. n \in Nat
    BY <1>3
  <2>2. AreCodes(Same(code), DOMAIN code, n + 1)
    BY <2>1, SameIs
  <2> QED
    BY <2>1, <2>2, OneMore
<1>5. Follows(VarCode, next1, VecCode(code))
  <2>1. ASSUME NEW n \in U64, NEW v \in DOMAIN L(n)
        PROVE  v \in DOMAIN VecCode(code) /\ VecCode(code)[v] = VarU64(n) \o L(n)[v]
    <3>1. v \in Vec(DOMAIN code) /\ Len(v) = n
      BY VecCodeIs
    <3> QED
      BY <3>1, VecCodeIs
  <2>2. ASSUME NEW v \in DOMAIN VecCode(code) PROVE \E n \in U64 : v \in DOMAIN L(n)
    <3>1. v \in Vec(DOMAIN code)
      BY VecCodeIs
    <3> QED
      BY <3>1, VecCodeIs
  <2> HIDE DEF L
  <2> QED
    BY <1>1, <1>2, <2>1, <2>2 DEF Follows
<1>6. ASSUME o.ok PROVE Parsed(p, next1[o.val], o.rest)
  <2>1. o.val \in U64 /\ o.rest \in Str
    BY <1>1, <1>6, ParsedIs
  <2>2. PICK n \in Nat, r \in Str : n = o.val /\ r = o.rest
    BY <1>3, <2>1
  <2>3. AreCodes(Same(code), DOMAIN code, n) /\ n \in 0 .. n
    BY <2>2, SameIs
  <2>4. ReadsOneByOne(outcomes, next, Same(code), r, n)
    BY <1>6, <2>2
  <2>5. Parsed(outcomes[n], L(n), r)
    BY <2>3, <2>4, ListParsed
  <2>6. CASE n <= Len(r)
    BY <1>2, <1>6, <2>1, <2>2, <2>5, <2>6
  <2>7. CASE ~(n <= Len(r))
    <3>1. ASSUME NEW v, NEW t, Begins(r, L(n), v, t) PROVE FALSE
      <4>1. Splits(r, L(n)[v], t) /\ v \in DOMAIN L(n)
        BY <3>1 DEF Begins
      <4>2. IsListOf(v, Same(code), DOMAIN code, n)
        BY <4>1, ListOfIs
      <4>3. n <= Len(L(n)[v]) /\ L(n)[v] \in Str
        BY <4>2, ListLength
      <4>4. Len(r) = Len(L(n)[v]) + Len(t) /\ t \in Str
        BY <4>1, SplitsIs
      <4>5. Len(t) \in Nat /\ Len(L(n)[v]) \in Nat
        BY <4>3, <4>4, StrIs
      <4> QED
        BY <2>7, <4>3, <4>4, <4>5
    <3>2. p = Failed
      BY <1>6, <2>2, <2>7
    <3>3. Parsed(p, L(n), r)
      BY <3>1, <3>2, ParsedIf
    <3> QED
      BY <1>2, <2>1, <2>2, <3>3
  <2> QED
    BY <2>6, <2>7
<1>7. IsCode(VarCode) /\ \A v \in DOMAIN VarCode : IsCode(next1[v])
  BY <1>1, <1>2, <1>4, CodesOfNumbers
<1> HIDE DEF L
<1> QED
  BY <1>5, <1>6, <1>7, ThenParsed

-----------------------------------------------------------------------------
(* Values that take all the bytes *)

\* Either all of s is one value, or nothing is read.
ParsedAll(o, code, s) ==
    /\ \A v : v \in DOMAIN code /\ code[v] = s => o = Good(v, <<>>)
    /\ o = Failed \/ \E v : v \in DOMAIN code /\ code[v] = s /\ o = Good(v, <<>>)

\* A reader of all the bytes has read a value whose bytes they are, or failed.
LEMMA ParsedAllIs ==
    ASSUME NEW o, NEW code, NEW s, ParsedAll(o, code, s)
    PROVE  /\ ~o.ok => o = Failed
           /\ o.ok => /\ o = Good(o.val, <<>>) /\ o.rest = <<>>
                      /\ o.val \in DOMAIN code /\ code[o.val] = s
           /\ \A v : v \in DOMAIN code /\ code[v] = s => o.ok /\ o.val = v
<1>1. CASE o = Failed
  <2>1. \A v : ~(v \in DOMAIN code /\ code[v] = s)
    BY <1>1, GoodIs DEF ParsedAll
  <2> QED
    BY <1>1, <2>1, GoodIs
<1>2. CASE o # Failed
  <2>1. PICK v : v \in DOMAIN code /\ code[v] = s /\ o = Good(v, <<>>)
    BY <1>2 DEF ParsedAll
  <2>2. o.ok /\ o.val = v /\ o.rest = <<>>
    BY <2>1, GoodIs
  <2>3. \A u : u \in DOMAIN code /\ code[u] = s => o.val = u
    BY GoodIs DEF ParsedAll
  <2> QED
    BY <2>1, <2>2, <2>3
<1> QED
  BY <1>1, <1>2

\* All of the bytes, and nothing behind them.
LEMMA SplitsAll ==
    \A s, w : Splits(s, w, <<>>) <=> s \in Str /\ w = s
<1>1. \A w \in Str : w \o <<>> = w
  BY ConcatIs
<1>2. <<>> \in Str
  BY StrIs
<1> QED
  BY <1>1, <1>2 DEF Splits

\* Nothing may be left.
LEMMA RequireEmptyParsed ==
    ASSUME NEW o, NEW code, NEW s \in Str, Parsed(o, code, s)
    PROVE  ParsedAll(RequireEmpty(o), code, s)
<1>1. \A v : v \in DOMAIN code /\ code[v] = s <=> Begins(s, code, v, <<>>)
  BY SplitsAll DEF Begins
<1>2. ASSUME NEW v, v \in DOMAIN code, code[v] = s PROVE RequireEmpty(o) = Good(v, <<>>)
  <2>1. o = Good(v, <<>>)
    BY <1>1, <1>2 DEF Parsed
  <2>2. o.rest = <<>>
    BY <2>1, GoodIs
  <2> QED
    BY <2>1, <2>2 DEF RequireEmpty
<1>3. ASSUME RequireEmpty(o) # Failed
      PROVE  \E v : v \in DOMAIN code /\ code[v] = s /\ RequireEmpty(o) = Good(v, <<>>)
  <2>1. RequireEmpty(o) = o /\ o.rest = <<>> /\ o # Failed
    BY <1>3 DEF RequireEmpty
  <2>2. o.ok
    BY <2>1, ParsedIs
  <2>3. o = Good(o.val, o.rest) /\ Begins(s, code, o.val, o.rest)
    BY <2>2, ParsedIs
  <2>4. o.val \in DOMAIN code /\ code[o.val] = s
    BY <1>1, <2>1, <2>3
  <2> QED
    BY <2>1, <2>3, <2>4
<1> QED
  BY <1>2, <1>3 DEF ParsedAll

\* What may be left is read as what takes all.
LEMMA BehindParsedAll ==
    ASSUME NEW o, NEW tuples, NEW s, Parsed(o, tuples, s), IsCode(tuples),
           NEW n, NEW code, IsCode(code), o.ok => ParsedAll(n, code, o.rest),
           NEW longer, Appends(tuples, code, longer)
    PROVE  ParsedAll(Behind(o, n), longer, s)
<1>1. ASSUME NEW u, u \in DOMAIN longer, longer[u] = s PROVE Behind(o, n) = Good(u, <<>>)
  <2>1. PICK c \in DOMAIN tuples, b \in DOMAIN code : u = Append(c, b)
    BY <1>1 DEF Appends
  <2>2. longer[u] = tuples[c] \o code[b] /\ tuples[c] \in Str /\ code[b] \in Str
    BY <2>1 DEF Appends, IsCode
  <2>3. Splits(s, tuples[c], code[b])
    BY <1>1, <2>2 DEF Splits
  <2>4. Begins(s, tuples, c, code[b])
    BY <2>3 DEF Begins
  <2>5. o.ok /\ o.val = c /\ o.rest = code[b]
    BY <2>4, ParsedIs
  <2>6. ParsedAll(n, code, code[b])
    BY <2>5
  <2>7. n = Good(b, <<>>)
    BY <2>6 DEF ParsedAll
  <2>8. n.ok /\ n.val = b /\ n.rest = <<>>
    BY <2>7, GoodIs
  <2> QED
    BY <2>1, <2>5, <2>8 DEF Behind
<1>2. ASSUME Behind(o, n) # Failed
      PROVE  \E u : u \in DOMAIN longer /\ longer[u] = s /\ Behind(o, n) = Good(u, <<>>)
  <2>1. o.ok /\ n.ok
    BY <1>2 DEF Behind
  <2>2. Begins(s, tuples, o.val, o.rest) /\ o.val \in DOMAIN tuples
    BY <2>1, ParsedIs
  <2>3. n.rest = <<>> /\ n.val \in DOMAIN code /\ code[n.val] = o.rest
    BY <2>1, ParsedAllIs
  <2>4. PICK c \in DOMAIN tuples, b \in DOMAIN code : c = o.val /\ b = n.val
    BY <2>2, <2>3
  <2>5. Append(c, b) \in DOMAIN longer /\ longer[Append(c, b)] = tuples[c] \o code[b]
    BY DEF Appends
  <2>6. s = tuples[c] \o code[b]
    BY <2>2, <2>3, <2>4 DEF Begins, Splits
  <2>7. Behind(o, n) = Good(Append(c, b), <<>>)
    BY <2>1, <2>3, <2>4 DEF Behind
  <2> QED
    BY <2>5, <2>6, <2>7
<1> QED
  BY <1>1, <1>2 DEF ParsedAll

\* A reader of all the bytes whose value is turned into another.
LEMMA IntoParsedAll ==
    ASSUME NEW o, NEW first, NEW s, ParsedAll(o, first, s),
           NEW f, NEW code, Renames(f, first, code),
           NEW p, ~o.ok => p = Failed,
           o.ok => p = Good(f[o.val], o.rest)
    PROVE  ParsedAll(p, code, s)
<1>1. ASSUME NEW u, u \in DOMAIN code, code[u] = s PROVE p = Good(u, <<>>)
  <2>1. PICK v \in DOMAIN first : f[v] = u
    BY <1>1 DEF Renames
  <2>2. first[v] = s
    BY <1>1, <2>1 DEF Renames
  <2>3. o.ok /\ o.val = v
    BY <2>2, ParsedAllIs
  <2>4. o.rest = <<>>
    BY <2>3, ParsedAllIs
  <2> QED
    BY <2>1, <2>3, <2>4
<1>2. ASSUME p # Failed PROVE \E u : u \in DOMAIN code /\ code[u] = s /\ p = Good(u, <<>>)
  <2>1. o.ok /\ o.val \in DOMAIN first /\ first[o.val] = s /\ o.rest = <<>>
    BY <1>2, ParsedAllIs
  <2>2. f[o.val] \in DOMAIN code /\ code[f[o.val]] = s
    BY <2>1 DEF Renames
  <2> QED
    BY <2>1, <2>2
<1> QED
  BY <1>1, <1>2 DEF ParsedAll

\* The values of two codes, of which at most one is there.
Either(first, second, code) ==
    /\ \A v : v \in DOMAIN code <=> v \in DOMAIN first \/ v \in DOMAIN second
    /\ \A v \in DOMAIN first : code[v] = first[v]
    /\ \A v \in DOMAIN second : code[v] = second[v]

\* Two alternatives that no bytes have in common.
LEMMA EitherParsed ==
    ASSUME NEW o, NEW first, NEW s, Parsed(o, first, s),
           NEW n, NEW second, Parsed(n, second, s), ~o.ok \/ ~n.ok,
           NEW code, Either(first, second, code),
           NEW p, o.ok => p = o, ~o.ok => p = n
    PROVE  Parsed(p, code, s)
<1>1. \A v, t : Begins(s, code, v, t) <=> Begins(s, first, v, t) \/ Begins(s, second, v, t)
  BY DEF Begins, Either
<1>2. ASSUME NEW v, NEW t, Begins(s, code, v, t) PROVE p = Good(v, t)
  <2>1. CASE Begins(s, first, v, t)
    BY <2>1, ParsedIs
  <2>2. CASE Begins(s, second, v, t)
    BY <2>2, ParsedIs
  <2> QED
    BY <1>1, <1>2, <2>1, <2>2
<1>3. ASSUME p # Failed PROVE \E v, t : Begins(s, code, v, t)
  <2>1. o.ok \/ n.ok
    BY <1>3, ParsedIs
  <2> QED
    BY <1>1, <2>1, ParsedIs
<1> QED
  BY <1>2, <1>3, ParsedIf

\* Two alternatives that take all the bytes.
LEMMA EitherParsedAll ==
    ASSUME NEW o, NEW first, NEW s, ParsedAll(o, first, s),
           NEW n, NEW second, ParsedAll(n, second, s), ~o.ok \/ ~n.ok,
           NEW code, Either(first, second, code),
           NEW p, o.ok => p = o, ~o.ok => p = n
    PROVE  ParsedAll(p, code, s)
<1>1. \A v : v \in DOMAIN code /\ code[v] = s <=> (v \in DOMAIN first /\ first[v] = s)
          \/ (v \in DOMAIN second /\ second[v] = s)
  BY DEF Either
<1>2. ASSUME NEW v, v \in DOMAIN code, code[v] = s PROVE p = Good(v, <<>>)
  <2>1. CASE v \in DOMAIN first /\ first[v] = s
    BY <2>1, ParsedAllIs
  <2>2. CASE v \in DOMAIN second /\ second[v] = s
    BY <2>2, ParsedAllIs
  <2> QED
    BY <1>1, <1>2, <2>1, <2>2
<1>3. ASSUME p # Failed PROVE \E v : v \in DOMAIN code /\ code[v] = s /\ p = Good(v, <<>>)
  <2>1. o.ok \/ n.ok
    BY <1>3, ParsedAllIs
  <2> QED
    BY <1>1, <1>2, <2>1, ParsedAllIs
<1> QED
  BY <1>2, <1>3 DEF ParsedAll

RestCode == [w \in Str |-> w]

\* What is left, as it is.
LEMMA ReadRestParsed ==
    ASSUME NEW r, r.ok, r.rest \in Str
    PROVE  ParsedAll(ReadRest(r), RestCode, r.rest)
<1>1. PICK s \in Str : s = r.rest
  OBVIOUS
<1>2. Len(s) \in 0 .. Len(s) /\ Len(s) \in Nat /\ Len(s) <= Len(s)
  BY StrIs
<1>3. PICK w, t : w = SubSeq(s, 1, Len(s)) /\ t = SubSeq(s, Len(s) + 1, Len(s))
  OBVIOUS
<1>4. Splits(s, w, t) /\ Len(w) = Len(s)
  BY <1>2, <1>3, SplitsAt
<1>5. Splits(s, s, <<>>)
  BY SplitsEmpty
<1>6. w = s /\ t = <<>>
  BY <1>4, <1>5, SplitsSame
<1>7. ReadRest(r) = Good(s, <<>>)
  BY <1>1, <1>2, <1>3, <1>6 DEF ReadRest, ReadSlice
<1> QED
  BY <1>1, <1>7 DEF ParsedAll, RestCode

-----------------------------------------------------------------------------
(* Lists to the end of the bytes *)

AllCode(code) == [v \in Seq(DOMAIN code) |-> FlattenSeq([k \in DOMAIN v |-> code[v[k]]])]

\* The code of a list that takes all the bytes.
LEMMA AllCodeIs ==
    ASSUME NEW code, IsCode(code)
    PROVE  /\ IsCode(AllCode(code))
           /\ \A v : v \in DOMAIN AllCode(code)
                  => Len(v) \in Nat /\ IsListOf(v, Same(code), DOMAIN code, Len(v))
           /\ \A n \in Nat : \A v : IsListOf(v, Same(code), DOMAIN code, n) =>
                 /\ v \in DOMAIN AllCode(code) /\ Len(v) = n
                 /\ AllCode(code)[v] = ListOf(Same(code), DOMAIN code, n)[v]
<1>1. ASSUME NEW v \in Seq(DOMAIN code)
      PROVE  Len(v) \in Nat /\ IsListOf(v, Same(code), DOMAIN code, Len(v))
  <2>1. Len(v) \in Nat
    BY LenProperties
  <2> QED
    BY <2>1, SameIs
<1>2. DOMAIN AllCode(code) = Seq(DOMAIN code)
  BY DEF AllCode
<1>3. ASSUME NEW n \in Nat, NEW v, IsListOf(v, Same(code), DOMAIN code, n)
      PROVE  /\ v \in DOMAIN AllCode(code) /\ Len(v) = n
             /\ AllCode(code)[v] = ListOf(Same(code), DOMAIN code, n)[v]
  <2>1. v \in Seq(DOMAIN code) /\ Len(v) = n
    BY <1>3 DEF IsListOf
  <2>2. AllCode(code)[v] = FlattenSeq([k \in DOMAIN v |-> code[v[k]]])
    BY <2>1 DEF AllCode
  <2>3. Pieces(Same(code), v) = [k \in DOMAIN v |-> code[v[k]]]
    BY <2>1, SameIs
  <2>4. ListOf(Same(code), DOMAIN code, n)[v] = FlattenSeq(Pieces(Same(code), v))
    BY <1>3, ListOfIs
  <2> QED
    BY <1>2, <2>1, <2>2, <2>3, <2>4
<1>4. ASSUME NEW v \in DOMAIN AllCode(code) PROVE AllCode(code)[v] \in Str
  <2>1. PICK n \in Nat : IsListOf(v, Same(code), DOMAIN code, n)
    BY <1>1, <1>2
  <2>2. AreCodes(Same(code), DOMAIN code, n + 1)
    BY SameIs
  <2>3. IsCode(ListOf(Same(code), DOMAIN code, n))
    BY <2>2, OneMore
  <2>4. v \in DOMAIN ListOf(Same(code), DOMAIN code, n)
    BY <2>1, ListOfIs
  <2> QED
    BY <1>3, <2>1, <2>3, <2>4 DEF IsCode
<1> QED
  BY <1>1, <1>2, <1>3, <1>4 DEF IsCode

\* Elements as long as anything is left, at most n.
ReadsToEnd(outcomes, next, code, s, n) ==
    /\ outcomes[0] = Good(<<>>, s)
    /\ \A k \in 1 .. n :
          /\ outcomes[k - 1].rest = <<>> => outcomes[k] = outcomes[k - 1]
          /\ outcomes[k - 1].rest # <<>> => outcomes[k] = Behind(outcomes[k - 1], next[k])
          /\ outcomes[k - 1].ok /\ outcomes[k - 1].rest \in Str =>
                Parsed(next[k], code, outcomes[k - 1].rest)

\* After k steps: nothing, or k elements, or less and nothing left.
LEMMA ToEndReads ==
    ASSUME NEW code, IsCode(code), NEW s \in Str, NEW n \in Nat,
           NEW outcomes, NEW next, ReadsToEnd(outcomes, next, code, s, n), NEW k \in 0 .. n
    PROVE  \/ outcomes[k] = Failed
           \/ \E j \in 0 .. k : \E v, t : /\ Begins(s, ListOf(Same(code), DOMAIN code, j), v, t)
                                         /\ outcomes[k] = Good(v, t) /\ (j = k \/ t = <<>>)
<1> DEFINE L(j) == ListOf(Same(code), DOMAIN code, j)
           Reads1(i, j) == \E v, t : /\ Begins(s, L(j), v, t)
                                     /\ outcomes[i] = Good(v, t) /\ (j = i \/ t = <<>>)
           T == {i \in Nat : i <= n => outcomes[i] = Failed \/ \E j \in 0 .. i : Reads1(i, j)}
<1>1. 0 \in T
  <2>1. outcomes[0] = Good(<<>>, s)
    BY DEF ReadsToEnd
  <2>2. Begins(s, L(0), <<>>, s)
    <3>1. IsListOf(<<>>, Same(code), DOMAIN code, 0) /\ L(0)[<<>>] = <<>>
      BY NoElements
    <3>2. <<>> \in DOMAIN L(0)
      BY <3>1, ListOfIs
    <3>3. Splits(s, <<>>, s)
      BY SplitsEmpty
    <3> QED
      BY <3>1, <3>2, <3>3 DEF Begins
  <2> HIDE DEF L
  <2>3. Reads1(0, 0) /\ 0 \in 0 .. 0
    BY <2>1, <2>2
  <2> HIDE DEF Reads1
  <2> QED
    BY <2>3
<1>2. ASSUME NEW i \in Nat, i \in T PROVE i + 1 \in T
  <2> SUFFICES ASSUME i + 1 <= n
               PROVE  outcomes[i + 1] = Failed \/ \E j \in 0 .. i + 1 : Reads1(i + 1, j)
    OBVIOUS
  <2>1. i + 1 \in 1 .. n /\ (i + 1) - 1 = i
    OBVIOUS
  <2>2. PICK o, p, q : o = outcomes[i] /\ p = next[i + 1] /\ q = outcomes[i + 1]
    OBVIOUS
  <2>3. /\ o.rest = <<>> => q = o
        /\ o.rest # <<>> => q = Behind(o, p)
        /\ o.ok /\ o.rest \in Str => Parsed(p, code, o.rest)
    BY <2>1, <2>2 DEF ReadsToEnd
  <2>4. CASE o = Failed
    <3>1. q = Failed
      BY <2>3, <2>4, GoodIs DEF Behind
    <3> QED
      BY <2>2, <3>1
  <2>5. CASE o # Failed
    <3>1. PICK j \in 0 .. i : Reads1(i, j)
      BY <1>2, <2>2, <2>5
    <3>2. PICK v, t : Begins(s, L(j), v, t) /\ o = Good(v, t) /\ (j = i \/ t = <<>>)
      BY <2>2, <3>1
    <3>3. o.ok /\ o.val = v /\ o.rest = t /\ t \in Str
      BY <3>2, GoodIs DEF Begins, Splits
    <3>4. CASE t = <<>>
      <4>1. q = Good(v, t)
        BY <2>3, <3>2, <3>3, <3>4
      <4> HIDE DEF L
      <4>2. Reads1(i + 1, j) /\ j \in 0 .. i + 1
        BY <2>2, <3>2, <3>4, <4>1
      <4> HIDE DEF Reads1
      <4> QED
        BY <4>2
    <3>5. CASE t # <<>>
      <4>1. j = i /\ q = Behind(o, p) /\ Parsed(p, code, t)
        BY <2>3, <3>2, <3>3, <3>5
      <4>2. CASE ~p.ok
        <5>1. q = Failed
          BY <4>1, <4>2 DEF Behind
        <5> QED
          BY <2>2, <5>1
      <4>3. CASE p.ok
        <5>1. Begins(t, code, p.val, p.rest) /\ p.val \in DOMAIN code
          BY <4>1, <4>3, ParsedIs
        <5>2. PICK b, u : b \in DOMAIN code /\ b = p.val /\ u = p.rest
          BY <5>1
        <5>3. q = Good(Append(v, b), u)
          BY <3>3, <4>1, <4>3, <5>2 DEF Behind
        <5>a. i + 1 \in Nat
          OBVIOUS
        <5>4. AreCodes(Same(code), DOMAIN code, i + 1) /\ Same(code)[i + 1] = code
          BY <5>a, SameIs DEF Same
        <5>5. Appends(L(i), code, L(i + 1))
          BY <5>4, OneMore
        <5>6. v \in DOMAIN L(i) /\ Splits(s, L(i)[v], t) /\ Splits(t, code[b], u)
          BY <3>2, <4>1, <5>1, <5>2 DEF Begins
        <5>7. Append(v, b) \in DOMAIN L(i + 1) /\ L(i + 1)[Append(v, b)] = L(i)[v] \o code[b]
          BY <5>2, <5>5, <5>6 DEF Appends
        <5>8. Splits(s, L(i)[v] \o code[b], u)
          BY <5>6, SplitsTwice
        <5>9. Begins(s, L(i + 1), Append(v, b), u)
          BY <5>7, <5>8 DEF Begins
        <5> HIDE DEF L
        <5>10. Reads1(i + 1, i + 1) /\ i + 1 \in 0 .. i + 1
          BY <2>2, <5>3, <5>9
        <5> HIDE DEF Reads1
        <5> QED
          BY <5>10
      <4> QED
        BY <4>2, <4>3
    <3> QED
      BY <3>4, <3>5
  <2> QED
    BY <2>4, <2>5
<1>3. k \in T
  <2> HIDE DEF T
  <2>1. k \in Nat
    OBVIOUS
  <2> QED
    BY <1>1, <1>2, <2>1, ByInduction
<1> QED
  BY <1>3

\* What is in front of the bytes is found, as long as there are bytes.
LEMMA ToEndFinds ==
    ASSUME NEW code, IsCode(code), NoneEmpty(code), NEW s \in Str, NEW n \in Nat,
           NEW outcomes, NEW next, ReadsToEnd(outcomes, next, code, s, n), NEW k \in 0 .. n,
           NEW v, NEW t, Begins(s, ListOf(Same(code), DOMAIN code, k), v, t)
    PROVE  outcomes[k] = Good(v, t)
<1> DEFINE L(j) == ListOf(Same(code), DOMAIN code, j)
           T == {i \in Nat : i <= n => \A w, u : Begins(s, L(i), w, u) => outcomes[i] = Good(w, u)}
<1>1. 0 \in T
  <2>1. outcomes[0] = Good(<<>>, s)
    BY DEF ReadsToEnd
  <2>2. ASSUME NEW w, NEW u, Begins(s, L(0), w, u) PROVE w = <<>> /\ u = s
    <3>1. w \in DOMAIN L(0) /\ Splits(s, L(0)[w], u)
      BY <2>2 DEF Begins
    <3>2. w = <<>>
      BY <3>1, ListOfIs, NoElements
    <3>3. L(0)[<<>>] = <<>>
      BY NoElements
    <3>4. Splits(s, <<>>, u) /\ Splits(s, <<>>, s)
      BY <3>1, <3>2, <3>3, SplitsEmpty
    <3> QED
      BY <3>2, <3>4, SplitsSame
  <2> HIDE DEF L
  <2> QED
    BY <2>1, <2>2
<1>2. ASSUME NEW i \in Nat, i \in T PROVE i + 1 \in T
  <2> SUFFICES ASSUME i + 1 <= n, NEW w, NEW u, Begins(s, L(i + 1), w, u)
               PROVE  outcomes[i + 1] = Good(w, u)
    OBVIOUS
  <2>1. i + 1 \in 1 .. n /\ (i + 1) - 1 = i /\ i + 1 \in Nat
    OBVIOUS
  <2>2. AreCodes(Same(code), DOMAIN code, i + 1) /\ Same(code)[i + 1] = code
    BY <2>1, SameIs DEF Same
  <2>3. Appends(L(i), code, L(i + 1)) /\ IsCode(L(i))
    BY <2>2, OneMore
  <2>4. w \in DOMAIN L(i + 1) /\ Splits(s, L(i + 1)[w], u)
    BY DEF Begins
  <2>5. PICK x \in DOMAIN L(i), b \in DOMAIN code : w = Append(x, b)
    BY <2>3, <2>4 DEF Appends
  <2>6. L(i + 1)[w] = L(i)[x] \o code[b]
    BY <2>3, <2>5 DEF Appends
  <2>7. L(i)[x] \in Str /\ code[b] \in Str /\ code[b] # <<>>
    BY <2>3 DEF IsCode, NoneEmpty
  <2>8. Splits(s, L(i)[x] \o code[b], u)
    BY <2>4, <2>6
  <2>9. PICK r : Splits(s, L(i)[x], r) /\ Splits(r, code[b], u)
    BY <2>7, <2>8, SplitsTwice
  <2>10. Begins(s, L(i), x, r) /\ Begins(r, code, b, u)
    BY <2>5, <2>9 DEF Begins
  <2>11. PICK o, p : o = outcomes[i] /\ p = next[i + 1]
    OBVIOUS
  <2>12. o = Good(x, r)
    <3>1. i <= n
      BY <2>1
    <3> HIDE DEF L
    <3> QED
      BY <1>2, <2>10, <2>11, <3>1
  <2>13. r \in Str /\ r # <<>>
    <3>1. Len(r) = Len(code[b]) + Len(u) /\ u \in Str /\ r \in Str
      BY <2>9, SplitsIs
    <3>2. Len(code[b]) \in Nat /\ Len(code[b]) # 0 /\ Len(u) \in Nat
      BY <2>7, <3>1, StrIs
    <3>3. Len(r) # 0
      BY <3>1, <3>2
    <3> QED
      BY <3>1, <3>3, StrIs
  <2>14. o.ok /\ o.val = x /\ o.rest = r
    BY <2>12, GoodIs
  <2>15. outcomes[i + 1] = Behind(o, p) /\ Parsed(p, code, r)
    BY <2>1, <2>11, <2>13, <2>14 DEF ReadsToEnd
  <2>16. p = Good(b, u)
    BY <2>10, <2>15 DEF Parsed
  <2>17. p.ok /\ p.val = b /\ p.rest = u
    BY <2>16, GoodIs
  <2> QED
    BY <2>5, <2>14, <2>15, <2>17 DEF Behind
<1>3. k \in T
  <2> HIDE DEF T
  <2>1. k \in Nat
    OBVIOUS
  <2> QED
    BY <1>1, <1>2, <2>1, ByInduction
<1> QED
  BY <1>3

\* With nothing left, nothing changes.
LEMMA ToEndStays ==
    ASSUME NEW code, NEW s, NEW n \in Nat, NEW outcomes, NEW next,
           ReadsToEnd(outcomes, next, code, s, n), NEW m \in 0 .. n, NEW v, outcomes[m] = Good(v, <<>>)
    PROVE  outcomes[n] = Good(v, <<>>)
<1> DEFINE T == {i \in Nat : m + i <= n => outcomes[m + i] = Good(v, <<>>)}
<1>1. 0 \in T
  <2>1. m + 0 = m
    OBVIOUS
  <2> QED
    BY <2>1
<1>2. ASSUME NEW i \in Nat, i \in T PROVE i + 1 \in T
  <2> SUFFICES ASSUME m + (i + 1) <= n PROVE outcomes[m + (i + 1)] = Good(v, <<>>)
    OBVIOUS
  <2>1. PICK j \in Nat : j = m + i
    OBVIOUS
  <2>2. m + (i + 1) = j + 1 /\ j + 1 \in 1 .. n /\ (j + 1) - 1 = j /\ j <= n
    BY <2>1
  <2>3. outcomes[j] = Good(v, <<>>)
    BY <1>2, <2>1, <2>2
  <2>4. outcomes[j].rest = <<>>
    BY <2>3, GoodIs
  <2>5. outcomes[j + 1] = outcomes[j]
    BY <2>2, <2>4 DEF ReadsToEnd
  <2> QED
    BY <2>2, <2>3, <2>5
<1>3. PICK d \in Nat : d = n - m
  OBVIOUS
<1>4. d \in T
  <2> HIDE DEF T
  <2> QED
    BY <1>1, <1>2, ByInduction
<1>5. m + d = n
  BY <1>3
<1> QED
  BY <1>4, <1>5

\* A list to the end of the bytes: it is read until nothing is left.
LEMMA ToEndParsed ==
    ASSUME NEW code, IsCode(code), NoneEmpty(code), NEW s \in Str,
           NEW outcomes, NEW next, ReadsToEnd(outcomes, next, code, s, Len(s))
    PROVE  ParsedAll(outcomes[Len(s)], AllCode(code), s)
<1>1. PICK n \in Nat : n = Len(s)
  BY StrIs
<1>2. ReadsToEnd(outcomes, next, code, s, n) /\ n \in 0 .. n
  BY <1>1
<1> DEFINE L(j) == ListOf(Same(code), DOMAIN code, j)
<1>3. ASSUME NEW v, v \in DOMAIN AllCode(code), AllCode(code)[v] = s
      PROVE  outcomes[n] = Good(v, <<>>)
  <2>1. PICK m \in Nat : m = Len(v) /\ IsListOf(v, Same(code), DOMAIN code, m)
    BY <1>3, AllCodeIs
  <2>2. L(m)[v] = s /\ v \in DOMAIN L(m)
    BY <1>3, <2>1, AllCodeIs, ListOfIs
  <2>3. m <= Len(L(m)[v])
    BY <2>1, ListLength
  <2>4. m \in 0 .. n
    BY <1>1, <2>2, <2>3
  <2>5. Splits(s, s, <<>>)
    BY SplitsEmpty
  <2>6. Begins(s, L(m), v, <<>>)
    BY <2>2, <2>5 DEF Begins
  <2>7. outcomes[m] = Good(v, <<>>)
    BY <1>2, <2>4, <2>6, ToEndFinds
  <2> QED
    BY <1>2, <2>4, <2>7, ToEndStays
<1>4. ASSUME outcomes[n] # Failed
      PROVE  \E v : v \in DOMAIN AllCode(code) /\ AllCode(code)[v] = s /\ outcomes[n] = Good(v, <<>>)
  <2>1. PICK j \in 0 .. n : \E v, t : Begins(s, L(j), v, t) /\ outcomes[n] = Good(v, t)
                 /\ (j = n \/ t = <<>>)
    BY <1>2, <1>4, ToEndReads
  <2>2. PICK v, t : Begins(s, L(j), v, t) /\ outcomes[n] = Good(v, t) /\ (j = n \/ t = <<>>)
    BY <2>1
  <2>3. v \in DOMAIN L(j) /\ Splits(s, L(j)[v], t) /\ j \in Nat
    BY <2>2 DEF Begins
  <2>4. IsListOf(v, Same(code), DOMAIN code, j)
    BY <2>3, ListOfIs
  <2>5. L(j)[v] \in Str /\ j <= Len(L(j)[v])
    BY <2>3, <2>4, ListLength
  <2>6. n = Len(L(j)[v]) + Len(t) /\ t \in Str
    BY <1>1, <2>3, SplitsIs
  <2>7. Len(t) \in Nat /\ Len(L(j)[v]) \in Nat
    BY <2>5, <2>6, StrIs
  <2>8. t = <<>>
    <3>1. CASE j = n
      <4>1. Len(t) = 0
        BY <2>5, <2>6, <2>7, <3>1
      <4> QED
        BY <2>6, <4>1, StrIs
    <3> QED
      BY <2>2, <3>1
  <2>9. L(j)[v] = s
    BY <2>3, <2>8, SplitsAll
  <2>10. v \in DOMAIN AllCode(code) /\ AllCode(code)[v] = L(j)[v]
    BY <2>3, <2>4, AllCodeIs
  <2> QED
    BY <2>2, <2>8, <2>9, <2>10
<1> HIDE DEF L
<1> QED
  BY <1>1, <1>3, <1>4 DEF ParsedAll

-----------------------------------------------------------------------------
(* Codes of types, one by one *)

\* Tuples of one are functions of their places.
LEMMA OneTuples ==
    ASSUME NEW A
    PROVE  /\ \A a \in DOMAIN A :
                 <<a>> \in DOMAIN One(A)
           /\ \A a \in DOMAIN A :
                 One(A)[<<a>>] = A[a]
           /\ \A v \in DOMAIN One(A) :
                 \E a \in DOMAIN A : v = <<a>>
<1>1. \A a \in DOMAIN A :
         <<a>> \in DOMAIN One(A)
  BY DEF One
<1>2. \A a \in DOMAIN A :
         One(A)[<<a>>] = A[a]
  BY <1>1 DEF One
<1>3. \A v \in DOMAIN One(A) :
         \E a \in DOMAIN A : v = <<a>>
  BY DEF One
<1> QED
  BY <1>1, <1>2, <1>3

\* Tuples of two are functions of their places.
LEMMA TwoTuples ==
    ASSUME NEW A, NEW B
    PROVE  /\ \A a \in DOMAIN A, b \in DOMAIN B :
                 <<a, b>> \in DOMAIN Two(A, B)
           /\ \A a \in DOMAIN A, b \in DOMAIN B :
                 Two(A, B)[<<a, b>>] = Cat(A[a], B[b])
           /\ \A v \in DOMAIN Two(A, B) :
                 \E a \in DOMAIN A, b \in DOMAIN B : v = <<a, b>>
<1>1. \A a \in DOMAIN A, b \in DOMAIN B :
         <<a, b>> \in DOMAIN Two(A, B)
  BY DEF Two
<1>2. \A a \in DOMAIN A, b \in DOMAIN B :
         Two(A, B)[<<a, b>>] = Cat(A[a], B[b])
  BY <1>1 DEF Two
<1>3. \A v \in DOMAIN Two(A, B) :
         \E a \in DOMAIN A, b \in DOMAIN B : v = <<a, b>>
  BY DEF Two
<1> QED
  BY <1>1, <1>2, <1>3

\* Tuples of three are functions of their places.
LEMMA ThreeTuples ==
    ASSUME NEW A, NEW B, NEW C
    PROVE  /\ \A a \in DOMAIN A, b \in DOMAIN B, c \in DOMAIN C :
                 <<a, b, c>> \in DOMAIN Three(A, B, C)
           /\ \A a \in DOMAIN A, b \in DOMAIN B, c \in DOMAIN C :
                 Three(A, B, C)[<<a, b, c>>] = Cat(Cat(A[a], B[b]), C[c])
           /\ \A v \in DOMAIN Three(A, B, C) :
                 \E a \in DOMAIN A, b \in DOMAIN B, c \in DOMAIN C : v = <<a, b, c>>
<1>1. \A a \in DOMAIN A, b \in DOMAIN B, c \in DOMAIN C :
         <<a, b, c>> \in DOMAIN Three(A, B, C)
  BY DEF Three
<1>2. \A a \in DOMAIN A, b \in DOMAIN B, c \in DOMAIN C :
         Three(A, B, C)[<<a, b, c>>] = Cat(Cat(A[a], B[b]), C[c])
  BY <1>1 DEF Three
<1>3. \A v \in DOMAIN Three(A, B, C) :
         \E a \in DOMAIN A, b \in DOMAIN B, c \in DOMAIN C : v = <<a, b, c>>
  BY DEF Three
<1> QED
  BY <1>1, <1>2, <1>3

\* Tuples of four are functions of their places.
LEMMA FourTuples ==
    ASSUME NEW A, NEW B, NEW C, NEW D
    PROVE  /\ \A a \in DOMAIN A, b \in DOMAIN B, c \in DOMAIN C, d \in DOMAIN D :
                 <<a, b, c, d>> \in DOMAIN Four(A, B, C, D)
           /\ \A a \in DOMAIN A, b \in DOMAIN B, c \in DOMAIN C, d \in DOMAIN D :
                 Four(A, B, C, D)[<<a, b, c, d>>] = Cat(Cat(Cat(A[a], B[b]), C[c]), D[d])
           /\ \A v \in DOMAIN Four(A, B, C, D) :
                 \E a \in DOMAIN A, b \in DOMAIN B, c \in DOMAIN C, d \in DOMAIN D : v = <<a, b, c, d>>
<1>1. \A a \in DOMAIN A, b \in DOMAIN B, c \in DOMAIN C, d \in DOMAIN D :
         <<a, b, c, d>> \in DOMAIN Four(A, B, C, D)
  BY DEF Four
<1>2. \A a \in DOMAIN A, b \in DOMAIN B, c \in DOMAIN C, d \in DOMAIN D :
         Four(A, B, C, D)[<<a, b, c, d>>] = Cat(Cat(Cat(A[a], B[b]), C[c]), D[d])
  BY <1>1 DEF Four
<1>3. \A v \in DOMAIN Four(A, B, C, D) :
         \E a \in DOMAIN A, b \in DOMAIN B, c \in DOMAIN C, d \in DOMAIN D : v = <<a, b, c, d>>
  BY DEF Four
<1> QED
  BY <1>1, <1>2, <1>3

\* Tuples of five are functions of their places.
LEMMA FiveTuples ==
    ASSUME NEW A, NEW B, NEW C, NEW D, NEW E
    PROVE  /\ \A a \in DOMAIN A, b \in DOMAIN B, c \in DOMAIN C, d \in DOMAIN D, e \in DOMAIN E :
                 <<a, b, c, d, e>> \in DOMAIN Five(A, B, C, D, E)
           /\ \A a \in DOMAIN A, b \in DOMAIN B, c \in DOMAIN C, d \in DOMAIN D, e \in DOMAIN E :
                 Five(A, B, C, D, E)[<<a, b, c, d, e>>]
                     = Cat(Cat(Cat(Cat(A[a], B[b]), C[c]), D[d]), E[e])
           /\ \A v \in DOMAIN Five(A, B, C, D, E) :
                 \E a \in DOMAIN A, b \in DOMAIN B, c \in DOMAIN C, d \in DOMAIN D,
                     e \in DOMAIN E : v = <<a, b, c, d, e>>
<1>1. \A a \in DOMAIN A, b \in DOMAIN B, c \in DOMAIN C, d \in DOMAIN D, e \in DOMAIN E :
         <<a, b, c, d, e>> \in DOMAIN Five(A, B, C, D, E)
  BY DEF Five
<1>2. \A a \in DOMAIN A, b \in DOMAIN B, c \in DOMAIN C, d \in DOMAIN D, e \in DOMAIN E :
         Five(A, B, C, D, E)[<<a, b, c, d, e>>] = Cat(Cat(Cat(Cat(A[a], B[b]), C[c]), D[d]), E[e])
  BY <1>1 DEF Five
<1>3. \A v \in DOMAIN Five(A, B, C, D, E) :
         \E a \in DOMAIN A, b \in DOMAIN B, c \in DOMAIN C, d \in DOMAIN D, e \in DOMAIN E :
             v = <<a, b, c, d, e>>
  BY DEF Five
<1> QED
  BY <1>1, <1>2, <1>3

\* Tuples of six are functions of their places.
LEMMA SixTuples ==
    ASSUME NEW A, NEW B, NEW C, NEW D, NEW E, NEW F
    PROVE  /\ \A a \in DOMAIN A, b \in DOMAIN B, c \in DOMAIN C, d \in DOMAIN D,
                  e \in DOMAIN E, f \in DOMAIN F :
                 <<a, b, c, d, e, f>> \in DOMAIN Six(A, B, C, D, E, F)
           /\ \A a \in DOMAIN A, b \in DOMAIN B, c \in DOMAIN C, d \in DOMAIN D,
                  e \in DOMAIN E, f \in DOMAIN F :
                 Six(A, B, C, D, E, F)[<<a, b, c, d, e, f>>]
                     = Cat(Cat(Cat(Cat(Cat(A[a], B[b]), C[c]), D[d]), E[e]), F[f])
           /\ \A v \in DOMAIN Six(A, B, C, D, E, F) :
                 \E a \in DOMAIN A, b \in DOMAIN B, c \in DOMAIN C, d \in DOMAIN D,
                     e \in DOMAIN E, f \in DOMAIN F : v = <<a, b, c, d, e, f>>
<1>1. \A a \in DOMAIN A, b \in DOMAIN B, c \in DOMAIN C, d \in DOMAIN D, e \in DOMAIN E,
          f \in DOMAIN F :
         <<a, b, c, d, e, f>> \in DOMAIN Six(A, B, C, D, E, F)
  BY DEF Six
<1>2. \A a \in DOMAIN A, b \in DOMAIN B, c \in DOMAIN C, d \in DOMAIN D, e \in DOMAIN E,
          f \in DOMAIN F :
         Six(A, B, C, D, E, F)[<<a, b, c, d, e, f>>]
             = Cat(Cat(Cat(Cat(Cat(A[a], B[b]), C[c]), D[d]), E[e]), F[f])
  BY <1>1 DEF Six
<1>3. \A v \in DOMAIN Six(A, B, C, D, E, F) :
         \E a \in DOMAIN A, b \in DOMAIN B, c \in DOMAIN C, d \in DOMAIN D, e \in DOMAIN E,
             f \in DOMAIN F : v = <<a, b, c, d, e, f>>
  BY DEF Six
<1> QED
  BY <1>1, <1>2, <1>3

\* Tuples of seven are functions of their places.
LEMMA SevenTuples ==
    ASSUME NEW A, NEW B, NEW C, NEW D, NEW E, NEW F, NEW G
    PROVE  /\ \A a \in DOMAIN A, b \in DOMAIN B, c \in DOMAIN C, d \in DOMAIN D,
                  e \in DOMAIN E, f \in DOMAIN F, g \in DOMAIN G :
                 <<a, b, c, d, e, f, g>> \in DOMAIN Seven(A, B, C, D, E, F, G)
           /\ \A a \in DOMAIN A, b \in DOMAIN B, c \in DOMAIN C, d \in DOMAIN D,
                  e \in DOMAIN E, f \in DOMAIN F, g \in DOMAIN G :
                 Seven(A, B, C, D, E, F, G)[<<a, b, c, d, e, f, g>>]
                     = Cat(Cat(Cat(Cat(Cat(Cat(A[a], B[b]), C[c]), D[d]), E[e]), F[f]), G[g])
           /\ \A v \in DOMAIN Seven(A, B, C, D, E, F, G) :
                 \E a \in DOMAIN A, b \in DOMAIN B, c \in DOMAIN C, d \in DOMAIN D,
                     e \in DOMAIN E, f \in DOMAIN F, g \in DOMAIN G : v = <<a, b, c, d, e, f, g>>
<1>1. \A a \in DOMAIN A, b \in DOMAIN B, c \in DOMAIN C, d \in DOMAIN D, e \in DOMAIN E,
          f \in DOMAIN F, g \in DOMAIN G :
         <<a, b, c, d, e, f, g>> \in DOMAIN Seven(A, B, C, D, E, F, G)
  BY DEF Seven
<1>2. \A a \in DOMAIN A, b \in DOMAIN B, c \in DOMAIN C, d \in DOMAIN D, e \in DOMAIN E,
          f \in DOMAIN F, g \in DOMAIN G :
         Seven(A, B, C, D, E, F, G)[<<a, b, c, d, e, f, g>>]
             = Cat(Cat(Cat(Cat(Cat(Cat(A[a], B[b]), C[c]), D[d]), E[e]), F[f]), G[g])
  BY <1>1 DEF Seven
<1>3. \A v \in DOMAIN Seven(A, B, C, D, E, F, G) :
         \E a \in DOMAIN A, b \in DOMAIN B, c \in DOMAIN C, d \in DOMAIN D, e \in DOMAIN E,
             f \in DOMAIN F, g \in DOMAIN G : v = <<a, b, c, d, e, f, g>>
  BY DEF Seven
<1> QED
  BY <1>1, <1>2, <1>3

\* A code goes by its name.
LEMMA CodesAre ==
    /\ DOMAIN ArrayCode = Array /\ \A w \in Array : ArrayCode[w] = w
    /\ DOMAIN ByteCode = Bytes /\ \A b \in Bytes : ByteCode[b] = <<b>>
    /\ DOMAIN VarCode = U64 /\ \A v \in U64 : VarCode[v] = VarU64(v)
    /\ DOMAIN LenCode = ByteString /\ \A w \in ByteString : LenCode[w] = LenPrefixed(w)
    /\ DOMAIN RangeCode = Range64 /\ \A x \in Range64 : RangeCode[x] = RangeBytes(x)
    /\ DOMAIN RestCode = Str /\ \A w \in Str : RestCode[w] = w
<1>1. DOMAIN ArrayCode = Array /\ \A w \in Array : ArrayCode[w] = w
  BY DEF ArrayCode, SliceCode, Array
<1>2. DOMAIN ByteCode = Bytes /\ \A b \in Bytes : ByteCode[b] = <<b>>
  BY DEF ByteCode
<1>3. DOMAIN VarCode = U64 /\ \A v \in U64 : VarCode[v] = VarU64(v)
  BY DEF VarCode
<1>4. DOMAIN LenCode = ByteString /\ \A w \in ByteString : LenCode[w] = LenPrefixed(w)
  BY DEF LenCode
<1>5. DOMAIN RangeCode = Range64 /\ \A x \in Range64 : RangeCode[x] = RangeBytes(x)
  BY DEF RangeCode
<1>6. DOMAIN RestCode = Str /\ \A w \in Str : RestCode[w] = w
  BY DEF RestCode
<1> QED
  BY <1>1, <1>2, <1>3, <1>4, <1>5, <1>6

\* The code of one bit.
LEMMA FlagCodeIs ==
    \A allowed : DOMAIN FlagCode(allowed) = allowed /\ \A b \in allowed : FlagCode(allowed)[b] = <<b>>
  BY DEF FlagCode

\* The code of eight bytes, the lowest first.
LEMMA LeCodeIs ==
    \A len : DOMAIN LeCode(len) = Fixed(len) /\ \A v \in Fixed(len) : LeCode(len)[v] = Le(v, len)
  BY DEF LeCode

\* Under other names the bytes are still bytes.
LEMMA RenamesCode ==
    ASSUME NEW f, NEW first, NEW code, Renames(f, first, code), IsCode(first)
    PROVE  IsCode(code) /\ (NoneEmpty(first) => NoneEmpty(code))
<1> SUFFICES ASSUME NEW u \in DOMAIN code
             PROVE  code[u] \in Str /\ (NoneEmpty(first) => code[u] # <<>>)
  BY DEF IsCode, NoneEmpty
<1>1. PICK v \in DOMAIN first : f[v] = u
  BY DEF Renames
<1>2. code[u] = first[v]
  BY <1>1 DEF Renames
<1> QED
  BY <1>2 DEF IsCode, NoneEmpty

\* With one value that takes a byte, the tuple takes one.
LEMMA AppendsNoneEmpty ==
    ASSUME NEW tuples, IsCode(tuples), NEW code, IsCode(code), NEW longer,
               Appends(tuples, code, longer),
           NoneEmpty(tuples) \/ NoneEmpty(code)
    PROVE  NoneEmpty(longer)
<1> SUFFICES ASSUME NEW u \in DOMAIN longer PROVE longer[u] # <<>>
  BY DEF NoneEmpty
<1>1. PICK c \in DOMAIN tuples, b \in DOMAIN code : u = Append(c, b)
  BY DEF Appends
<1>2. longer[u] = tuples[c] \o code[b]
  BY <1>1 DEF Appends
<1>3. tuples[c] \in Str /\ code[b] \in Str /\ (tuples[c] # <<>> \/ code[b] # <<>>)
  BY DEF IsCode, NoneEmpty
<1>4. /\ tuples[c] \o code[b] \in Str /\ Len(tuples[c] \o code[b]) = Len(tuples[c]) + Len(code[b])
      /\ Len(tuples[c]) \in Nat /\ Len(code[b]) \in Nat
      /\ (Len(tuples[c]) # 0 \/ Len(code[b]) # 0)
  BY <1>3, ConcatIs, StrIs
<1>5. tuples[c] \o code[b] # <<>>
  BY <1>4, StrIs
<1> QED
  BY <1>2, <1>5

\* A tuple of a value that takes a byte takes a byte.
LEMMA OneNoneEmpty ==
    ASSUME NEW A, NoneEmpty(A)
    PROVE  NoneEmpty(One(A))
<1> SUFFICES ASSUME NEW v \in DOMAIN One(A) PROVE One(A)[v] # <<>>
  BY DEF NoneEmpty
<1>1. PICK a \in DOMAIN A : v = <<a>>
  BY OneTuples
<1>2. One(A)[v] = A[a]
  BY <1>1, OneTuples
<1> QED
  BY <1>2 DEF NoneEmpty

\* The code of bytes behind their length.
LEMMA LenCodeIs ==
    IsCode(LenCode) /\ NoneEmpty(LenCode)
<1> SUFFICES ASSUME NEW w \in ByteString PROVE LenPrefixed(w) \in Str /\ LenPrefixed(w) # <<>>
  BY CodesAre DEF IsCode, NoneEmpty
<1>1. w \in Str /\ Len(w) \in U64 /\ Len(w) \in Nat
  BY StrIs, MaxU64Is DEF ByteString, U64
<1>2. PICK n : IsVar(VarU64(Len(w)), n)
  BY <1>1, VarWrites
<1>3. VarU64(Len(w)) \in Str /\ Len(VarU64(Len(w))) = n /\ n \in Nat /\ n # 0
  BY <1>2, WidthsAre DEF IsVar
<1>4. VarU64(Len(w)) \o w \in Str /\ Len(VarU64(Len(w)) \o w) = n + Len(w)
  BY <1>1, <1>3, ConcatIs
<1>5. VarU64(Len(w)) \o w # <<>>
  BY <1>1, <1>3, <1>4, StrIs
<1> QED
  BY <1>4, <1>5 DEF LenPrefixed

\* Every number takes a byte at least.
LEMMA NumbersNoneEmpty ==
    /\ NoneEmpty(VarCode) /\ NoneEmpty(ArrayCode) /\ NoneEmpty(ByteCode)
    /\ \A n \in Nat \ {0} : NoneEmpty(LeCode(n))
    /\ \A allowed : NoneEmpty(FlagCode(allowed))
<1>1. NoneEmpty(VarCode)
  <2> SUFFICES ASSUME NEW v \in U64 PROVE VarU64(v) # <<>>
    BY CodesAre DEF NoneEmpty
  <2>1. PICK n : IsVar(VarU64(v), n)
    BY VarWrites
  <2>2. Len(VarU64(v)) = n /\ n \in Nat /\ n # 0
    BY <2>1, WidthsAre DEF IsVar
  <2> QED
    BY <2>2, StrIs
<1>2. NoneEmpty(ArrayCode)
  <2> SUFFICES ASSUME NEW w \in Array PROVE w # <<>>
    BY CodesAre DEF NoneEmpty
  <2>1. Len(w) = ArrayLen
    BY DEF Array
  <2> QED
    BY <2>1, StrIs, WidthsAre
<1>3. NoneEmpty(ByteCode)
  BY DEF NoneEmpty, ByteCode
<1>4. ASSUME NEW n \in Nat \ {0} PROVE NoneEmpty(LeCode(n))
  <2> SUFFICES ASSUME NEW v \in Fixed(n) PROVE Le(v, n) # <<>>
    BY LeCodeIs DEF NoneEmpty
  <2>1. Len(Le(v, n)) = n
    BY LeIs
  <2> QED
    BY <2>1, StrIs
<1>5. \A allowed : NoneEmpty(FlagCode(allowed))
  BY DEF NoneEmpty, FlagCode
<1> QED
  BY <1>1, <1>2, <1>3, <1>4, <1>5

\* Two tags, and one.
LEMMA ReadBitParsed ==
    ASSUME NEW r, r.ok, r.rest \in Str
    PROVE  Parsed(ReadBit(r), FlagCode({0, 1}), r.rest)
<1>1. {0, 1} \in SUBSET Bytes
  BY WidthsAre DEF Bytes
<1> QED
  BY <1>1, ReadByteInParsed DEF ReadBit

\* A byte that has to be zero.
LEMMA ReadZeroParsed ==
    ASSUME NEW r, r.ok, r.rest \in Str
    PROVE  Parsed(ReadZero(r), FlagCode({0}), r.rest)
<1>1. {0} \in SUBSET Bytes
  BY WidthsAre DEF Bytes
<1> QED
  BY <1>1, ReadByteInParsed DEF ReadZero

\* The codes of tags.
LEMMA TagCodes ==
    IsCode(FlagCode({0, 1})) /\ IsCode(FlagCode({0}))
<1>1. {0} \in SUBSET Bytes /\ {0, 1} \in SUBSET Bytes
  BY WidthsAre DEF Bytes
<1> QED
  BY <1>1, CodesOfNumbers

\* read_range().
LEMMA ReadRangeParsed ==
    ASSUME NEW r, r.ok, r.rest \in Str
    PROVE  Parsed(ReadRange(r), RangeCode, r.rest)
<1> DEFINE Pairs == Two(VarCode, VarCode)
           Ok(v) == v[2] > 0 /\ v[1] + v[2] <= MaxU64
           checked == [v \in {v \in DOMAIN Pairs : Ok(v)} |-> Pairs[v]]
           f == [v \in DOMAIN checked |-> [start |-> v[1], end |-> v[1] + v[2]]]
<1>1. PICK n1, o1 : n1 = ReadVar(r) /\ o1 = First(n1)
  OBVIOUS
<1>2. Parsed(o1, One(VarCode), r.rest)
  BY <1>1, ReadVarParsed, FirstParsed
<1>3. PICK n2, o2 : n2 = ReadVar(o1) /\ o2 = Behind(o1, n2)
  OBVIOUS
<1>4. o1.ok => Parsed(n2, VarCode, o1.rest)
  BY <1>2, <1>3, ParsedIs, ReadVarParsed
<1>5. IsCode(One(VarCode)) /\ IsCode(VarCode)
  BY CodesOfNumbers, OneIs
<1>6. IsCode(Pairs) /\ Appends(One(VarCode), VarCode, Pairs)
  BY <1>5, TwoIs
<1>7. Parsed(o2, Pairs, r.rest)
  BY <1>2, <1>3, <1>4, <1>5, <1>6, BehindParsed
<1>8. /\ \A a \in U64, b \in U64 : <<a, b>> \in DOMAIN Pairs
             /\ Pairs[<<a, b>>] = Cat(VarU64(a), VarU64(b))
      /\ \A v \in DOMAIN Pairs : \E a \in U64, b \in U64 : v = <<a, b>>
  BY TwoTuples, CodesAre
<1> HIDE DEF Pairs
<1>9. PICK p : p = IF o2.ok /\ Ok(o2.val) THEN o2 ELSE Failed
  OBVIOUS
<1>10. Parsed(p, checked, r.rest)
  <2>1. /\ DOMAIN checked \subseteq DOMAIN Pairs /\ \A v \in DOMAIN checked : checked[v] = Pairs[v]
        /\ \A v \in DOMAIN Pairs : v \in DOMAIN checked <=> Ok(v)
    OBVIOUS
  <2>2. o2.ok => o2.val \in DOMAIN Pairs
    BY <1>7, ParsedIs
  <2> HIDE DEF checked
  <2>3. o2.ok => p = IF o2.val \in DOMAIN checked THEN o2 ELSE Failed
    BY <1>9, <2>1, <2>2
  <2>4. ~o2.ok => p = Failed
    BY <1>9
  <2> QED
    BY <1>7, <2>1, <2>3, <2>4, CheckedParsed
<1>11. Renames(f, checked, RangeCode)
  <2>1. U64 \subseteq Nat /\ \A n \in Nat : n \in U64 <=> n <= MaxU64
    BY MaxU64Is DEF U64
  <2>2. ASSUME NEW v \in DOMAIN checked
        PROVE  f[v] \in Range64 /\ RangeBytes(f[v]) = checked[v]
    <3>1. PICK a \in U64, b \in U64 : v = <<a, b>>
      BY <1>8
    <3>2. b > 0 /\ a + b <= MaxU64 /\ a + b \in U64 /\ a \in Nat /\ b \in Nat
      BY <2>1, <3>1
    <3>3. PICK x : x = [start |-> a, end |-> a + b]
      OBVIOUS
    <3>4. f[v] = x
      BY <3>1, <3>3
    <3>5. x \in [start : U64, end : U64] /\ x.start = a /\ x.end = a + b /\ a < a + b /\ (a + b) - a = b
      BY <3>2, <3>3
    <3>6. x \in Range64
      BY <3>5 DEF Range64
    <3>7. checked[v] = Cat(VarU64(a), VarU64(b))
      BY <1>8, <3>1
    <3>8. RangeBytes(x) = Cat(VarU64(a), VarU64(b))
      BY <3>5 DEF RangeBytes, Cat
    <3> QED
      BY <3>4, <3>6, <3>7, <3>8
  <2>3. ASSUME NEW x \in Range64 PROVE \E v \in DOMAIN checked : f[v] = x
    <3>1. x.start \in U64 /\ x.end \in U64 /\ x.start < x.end /\ x = [start |-> x.start, end |-> x.end]
      BY DEF Range64
    <3>2. PICK a \in U64, e \in U64 : a = x.start /\ e = x.end
      BY <3>1
    <3>3. a \in Nat /\ e \in Nat /\ a < e /\ e - a \in Nat /\ e - a > 0 /\ a + (e - a) = e
              /\ e <= MaxU64
      BY <2>1, <3>1, <3>2
    <3>4. PICK b \in Nat : b = e - a
      BY <3>3
    <3>5. b \in U64 /\ b > 0 /\ a + b = e /\ a + b <= MaxU64
      <4>1. b <= MaxU64
        BY <3>3, <3>4, MaxU64Is
      <4> QED
        BY <2>1, <3>3, <3>4, <4>1
    <3>6. <<a, b>> \in DOMAIN Pairs /\ <<a, b>>[1] = a /\ <<a, b>>[2] = b
      BY <1>8, <3>5
    <3>7. <<a, b>> \in DOMAIN checked
      BY <3>5, <3>6
    <3>8. f[<<a, b>>] = x
      BY <3>1, <3>2, <3>5, <3>6, <3>7
    <3> QED
      BY <3>7, <3>8
  <2>4. DOMAIN RangeCode = Range64 /\ \A x \in Range64 : RangeCode[x] = RangeBytes(x)
    BY CodesAre
  <2> HIDE DEF f, checked
  <2> QED
    BY <2>2, <2>3, <2>4 DEF Renames
<1>12. p.ok => p.val \in DOMAIN checked
  BY <1>10, ParsedIs
<1>13. ReadRange(r) = IF p.ok
           THEN Good([start |-> p.val[1], end |-> p.val[1] + p.val[2]], p.rest) ELSE Failed
  <2> DEFINE two == Behind(First(ReadVar(r)), ReadVar(First(ReadVar(r))))
  <2>1. ReadRange(r) = Into(Checked(two, LAMBDA v : Ok(v)), LAMBDA v :
            [start |-> v[1], end |-> v[1] + v[2]])
    BY DEF ReadRange, ReadNext, ReadFirst
  <2>2. two = o2
    BY <1>1, <1>3
  <2> HIDE DEF two
  <2>3. Checked(two, LAMBDA v : Ok(v)) = p
    BY <1>9, <2>2 DEF Checked
  <2> QED
    BY <2>1, <2>3 DEF Into
<1>14. /\ ~p.ok => ReadRange(r) = Failed
       /\ p.ok => ReadRange(r) = Good(f[p.val], p.rest)
  BY <1>12, <1>13
<1> HIDE DEF f, checked
<1> QED
  BY <1>10, <1>11, <1>14, IntoParsed

\* The code of a range: its start, and how far it reaches.
LEMMA RangeCodeIs ==
    IsCode(RangeCode) /\ NoneEmpty(RangeCode)
<1> SUFFICES ASSUME NEW x \in Range64 PROVE RangeBytes(x) \in Str /\ RangeBytes(x) # <<>>
  BY CodesAre DEF IsCode, NoneEmpty
<1>1. x.start \in U64 /\ x.end \in U64 /\ x.start < x.end
  BY DEF Range64
<1>2. x.end - x.start \in U64
  BY <1>1, MaxU64Is DEF U64
<1>3. PICK v, w : v = VarU64(x.start) /\ w = VarU64(x.end - x.start)
  OBVIOUS
<1>4. v \in Str /\ v # <<>> /\ w \in Str /\ w # <<>>
  BY <1>1, <1>2, <1>3, CodesAre, CodesOfNumbers, NumbersNoneEmpty DEF IsCode, NoneEmpty
<1>5. v \o w \in Str /\ Len(v \o w) = Len(v) + Len(w) /\ Len(v) \in Nat /\ Len(v) # 0 /\ Len(w) \in Nat
  BY <1>4, ConcatIs, StrIs
<1>6. v \o w # <<>>
  BY <1>5, StrIs
<1> QED
  BY <1>3, <1>5, <1>6 DEF RangeBytes

-----------------------------------------------------------------------------
(* Records of a log *)

KeyCode == [x \in Key |-> TaggedBytes(x)]
KeyTuples == Two(FlagCode({0, 1}), ArrayCode)
KeyOf == [v \in DOMAIN KeyTuples |-> [algo |-> v[1], data |-> v[2]]]

\* The code of a key.
LEMMA KeyIs ==
    /\ DOMAIN KeyCode = Key /\ \A x \in Key : KeyCode[x] = TaggedBytes(x)
    /\ IsCode(KeyCode) /\ NoneEmpty(KeyCode)
    /\ Renames(KeyOf, KeyTuples, KeyCode)
<1> DEFINE T == Two(FlagCode({0, 1}), ArrayCode)
<1>c. IsCode(FlagCode({0, 1})) /\ IsCode(ArrayCode)
  BY CodesOfNumbers, TagCodes
<1>t1. IsCode(One(FlagCode({0, 1})))
  BY <1>c, OneIs
<1>t2. IsCode(Two(FlagCode({0, 1}), ArrayCode))
           /\ Appends(One(FlagCode({0, 1})), ArrayCode, Two(FlagCode({0, 1}), ArrayCode))
  BY <1>c, <1>t1, TwoIs
<1>n1. NoneEmpty(One(FlagCode({0, 1})))
  <2>1. NoneEmpty(FlagCode({0, 1}))
    BY NumbersNoneEmpty
  <2> QED
    BY <2>1, OneNoneEmpty
<1>n2. NoneEmpty(Two(FlagCode({0, 1}), ArrayCode))
  BY <1>c, <1>t1, <1>t2, <1>n1, AppendsNoneEmpty
<1>d1. DOMAIN FlagCode({0, 1}) = {0, 1} /\ \A y \in {0, 1} : FlagCode({0, 1})[y] = <<y>>
  BY FlagCodeIs
<1>d2. DOMAIN ArrayCode = Array /\ \A y \in Array : ArrayCode[y] = y
  BY CodesAre
<1>1. /\ \A a \in {0, 1}, b \in Array :
            <<a, b>> \in DOMAIN T
      /\ \A a \in {0, 1}, b \in Array :
            T[<<a, b>>] = Cat(<<a>>, b)
      /\ \A v \in DOMAIN T : \E a \in {0, 1}, b \in Array : v = <<a, b>>
  BY <1>d1, <1>d2, TwoTuples
<1>2. DOMAIN KeyCode = Key /\ \A x \in Key : KeyCode[x] = TaggedBytes(x)
  BY DEF KeyCode
<1>3. DOMAIN KeyOf = DOMAIN T /\ \A v \in DOMAIN T : KeyOf[v] = [algo |-> v[1], data |-> v[2]]
  BY DEF KeyOf, KeyTuples
<1> HIDE DEF T
<1>4. Renames(KeyOf, T, KeyCode)
  <2>1. ASSUME NEW a \in {0, 1}, NEW b \in Array
        PROVE  KeyOf[<<a, b>>] \in Key /\ KeyCode[KeyOf[<<a, b>>]] = T[<<a, b>>]
    <3>1. PICK x : x = [algo |-> a, data |-> b]
      OBVIOUS
    <3>2. KeyOf[<<a, b>>] = x
      <4>1. <<a, b>> \in DOMAIN T
        BY <1>1
      <4>2. KeyOf[<<a, b>>] = [algo |-> a, data |-> b]
        BY <1>3, <4>1
      <4> QED
        BY <3>1, <4>2
    <3>3. x \in Key
      BY <3>1 DEF Key
    <3>4. TaggedBytes(x) = Cat(<<a>>, b)
      <4>1. x.algo = a /\ x.data = b
        BY <3>1
      <4>2. TaggedBytes(x) = Cat(<<x.algo>>, x.data)
        BY DEF TaggedBytes, Cat
      <4> QED
        BY <4>1, <4>2
    <3>5. T[<<a, b>>] = Cat(<<a>>, b)
      BY <1>1
    <3> QED
      BY <1>2, <3>2, <3>3, <3>4, <3>5
  <2>2. ASSUME NEW x \in Key PROVE \E v \in DOMAIN T : KeyOf[v] = x
    <3>1. x.algo \in {0, 1} /\ x.data \in Array
      BY DEF Key
    <3>2. x = [algo |-> x.algo, data |-> x.data]
      BY DEF Key
    <3>3. PICK v : v = <<x.algo, x.data>>
      OBVIOUS
    <3>4. v \in DOMAIN T
      BY <1>1, <3>1, <3>3
    <3>5. KeyOf[v] = [algo |-> v[1], data |-> v[2]]
      BY <1>3, <3>4
    <3>6. v[1] = x.algo /\ v[2] = x.data
      BY <3>3
    <3> QED
      BY <3>2, <3>4, <3>5, <3>6
  <2>3. ASSUME NEW v \in DOMAIN T PROVE KeyOf[v] \in Key /\ KeyCode[KeyOf[v]] = T[v]
    <3>1. PICK a \in {0, 1}, b \in Array : v = <<a, b>>
      BY <1>1
    <3> QED
      BY <2>1, <3>1
  <2> QED
    BY <1>2, <2>2, <2>3 DEF Renames
<1>5. IsCode(KeyCode) /\ NoneEmpty(KeyCode)
  BY <1>4, <1>t2, <1>n2, RenamesCode DEF T
<1> QED
  BY <1>2, <1>4, <1>5 DEF T, KeyTuples

\* The reader of a key.
LEMMA KeyParsed ==
    ASSUME NEW r, r.ok, r.rest \in Str
    PROVE  Parsed(ReadTagged(r), KeyCode, r.rest)
<1>c. IsCode(FlagCode({0, 1})) /\ IsCode(ArrayCode)
  BY CodesOfNumbers, TagCodes
<1>t1. IsCode(One(FlagCode({0, 1})))
  BY <1>c, OneIs
<1>t2. IsCode(Two(FlagCode({0, 1}), ArrayCode))
           /\ Appends(One(FlagCode({0, 1})), ArrayCode, Two(FlagCode({0, 1}), ArrayCode))
  BY <1>c, <1>t1, TwoIs
<1>p1. PICK n1, o1 : n1 = ReadBit(r) /\ o1 = First(n1)
  OBVIOUS
<1>q1. Parsed(n1, FlagCode({0, 1}), r.rest)
  BY <1>p1, ReadBitParsed
<1>r1. Parsed(o1, One(FlagCode({0, 1})), r.rest)
  BY <1>p1, <1>q1, FirstParsed
<1>p2. PICK n2, o2 : n2 = ReadArray(o1) /\ o2 = Behind(o1, n2)
  OBVIOUS
<1>q2. o1.ok => Parsed(n2, ArrayCode, o1.rest)
  <2>1. o1.ok => o1.rest \in Str
    BY <1>r1, ParsedIs
  <2> QED
    BY <1>p2, <2>1, ReadArrayParsed
<1>r2. Parsed(o2, Two(FlagCode({0, 1}), ArrayCode), r.rest)
  BY <1>c, <1>t1, <1>t2, <1>p2, <1>q2, <1>r1, BehindParsed
<1>1. ReadTagged(r) = IF o2.ok THEN Good([algo |-> o2.val[1], data |-> o2.val[2]], o2.rest) ELSE Failed
  <2>1. ReadTagged(r) = Into(Behind(First(ReadBit(r)), ReadArray(First(ReadBit(r)))),
                             LAMBDA v : [algo |-> v[1], data |-> v[2]])
    BY DEF ReadTagged, ReadNext, ReadFirst
  <2>2. Behind(First(ReadBit(r)), ReadArray(First(ReadBit(r)))) = o2
    BY <1>p1, <1>p2
  <2> QED
    BY <2>1, <2>2 DEF Into
<1>2. o2.ok => KeyOf[o2.val] = [algo |-> o2.val[1], data |-> o2.val[2]]
  <2>1. o2.ok => o2.val \in DOMAIN KeyTuples
    BY <1>r2, ParsedIs DEF KeyTuples
  <2> QED
    BY <2>1 DEF KeyOf
<1>3. /\ ~o2.ok => ReadTagged(r) = Failed
      /\ o2.ok => ReadTagged(r) = Good(KeyOf[o2.val], o2.rest)
  BY <1>1, <1>2
<1>4. Renames(KeyOf, Two(FlagCode({0, 1}), ArrayCode), KeyCode)
  BY KeyIs DEF KeyTuples
<1> QED
  BY <1>3, <1>4, <1>r2, IntoParsed

CipherCode == [x \in CipherInfo |-> CipherBytes(x)]
CipherTuples == Two(ByteCode, ArrayCode)
CipherOf == [v \in DOMAIN CipherTuples |-> [suite |-> v[1], fingerprint |-> v[2]]]

\* The code of CipherInfo.
LEMMA CipherIs ==
    /\ DOMAIN CipherCode = CipherInfo /\ \A x \in CipherInfo : CipherCode[x] = CipherBytes(x)
    /\ IsCode(CipherCode) /\ NoneEmpty(CipherCode)
    /\ Renames(CipherOf, CipherTuples, CipherCode)
<1> DEFINE T == Two(ByteCode, ArrayCode)
<1>c. IsCode(ByteCode) /\ IsCode(ArrayCode)
  BY CodesOfNumbers
<1>t1. IsCode(One(ByteCode))
  BY <1>c, OneIs
<1>t2. IsCode(Two(ByteCode, ArrayCode)) /\ Appends(One(ByteCode), ArrayCode, Two(ByteCode, ArrayCode))
  BY <1>c, <1>t1, TwoIs
<1>n1. NoneEmpty(One(ByteCode))
  <2>1. NoneEmpty(ByteCode)
    BY NumbersNoneEmpty
  <2> QED
    BY <2>1, OneNoneEmpty
<1>n2. NoneEmpty(Two(ByteCode, ArrayCode))
  BY <1>c, <1>t1, <1>t2, <1>n1, AppendsNoneEmpty
<1>d1. DOMAIN ByteCode = Bytes /\ \A y \in Bytes : ByteCode[y] = <<y>>
  BY CodesAre
<1>d2. DOMAIN ArrayCode = Array /\ \A y \in Array : ArrayCode[y] = y
  BY CodesAre
<1>1. /\ \A a \in Bytes, b \in Array :
            <<a, b>> \in DOMAIN T
      /\ \A a \in Bytes, b \in Array :
            T[<<a, b>>] = Cat(<<a>>, b)
      /\ \A v \in DOMAIN T : \E a \in Bytes, b \in Array : v = <<a, b>>
  BY <1>d1, <1>d2, TwoTuples
<1>2. DOMAIN CipherCode = CipherInfo /\ \A x \in CipherInfo : CipherCode[x] = CipherBytes(x)
  BY DEF CipherCode
<1>3. DOMAIN CipherOf = DOMAIN T
          /\ \A v \in DOMAIN T : CipherOf[v] = [suite |-> v[1], fingerprint |-> v[2]]
  BY DEF CipherOf, CipherTuples
<1> HIDE DEF T
<1>4. Renames(CipherOf, T, CipherCode)
  <2>1. ASSUME NEW a \in Bytes, NEW b \in Array
        PROVE  CipherOf[<<a, b>>] \in CipherInfo /\ CipherCode[CipherOf[<<a, b>>]] = T[<<a, b>>]
    <3>1. PICK x : x = [suite |-> a, fingerprint |-> b]
      OBVIOUS
    <3>2. CipherOf[<<a, b>>] = x
      <4>1. <<a, b>> \in DOMAIN T
        BY <1>1
      <4>2. CipherOf[<<a, b>>] = [suite |-> a, fingerprint |-> b]
        BY <1>3, <4>1
      <4> QED
        BY <3>1, <4>2
    <3>3. x \in CipherInfo
      BY <3>1 DEF CipherInfo
    <3>4. CipherBytes(x) = Cat(<<a>>, b)
      <4>1. x.suite = a /\ x.fingerprint = b
        BY <3>1
      <4>2. CipherBytes(x) = Cat(<<x.suite>>, x.fingerprint)
        BY DEF CipherBytes, Cat
      <4> QED
        BY <4>1, <4>2
    <3>5. T[<<a, b>>] = Cat(<<a>>, b)
      BY <1>1
    <3> QED
      BY <1>2, <3>2, <3>3, <3>4, <3>5
  <2>2. ASSUME NEW x \in CipherInfo PROVE \E v \in DOMAIN T : CipherOf[v] = x
    <3>1. x.suite \in Bytes /\ x.fingerprint \in Array
      BY DEF CipherInfo
    <3>2. x = [suite |-> x.suite, fingerprint |-> x.fingerprint]
      BY DEF CipherInfo
    <3>3. PICK v : v = <<x.suite, x.fingerprint>>
      OBVIOUS
    <3>4. v \in DOMAIN T
      BY <1>1, <3>1, <3>3
    <3>5. CipherOf[v] = [suite |-> v[1], fingerprint |-> v[2]]
      BY <1>3, <3>4
    <3>6. v[1] = x.suite /\ v[2] = x.fingerprint
      BY <3>3
    <3> QED
      BY <3>2, <3>4, <3>5, <3>6
  <2>3. ASSUME NEW v \in DOMAIN T PROVE CipherOf[v] \in CipherInfo /\ CipherCode[CipherOf[v]] = T[v]
    <3>1. PICK a \in Bytes, b \in Array : v = <<a, b>>
      BY <1>1
    <3> QED
      BY <2>1, <3>1
  <2> QED
    BY <1>2, <2>2, <2>3 DEF Renames
<1>5. IsCode(CipherCode) /\ NoneEmpty(CipherCode)
  BY <1>4, <1>t2, <1>n2, RenamesCode DEF T
<1> QED
  BY <1>2, <1>4, <1>5 DEF T, CipherTuples

\* The reader of CipherInfo.
LEMMA CipherParsed ==
    ASSUME NEW r, r.ok, r.rest \in Str
    PROVE  Parsed(ReadCipher(r), CipherCode, r.rest)
<1>c. IsCode(ByteCode) /\ IsCode(ArrayCode)
  BY CodesOfNumbers
<1>t1. IsCode(One(ByteCode))
  BY <1>c, OneIs
<1>t2. IsCode(Two(ByteCode, ArrayCode)) /\ Appends(One(ByteCode), ArrayCode, Two(ByteCode, ArrayCode))
  BY <1>c, <1>t1, TwoIs
<1>p1. PICK n1, o1 : n1 = ReadByte(r) /\ o1 = First(n1)
  OBVIOUS
<1>q1. Parsed(n1, ByteCode, r.rest)
  BY <1>p1, ReadByteParsed
<1>r1. Parsed(o1, One(ByteCode), r.rest)
  BY <1>p1, <1>q1, FirstParsed
<1>p2. PICK n2, o2 : n2 = ReadArray(o1) /\ o2 = Behind(o1, n2)
  OBVIOUS
<1>q2. o1.ok => Parsed(n2, ArrayCode, o1.rest)
  <2>1. o1.ok => o1.rest \in Str
    BY <1>r1, ParsedIs
  <2> QED
    BY <1>p2, <2>1, ReadArrayParsed
<1>r2. Parsed(o2, Two(ByteCode, ArrayCode), r.rest)
  BY <1>c, <1>t1, <1>t2, <1>p2, <1>q2, <1>r1, BehindParsed
<1>1. ReadCipher(r) = IF o2.ok
          THEN Good([suite |-> o2.val[1], fingerprint |-> o2.val[2]], o2.rest) ELSE Failed
  BY <1>p1, <1>p2 DEF ReadCipher, ReadNext, ReadFirst, Into
<1>2. o2.ok => CipherOf[o2.val] = [suite |-> o2.val[1], fingerprint |-> o2.val[2]]
  <2>1. o2.ok => o2.val \in DOMAIN CipherTuples
    BY <1>r2, ParsedIs DEF CipherTuples
  <2> QED
    BY <2>1 DEF CipherOf
<1>3. /\ ~o2.ok => ReadCipher(r) = Failed
      /\ o2.ok => ReadCipher(r) = Good(CipherOf[o2.val], o2.rest)
  BY <1>1, <1>2
<1>4. Renames(CipherOf, Two(ByteCode, ArrayCode), CipherCode)
  BY CipherIs DEF CipherTuples
<1> QED
  BY <1>3, <1>4, <1>r2, IntoParsed

ChainCode == [x \in ChainHead |-> ChainBytes(x)]
ChainTuples == Two(VarCode, ArrayCode)
ChainOf == [v \in DOMAIN ChainTuples |-> [size |-> v[1], hash |-> v[2]]]

\* The code of a chain head.
LEMMA ChainIs ==
    /\ DOMAIN ChainCode = ChainHead /\ \A x \in ChainHead : ChainCode[x] = ChainBytes(x)
    /\ IsCode(ChainCode) /\ NoneEmpty(ChainCode)
    /\ Renames(ChainOf, ChainTuples, ChainCode)
<1> DEFINE T == Two(VarCode, ArrayCode)
<1>c. IsCode(VarCode) /\ IsCode(ArrayCode)
  BY CodesOfNumbers
<1>t1. IsCode(One(VarCode))
  BY <1>c, OneIs
<1>t2. IsCode(Two(VarCode, ArrayCode)) /\ Appends(One(VarCode), ArrayCode, Two(VarCode, ArrayCode))
  BY <1>c, <1>t1, TwoIs
<1>n1. NoneEmpty(One(VarCode))
  <2>1. NoneEmpty(VarCode)
    BY NumbersNoneEmpty
  <2> QED
    BY <2>1, OneNoneEmpty
<1>n2. NoneEmpty(Two(VarCode, ArrayCode))
  BY <1>c, <1>t1, <1>t2, <1>n1, AppendsNoneEmpty
<1>d1. DOMAIN VarCode = U64 /\ \A y \in U64 : VarCode[y] = VarU64(y)
  BY CodesAre
<1>d2. DOMAIN ArrayCode = Array /\ \A y \in Array : ArrayCode[y] = y
  BY CodesAre
<1>1. /\ \A a \in U64, b \in Array :
            <<a, b>> \in DOMAIN T
      /\ \A a \in U64, b \in Array :
            T[<<a, b>>] = Cat(VarU64(a), b)
      /\ \A v \in DOMAIN T : \E a \in U64, b \in Array : v = <<a, b>>
  BY <1>d1, <1>d2, TwoTuples
<1>2. DOMAIN ChainCode = ChainHead /\ \A x \in ChainHead : ChainCode[x] = ChainBytes(x)
  BY DEF ChainCode
<1>3. DOMAIN ChainOf = DOMAIN T /\ \A v \in DOMAIN T : ChainOf[v] = [size |-> v[1], hash |-> v[2]]
  BY DEF ChainOf, ChainTuples
<1> HIDE DEF T
<1>4. Renames(ChainOf, T, ChainCode)
  <2>1. ASSUME NEW a \in U64, NEW b \in Array
        PROVE  ChainOf[<<a, b>>] \in ChainHead /\ ChainCode[ChainOf[<<a, b>>]] = T[<<a, b>>]
    <3>1. PICK x : x = [size |-> a, hash |-> b]
      OBVIOUS
    <3>2. ChainOf[<<a, b>>] = x
      <4>1. <<a, b>> \in DOMAIN T
        BY <1>1
      <4>2. ChainOf[<<a, b>>] = [size |-> a, hash |-> b]
        BY <1>3, <4>1
      <4> QED
        BY <3>1, <4>2
    <3>3. x \in ChainHead
      BY <3>1 DEF ChainHead
    <3>4. ChainBytes(x) = Cat(VarU64(a), b)
      <4>1. x.size = a /\ x.hash = b
        BY <3>1
      <4>2. ChainBytes(x) = Cat(VarU64(x.size), x.hash)
        BY DEF ChainBytes, Cat
      <4> QED
        BY <4>1, <4>2
    <3>5. T[<<a, b>>] = Cat(VarU64(a), b)
      BY <1>1
    <3> QED
      BY <1>2, <3>2, <3>3, <3>4, <3>5
  <2>2. ASSUME NEW x \in ChainHead PROVE \E v \in DOMAIN T : ChainOf[v] = x
    <3>1. x.size \in U64 /\ x.hash \in Array
      BY DEF ChainHead
    <3>2. x = [size |-> x.size, hash |-> x.hash]
      BY DEF ChainHead
    <3>3. PICK v : v = <<x.size, x.hash>>
      OBVIOUS
    <3>4. v \in DOMAIN T
      BY <1>1, <3>1, <3>3
    <3>5. ChainOf[v] = [size |-> v[1], hash |-> v[2]]
      BY <1>3, <3>4
    <3>6. v[1] = x.size /\ v[2] = x.hash
      BY <3>3
    <3> QED
      BY <3>2, <3>4, <3>5, <3>6
  <2>3. ASSUME NEW v \in DOMAIN T PROVE ChainOf[v] \in ChainHead /\ ChainCode[ChainOf[v]] = T[v]
    <3>1. PICK a \in U64, b \in Array : v = <<a, b>>
      BY <1>1
    <3> QED
      BY <2>1, <3>1
  <2> QED
    BY <1>2, <2>2, <2>3 DEF Renames
<1>5. IsCode(ChainCode) /\ NoneEmpty(ChainCode)
  BY <1>4, <1>t2, <1>n2, RenamesCode DEF T
<1> QED
  BY <1>2, <1>4, <1>5 DEF T, ChainTuples

\* The reader of a chain head.
LEMMA ChainParsed ==
    ASSUME NEW r, r.ok, r.rest \in Str
    PROVE  Parsed(ReadChain(r), ChainCode, r.rest)
<1>c. IsCode(VarCode) /\ IsCode(ArrayCode)
  BY CodesOfNumbers
<1>t1. IsCode(One(VarCode))
  BY <1>c, OneIs
<1>t2. IsCode(Two(VarCode, ArrayCode)) /\ Appends(One(VarCode), ArrayCode, Two(VarCode, ArrayCode))
  BY <1>c, <1>t1, TwoIs
<1>p1. PICK n1, o1 : n1 = ReadVar(r) /\ o1 = First(n1)
  OBVIOUS
<1>q1. Parsed(n1, VarCode, r.rest)
  BY <1>p1, ReadVarParsed
<1>r1. Parsed(o1, One(VarCode), r.rest)
  BY <1>p1, <1>q1, FirstParsed
<1>p2. PICK n2, o2 : n2 = ReadArray(o1) /\ o2 = Behind(o1, n2)
  OBVIOUS
<1>q2. o1.ok => Parsed(n2, ArrayCode, o1.rest)
  <2>1. o1.ok => o1.rest \in Str
    BY <1>r1, ParsedIs
  <2> QED
    BY <1>p2, <2>1, ReadArrayParsed
<1>r2. Parsed(o2, Two(VarCode, ArrayCode), r.rest)
  BY <1>c, <1>t1, <1>t2, <1>p2, <1>q2, <1>r1, BehindParsed
<1>1. ReadChain(r) = IF o2.ok THEN Good([size |-> o2.val[1], hash |-> o2.val[2]], o2.rest) ELSE Failed
  BY <1>p1, <1>p2 DEF ReadChain, ReadNext, ReadFirst, Into
<1>2. o2.ok => ChainOf[o2.val] = [size |-> o2.val[1], hash |-> o2.val[2]]
  <2>1. o2.ok => o2.val \in DOMAIN ChainTuples
    BY <1>r2, ParsedIs DEF ChainTuples
  <2> QED
    BY <2>1 DEF ChainOf
<1>3. /\ ~o2.ok => ReadChain(r) = Failed
      /\ o2.ok => ReadChain(r) = Good(ChainOf[o2.val], o2.rest)
  BY <1>1, <1>2
<1>4. Renames(ChainOf, Two(VarCode, ArrayCode), ChainCode)
  BY ChainIs DEF ChainTuples
<1> QED
  BY <1>3, <1>4, <1>r2, IntoParsed

-----------------------------------------------------------------------------
(* Options: a tag, and a value behind it *)

OptionCode(code) ==
    [v \in Option(DOMAIN code) |-> IF v = <<>> THEN <<0>> ELSE Cat(<<1>>, code[v[1]])]

\* An option is no value or a value, and not both.
LEMMA OptionsAre ==
    ASSUME NEW S
    PROVE  /\ <<>> \in Option(S)
           /\ \A x \in S : <<x>> \in Option(S) /\ <<x>> # <<>> /\ <<x>>[1] = x
           /\ \A v \in Option(S) : v = <<>> \/ (v[1] \in S /\ v = <<v[1]>>)
<1>1. /\ <<>> \in Option(S)
      /\ \A x \in S : <<x>> \in Option(S) /\ <<x>> # <<>> /\ <<x>>[1] = x
  BY DEF Option
<1>2. ASSUME NEW v \in Option(S), v # <<>> PROVE v[1] \in S /\ v = <<v[1]>>
  <2>1. v \in Seq(S) /\ Len(v) <= 1
    BY DEF Option
  <2>2. Len(v) = 1
    BY <1>2, <2>1
  <2>3. v[1] \in S
    BY <2>1, <2>2
  <2>4. v = <<v[1]>>
    BY <2>1, <2>2, <2>3
  <2> QED
    BY <2>3, <2>4
<1> QED
  BY <1>1, <1>2

\* The code of an option: the tag 0, or the tag 1 and the value.
LEMMA OptionCodeIs ==
    ASSUME NEW code, IsCode(code)
    PROVE  /\ IsCode(OptionCode(code)) /\ NoneEmpty(OptionCode(code))
           /\ DOMAIN OptionCode(code) = Option(DOMAIN code)
           /\ OptionCode(code)[<<>>] = <<0>>
           /\ \A x \in DOMAIN code : OptionCode(code)[<<x>>] = <<1>> \o code[x]
<1>1. DOMAIN OptionCode(code) = Option(DOMAIN code)
  BY DEF OptionCode
<1>2. OptionCode(code)[<<>>] = <<0>>
  BY OptionsAre DEF OptionCode
<1>3. ASSUME NEW x \in DOMAIN code PROVE OptionCode(code)[<<x>>] = Cat(<<1>>, code[x])
  <2>1. <<x>> \in Option(DOMAIN code) /\ <<x>> # <<>> /\ <<x>>[1] = x
    BY OptionsAre
  <2> QED
    BY <2>1 DEF OptionCode
<1>4. 0 \in Bytes /\ 1 \in Bytes
  BY WidthsAre DEF Bytes
<1>5. <<0>> \in Str /\ <<1>> \in Str /\ <<0>> # <<>>
  BY <1>4 DEF Str
<1>6. ASSUME NEW x \in DOMAIN code PROVE Cat(<<1>>, code[x]) \in Str /\ Cat(<<1>>, code[x]) # <<>>
  <2>1. code[x] \in Str
    BY DEF IsCode
  <2>2. <<1>> \o code[x] \in Str /\ Len(<<1>> \o code[x]) = 1 + Len(code[x])
    BY <1>5, <2>1, ConcatIs
  <2>3. Len(code[x]) \in Nat
    BY <2>1 DEF Str
  <2> QED
    BY <2>2, <2>3 DEF Cat
<1>7. ASSUME NEW v \in Option(DOMAIN code)
                 PROVE OptionCode(code)[v] \in Str /\ OptionCode(code)[v] # <<>>
  <2>1. CASE v = <<>>
    BY <1>2, <1>5, <2>1
  <2>2. CASE v # <<>>
    <3>1. v[1] \in DOMAIN code /\ v = <<v[1]>>
      BY <2>2, OptionsAre
    <3> QED
      BY <1>3, <1>6, <3>1
  <2> QED
    BY <2>1, <2>2
<1> QED
  BY <1>1, <1>2, <1>3, <1>7 DEF IsCode, NoneEmpty, Cat

\* Nothing is written.
NoBytes == [v \in {<<>>} |-> <<>>]

\* The code of the type that has one value and no bytes.
LEMMA NoBytesIs ==
    /\ IsCode(NoBytes) /\ DOMAIN NoBytes = {<<>>} /\ NoBytes[<<>>] = <<>>
    /\ \A s \in Str : Parsed(Good(<<>>, s), NoBytes, s)
<1>1. DOMAIN NoBytes = {<<>>} /\ NoBytes[<<>>] = <<>>
  BY DEF NoBytes
<1>2. <<>> \in Str
  BY StrIs
<1>3. ASSUME NEW s \in Str PROVE Parsed(Good(<<>>, s), NoBytes, s)
  <2>1. Splits(s, <<>>, s)
    BY SplitsEmpty
  <2>2. ASSUME NEW v, NEW t, Begins(s, NoBytes, v, t) PROVE v = <<>> /\ t = s
    <3>1. v = <<>> /\ Splits(s, <<>>, t)
      BY <1>1, <2>2 DEF Begins
    <3> QED
      BY <2>1, <3>1, SplitsSame
  <2>3. Begins(s, NoBytes, <<>>, s)
    BY <1>1, <2>1 DEF Begins
  <2> QED
    BY <2>2, <2>3 DEF Parsed
<1> QED
  BY <1>1, <1>2, <1>3 DEF IsCode

\* The tag was read, and n is what reading the value comes to.
LEMMA OptionParsed ==
    ASSUME NEW o, NEW s, Parsed(o, FlagCode({0, 1}), s),
           NEW code, IsCode(code), NEW n, Tagged(o, 1) => Parsed(n, code, o.rest),
           NEW p, ~o.ok => p = Failed,
           Tagged(o, 0) => p = Good(<<>>, o.rest),
           Tagged(o, 1) => p = First(n)
    PROVE  Parsed(p, OptionCode(code), s)
<1> DEFINE none == NoBytes
           some == One(code)
           next == [b \in {0, 1} |-> IF b = 0 THEN none ELSE some]
<1>1. IsCode(FlagCode({0, 1}))
  BY TagCodes
<1>2. IsCode(none) /\ IsCode(some)
  BY OneIs, NoBytesIs
<1>3. DOMAIN FlagCode({0, 1}) = {0, 1}
  BY DEF FlagCode
<1>4. /\ \A b \in DOMAIN FlagCode({0, 1}) : IsCode(next[b])
      /\ next[0] = none /\ next[1] = some
  BY <1>2, <1>3
<1>5. Follows(FlagCode({0, 1}), next, OptionCode(code))
  <2>1. FlagCode({0, 1})[0] = <<0>> /\ FlagCode({0, 1})[1] = <<1>>
    BY DEF FlagCode
  <2>2. DOMAIN none = {<<>>} /\ none[<<>>] = <<>>
    BY NoBytesIs
  <2>3. /\ DOMAIN some = {<<a>> : a \in DOMAIN code}
        /\ \A a \in DOMAIN code : some[<<a>>] = code[a]
    BY OneIs, OneTuples
  <2>4. <<>> \in DOMAIN OptionCode(code) /\ \A a \in DOMAIN code : <<a>> \in DOMAIN OptionCode(code)
    BY OptionCodeIs, OptionsAre
  <2>5. OptionCode(code)[<<>>] = <<0>> \o <<>>
    BY OptionCodeIs
  <2>6. \A a \in DOMAIN code : OptionCode(code)[<<a>>] = <<1>> \o code[a]
    BY OptionCodeIs
  <2>7. \A u \in DOMAIN OptionCode(code) : u = <<>> \/ \E a \in DOMAIN code : u = <<a>>
    BY OptionCodeIs, OptionsAre
  <2>8. \A u \in DOMAIN none : u \in DOMAIN OptionCode(code) /\ OptionCode(code)[u] = <<0>> \o none[u]
    BY <2>2, <2>4, <2>5
  <2>9. \A u \in DOMAIN some : u \in DOMAIN OptionCode(code) /\ OptionCode(code)[u] = <<1>> \o some[u]
    BY <2>3, <2>4, <2>6
  <2>10. ASSUME NEW u \in DOMAIN OptionCode(code) PROVE u \in DOMAIN none \/ u \in DOMAIN some
    BY <2>2, <2>3, <2>7
  <2>11. \A v \in {0, 1} : v = 0 \/ v = 1
    OBVIOUS
  <2>12. \A v \in {0, 1} : \A u : u \in DOMAIN next[v] =>
            u \in DOMAIN OptionCode(code) /\ OptionCode(code)[u] = FlagCode({0, 1})[v] \o next[v][u]
    <3>1. ASSUME NEW u \in DOMAIN next[0]
          PROVE  u \in DOMAIN OptionCode(code)
                     /\ OptionCode(code)[u] = FlagCode({0, 1})[0] \o next[0][u]
      BY <1>4, <2>1, <2>8
    <3>2. ASSUME NEW u \in DOMAIN next[1]
          PROVE  u \in DOMAIN OptionCode(code)
                     /\ OptionCode(code)[u] = FlagCode({0, 1})[1] \o next[1][u]
      BY <1>4, <2>1, <2>9
    <3> HIDE DEF none, some, next
    <3> QED
      BY <2>11, <3>1, <3>2
  <2>13. 0 \in {0, 1} /\ 1 \in {0, 1}
    OBVIOUS
  <2> HIDE DEF none, some, next
  <2>14. \A u \in DOMAIN OptionCode(code) : \E v \in {0, 1} : u \in DOMAIN next[v]
    BY <1>4, <2>10, <2>13
  <2> QED
    BY <1>3, <2>12, <2>14 DEF Follows
<1>6. o.ok => o.val \in {0, 1} /\ o.rest \in Str
  BY <1>3, ParsedIs
<1>7. o.ok /\ o.val = 0 => Parsed(p, none, o.rest)
  <2>1. SUFFICES ASSUME o.ok, o.val = 0 PROVE Parsed(p, none, o.rest)
    OBVIOUS
  <2>2. p = Good(<<>>, o.rest)
    BY <2>1 DEF Tagged
  <2> QED
    BY <1>6, <2>1, <2>2, NoBytesIs
<1>8. o.ok /\ o.val = 1 => Parsed(p, some, o.rest)
  <2>1. SUFFICES ASSUME o.ok, o.val = 1 PROVE Parsed(p, some, o.rest)
    OBVIOUS
  <2>2. Tagged(o, 1)
    BY <2>1 DEF Tagged
  <2>3. p = First(n) /\ Parsed(n, code, o.rest)
    BY <2>2
  <2> QED
    BY <2>3, FirstParsed
<1>9. o.ok => Parsed(p, next[o.val], o.rest)
  BY <1>4, <1>6, <1>7, <1>8
<1> HIDE DEF none, some, next
<1> QED
  BY <1>1, <1>4, <1>5, <1>9, ThenParsed

-----------------------------------------------------------------------------
(* Records of a pack *)

\* The reader of an identifier of 16 bytes.
LEMMA ReadIdParsed ==
    ASSUME NEW r, r.ok, r.rest \in Str
    PROVE  Parsed(ReadId(r), LeCode(LeLen), r.rest)
<1>1. LeLen \in Nat \ {0}
  BY WireAssumption
<1> QED
  BY <1>1, ReadLeParsed DEF ReadId

\* Identifiers of eight bytes have a code.
LEMMA IdCodeIs ==
    IsCode(LeCode(LeLen)) /\ NoneEmpty(LeCode(LeLen))
<1>1. LeLen \in Nat \ {0}
  BY WireAssumption
<1>2. IsCode(LeCode(LeLen))
  BY <1>1, CodesOfNumbers
<1>3. ASSUME NEW v \in DOMAIN LeCode(LeLen) PROVE LeCode(LeLen)[v] # <<>>
  <2>1. v \in Fixed(LeLen) /\ LeCode(LeLen)[v] = Le(v, LeLen)
    BY DEF LeCode
  <2>2. Len(Le(v, LeLen)) = LeLen
    BY <1>1, <2>1, LeIs
  <2>3. Len(<<>>) = 0
    OBVIOUS
  <2> QED
    BY <1>1, <2>1, <2>2, <2>3
<1> QED
  BY <1>2, <1>3 DEF NoneEmpty

RefCode == [x \in PackRef |-> RefBytes(x)]
RefTuples == Two(LeCode(LeLen), VarCode)
RefOf == [v \in DOMAIN RefTuples |-> [id |-> v[1], end_seq |-> v[2]]]

\* The code of PackRef.
LEMMA RefIs ==
    /\ DOMAIN RefCode = PackRef /\ \A x \in PackRef : RefCode[x] = RefBytes(x)
    /\ IsCode(RefCode) /\ NoneEmpty(RefCode)
    /\ Renames(RefOf, RefTuples, RefCode)
<1> DEFINE T == Two(LeCode(LeLen), VarCode)
<1>c. IsCode(LeCode(LeLen)) /\ IsCode(VarCode)
  BY CodesOfNumbers, IdCodeIs
<1>t1. IsCode(One(LeCode(LeLen)))
  BY <1>c, OneIs
<1>t2. IsCode(Two(LeCode(LeLen), VarCode))
           /\ Appends(One(LeCode(LeLen)), VarCode, Two(LeCode(LeLen), VarCode))
  BY <1>c, <1>t1, TwoIs
<1>n1. NoneEmpty(One(LeCode(LeLen)))
  <2>1. NoneEmpty(LeCode(LeLen))
    BY IdCodeIs
  <2> QED
    BY <2>1, OneNoneEmpty
<1>n2. NoneEmpty(Two(LeCode(LeLen), VarCode))
  BY <1>c, <1>t1, <1>t2, <1>n1, AppendsNoneEmpty
<1>d1. DOMAIN LeCode(LeLen) = Fixed(LeLen) /\ \A y \in Fixed(LeLen) : LeCode(LeLen)[y] = Le(y, LeLen)
  BY LeCodeIs
<1>d2. DOMAIN VarCode = U64 /\ \A y \in U64 : VarCode[y] = VarU64(y)
  BY CodesAre
<1>1. /\ \A a \in Fixed(LeLen), b \in U64 :
            <<a, b>> \in DOMAIN T
      /\ \A a \in Fixed(LeLen), b \in U64 :
            T[<<a, b>>] = Cat(Le(a, LeLen), VarU64(b))
      /\ \A v \in DOMAIN T : \E a \in Fixed(LeLen), b \in U64 : v = <<a, b>>
  BY <1>d1, <1>d2, TwoTuples
<1>2. DOMAIN RefCode = PackRef /\ \A x \in PackRef : RefCode[x] = RefBytes(x)
  BY DEF RefCode
<1>3. DOMAIN RefOf = DOMAIN T /\ \A v \in DOMAIN T : RefOf[v] = [id |-> v[1], end_seq |-> v[2]]
  BY DEF RefOf, RefTuples
<1> HIDE DEF T
<1>4. Renames(RefOf, T, RefCode)
  <2>1. ASSUME NEW a \in Fixed(LeLen), NEW b \in U64
        PROVE  RefOf[<<a, b>>] \in PackRef /\ RefCode[RefOf[<<a, b>>]] = T[<<a, b>>]
    <3>1. PICK x : x = [id |-> a, end_seq |-> b]
      OBVIOUS
    <3>2. RefOf[<<a, b>>] = x
      <4>1. <<a, b>> \in DOMAIN T
        BY <1>1
      <4>2. RefOf[<<a, b>>] = [id |-> a, end_seq |-> b]
        BY <1>3, <4>1
      <4> QED
        BY <3>1, <4>2
    <3>3. x \in PackRef
      BY <3>1 DEF PackRef
    <3>4. RefBytes(x) = Cat(Le(a, LeLen), VarU64(b))
      <4>1. x.id = a /\ x.end_seq = b
        BY <3>1
      <4>2. RefBytes(x) = Cat(Le(x.id, LeLen), VarU64(x.end_seq))
        BY DEF RefBytes, Cat
      <4> QED
        BY <4>1, <4>2
    <3>5. T[<<a, b>>] = Cat(Le(a, LeLen), VarU64(b))
      BY <1>1
    <3> QED
      BY <1>2, <3>2, <3>3, <3>4, <3>5
  <2>2. ASSUME NEW x \in PackRef PROVE \E v \in DOMAIN T : RefOf[v] = x
    <3>1. x.id \in Fixed(LeLen) /\ x.end_seq \in U64
      BY DEF PackRef
    <3>2. x = [id |-> x.id, end_seq |-> x.end_seq]
      BY DEF PackRef
    <3>3. PICK v : v = <<x.id, x.end_seq>>
      OBVIOUS
    <3>4. v \in DOMAIN T
      BY <1>1, <3>1, <3>3
    <3>5. RefOf[v] = [id |-> v[1], end_seq |-> v[2]]
      BY <1>3, <3>4
    <3>6. v[1] = x.id /\ v[2] = x.end_seq
      BY <3>3
    <3> QED
      BY <3>2, <3>4, <3>5, <3>6
  <2>3. ASSUME NEW v \in DOMAIN T PROVE RefOf[v] \in PackRef /\ RefCode[RefOf[v]] = T[v]
    <3>1. PICK a \in Fixed(LeLen), b \in U64 : v = <<a, b>>
      BY <1>1
    <3> QED
      BY <2>1, <3>1
  <2> QED
    BY <1>2, <2>2, <2>3 DEF Renames
<1>5. IsCode(RefCode) /\ NoneEmpty(RefCode)
  BY <1>4, <1>t2, <1>n2, RenamesCode DEF T
<1> QED
  BY <1>2, <1>4, <1>5 DEF T, RefTuples

\* The reader of PackRef.
LEMMA RefParsed ==
    ASSUME NEW r, r.ok, r.rest \in Str
    PROVE  Parsed(ReadRef(r), RefCode, r.rest)
<1>c. IsCode(LeCode(LeLen)) /\ IsCode(VarCode)
  BY CodesOfNumbers, IdCodeIs
<1>t1. IsCode(One(LeCode(LeLen)))
  BY <1>c, OneIs
<1>t2. IsCode(Two(LeCode(LeLen), VarCode))
           /\ Appends(One(LeCode(LeLen)), VarCode, Two(LeCode(LeLen), VarCode))
  BY <1>c, <1>t1, TwoIs
<1>p1. PICK n1, o1 : n1 = ReadId(r) /\ o1 = First(n1)
  OBVIOUS
<1>q1. Parsed(n1, LeCode(LeLen), r.rest)
  BY <1>p1, ReadIdParsed
<1>r1. Parsed(o1, One(LeCode(LeLen)), r.rest)
  BY <1>p1, <1>q1, FirstParsed
<1>p2. PICK n2, o2 : n2 = ReadVar(o1) /\ o2 = Behind(o1, n2)
  OBVIOUS
<1>q2. o1.ok => Parsed(n2, VarCode, o1.rest)
  <2>1. o1.ok => o1.rest \in Str
    BY <1>r1, ParsedIs
  <2> QED
    BY <1>p2, <2>1, ReadVarParsed
<1>r2. Parsed(o2, Two(LeCode(LeLen), VarCode), r.rest)
  BY <1>c, <1>t1, <1>t2, <1>p2, <1>q2, <1>r1, BehindParsed
<1>1. ReadRef(r) = IF o2.ok THEN Good([id |-> o2.val[1], end_seq |-> o2.val[2]], o2.rest) ELSE Failed
  BY <1>p1, <1>p2 DEF ReadRef, ReadNext, ReadFirst, Into
<1>2. o2.ok => RefOf[o2.val] = [id |-> o2.val[1], end_seq |-> o2.val[2]]
  <2>1. o2.ok => o2.val \in DOMAIN RefTuples
    BY <1>r2, ParsedIs DEF RefTuples
  <2> QED
    BY <2>1 DEF RefOf
<1>3. /\ ~o2.ok => ReadRef(r) = Failed
      /\ o2.ok => ReadRef(r) = Good(RefOf[o2.val], o2.rest)
  BY <1>1, <1>2
<1>4. Renames(RefOf, Two(LeCode(LeLen), VarCode), RefCode)
  BY RefIs DEF RefTuples
<1> QED
  BY <1>3, <1>4, <1>r2, IntoParsed

FileIdCode == [x \in PackFileId |-> FileIdBytes(x)]
FileIdTuples == Three(RangeCode, LeCode(LeLen), VarCode)
FileIdOf == [v \in DOMAIN FileIdTuples |-> [seqs |-> v[1], id |-> v[2], generation |-> v[3]]]

\* The code of PackFileId.
LEMMA FileIdIs ==
    /\ DOMAIN FileIdCode = PackFileId /\ \A x \in PackFileId : FileIdCode[x] = FileIdBytes(x)
    /\ IsCode(FileIdCode) /\ NoneEmpty(FileIdCode)
    /\ Renames(FileIdOf, FileIdTuples, FileIdCode)
<1> DEFINE T == Three(RangeCode, LeCode(LeLen), VarCode)
<1>c. IsCode(RangeCode) /\ IsCode(LeCode(LeLen)) /\ IsCode(VarCode)
  BY CodesOfNumbers, IdCodeIs, RangeCodeIs
<1>t1. IsCode(One(RangeCode))
  BY <1>c, OneIs
<1>t2. IsCode(Two(RangeCode, LeCode(LeLen)))
           /\ Appends(One(RangeCode), LeCode(LeLen), Two(RangeCode, LeCode(LeLen)))
  BY <1>c, <1>t1, TwoIs
<1>t3. IsCode(Three(RangeCode, LeCode(LeLen), VarCode))
           /\ Appends(Two(RangeCode, LeCode(LeLen)), VarCode, Three(RangeCode, LeCode(LeLen), VarCode))
  BY <1>c, <1>t2, ThreeIs
<1>n1. NoneEmpty(One(RangeCode))
  <2>1. NoneEmpty(RangeCode)
    BY RangeCodeIs
  <2> QED
    BY <2>1, OneNoneEmpty
<1>n2. NoneEmpty(Two(RangeCode, LeCode(LeLen)))
  BY <1>c, <1>t1, <1>t2, <1>n1, AppendsNoneEmpty
<1>n3. NoneEmpty(Three(RangeCode, LeCode(LeLen), VarCode))
  BY <1>c, <1>t2, <1>t3, <1>n2, AppendsNoneEmpty
<1>d1. DOMAIN RangeCode = Range64 /\ \A y \in Range64 : RangeCode[y] = RangeBytes(y)
  BY CodesAre
<1>d2. DOMAIN LeCode(LeLen) = Fixed(LeLen) /\ \A y \in Fixed(LeLen) : LeCode(LeLen)[y] = Le(y, LeLen)
  BY LeCodeIs
<1>d3. DOMAIN VarCode = U64 /\ \A y \in U64 : VarCode[y] = VarU64(y)
  BY CodesAre
<1>1. /\ \A a \in Range64, b \in Fixed(LeLen), c \in U64 :
            <<a, b, c>> \in DOMAIN T
      /\ \A a \in Range64, b \in Fixed(LeLen), c \in U64 :
            T[<<a, b, c>>] = Cat(Cat(RangeBytes(a), Le(b, LeLen)), VarU64(c))
      /\ \A v \in DOMAIN T : \E a \in Range64, b \in Fixed(LeLen), c \in U64 : v = <<a, b, c>>
  BY <1>d1, <1>d2, <1>d3, ThreeTuples
<1>2. DOMAIN FileIdCode = PackFileId /\ \A x \in PackFileId : FileIdCode[x] = FileIdBytes(x)
  BY DEF FileIdCode
<1>3. DOMAIN FileIdOf = DOMAIN T
          /\ \A v \in DOMAIN T : FileIdOf[v] = [seqs |-> v[1], id |-> v[2], generation |-> v[3]]
  BY DEF FileIdOf, FileIdTuples
<1> HIDE DEF T
<1>4. Renames(FileIdOf, T, FileIdCode)
  <2>1. ASSUME NEW a \in Range64, NEW b \in Fixed(LeLen), NEW c \in U64
        PROVE  FileIdOf[<<a, b, c>>] \in PackFileId
                   /\ FileIdCode[FileIdOf[<<a, b, c>>]] = T[<<a, b, c>>]
    <3>1. PICK x : x = [seqs |-> a, id |-> b, generation |-> c]
      OBVIOUS
    <3>2. FileIdOf[<<a, b, c>>] = x
      <4>1. <<a, b, c>> \in DOMAIN T
        BY <1>1
      <4>2. FileIdOf[<<a, b, c>>] = [seqs |-> a, id |-> b, generation |-> c]
        BY <1>3, <4>1
      <4> QED
        BY <3>1, <4>2
    <3>3. x \in PackFileId
      BY <3>1 DEF PackFileId
    <3>4. FileIdBytes(x) = Cat(Cat(RangeBytes(a), Le(b, LeLen)), VarU64(c))
      <4>1. x.seqs = a /\ x.id = b /\ x.generation = c
        BY <3>1
      <4>2. FileIdBytes(x) = Cat(Cat(RangeBytes(x.seqs), Le(x.id, LeLen)), VarU64(x.generation))
        BY DEF FileIdBytes, Cat
      <4> QED
        BY <4>1, <4>2
    <3>5. T[<<a, b, c>>] = Cat(Cat(RangeBytes(a), Le(b, LeLen)), VarU64(c))
      BY <1>1
    <3> QED
      BY <1>2, <3>2, <3>3, <3>4, <3>5
  <2>2. ASSUME NEW x \in PackFileId PROVE \E v \in DOMAIN T : FileIdOf[v] = x
    <3>1. x.seqs \in Range64 /\ x.id \in Fixed(LeLen) /\ x.generation \in U64
      BY DEF PackFileId
    <3>2. x = [seqs |-> x.seqs, id |-> x.id, generation |-> x.generation]
      BY DEF PackFileId
    <3>3. PICK v : v = <<x.seqs, x.id, x.generation>>
      OBVIOUS
    <3>4. v \in DOMAIN T
      BY <1>1, <3>1, <3>3
    <3>5. FileIdOf[v] = [seqs |-> v[1], id |-> v[2], generation |-> v[3]]
      BY <1>3, <3>4
    <3>6. v[1] = x.seqs /\ v[2] = x.id /\ v[3] = x.generation
      BY <3>3
    <3> QED
      BY <3>2, <3>4, <3>5, <3>6
  <2>3. ASSUME NEW v \in DOMAIN T PROVE FileIdOf[v] \in PackFileId /\ FileIdCode[FileIdOf[v]] = T[v]
    <3>1. PICK a \in Range64, b \in Fixed(LeLen), c \in U64 : v = <<a, b, c>>
      BY <1>1
    <3> QED
      BY <2>1, <3>1
  <2> QED
    BY <1>2, <2>2, <2>3 DEF Renames
<1>5. IsCode(FileIdCode) /\ NoneEmpty(FileIdCode)
  BY <1>4, <1>t3, <1>n3, RenamesCode DEF T
<1> QED
  BY <1>2, <1>4, <1>5 DEF T, FileIdTuples

\* The reader of PackFileId.
LEMMA FileIdParsed ==
    ASSUME NEW r, r.ok, r.rest \in Str
    PROVE  Parsed(ReadFileId(r), FileIdCode, r.rest)
<1>c. IsCode(RangeCode) /\ IsCode(LeCode(LeLen)) /\ IsCode(VarCode)
  BY CodesOfNumbers, IdCodeIs, RangeCodeIs
<1>t1. IsCode(One(RangeCode))
  BY <1>c, OneIs
<1>t2. IsCode(Two(RangeCode, LeCode(LeLen)))
           /\ Appends(One(RangeCode), LeCode(LeLen), Two(RangeCode, LeCode(LeLen)))
  BY <1>c, <1>t1, TwoIs
<1>t3. IsCode(Three(RangeCode, LeCode(LeLen), VarCode))
           /\ Appends(Two(RangeCode, LeCode(LeLen)), VarCode, Three(RangeCode, LeCode(LeLen), VarCode))
  BY <1>c, <1>t2, ThreeIs
<1>p1. PICK n1, o1 : n1 = ReadRange(r) /\ o1 = First(n1)
  OBVIOUS
<1>q1. Parsed(n1, RangeCode, r.rest)
  BY <1>p1, ReadRangeParsed
<1>r1. Parsed(o1, One(RangeCode), r.rest)
  BY <1>p1, <1>q1, FirstParsed
<1>p2. PICK n2, o2 : n2 = ReadId(o1) /\ o2 = Behind(o1, n2)
  OBVIOUS
<1>q2. o1.ok => Parsed(n2, LeCode(LeLen), o1.rest)
  <2>1. o1.ok => o1.rest \in Str
    BY <1>r1, ParsedIs
  <2> QED
    BY <1>p2, <2>1, ReadIdParsed
<1>r2. Parsed(o2, Two(RangeCode, LeCode(LeLen)), r.rest)
  BY <1>c, <1>t1, <1>t2, <1>p2, <1>q2, <1>r1, BehindParsed
<1>p3. PICK n3, o3 : n3 = ReadVar(o2) /\ o3 = Behind(o2, n3)
  OBVIOUS
<1>q3. o2.ok => Parsed(n3, VarCode, o2.rest)
  <2>1. o2.ok => o2.rest \in Str
    BY <1>r2, ParsedIs
  <2> QED
    BY <1>p3, <2>1, ReadVarParsed
<1>r3. Parsed(o3, Three(RangeCode, LeCode(LeLen), VarCode), r.rest)
  BY <1>c, <1>t2, <1>t3, <1>p3, <1>q3, <1>r2, BehindParsed
<1>1. ReadFileId(r) = IF o3.ok
          THEN Good([seqs |-> o3.val[1], id |-> o3.val[2], generation |-> o3.val[3]], o3.rest)
          ELSE Failed
  BY <1>p1, <1>p2, <1>p3 DEF ReadFileId, ReadNext, ReadFirst, Into
<1>2. o3.ok => FileIdOf[o3.val] = [seqs |-> o3.val[1], id |-> o3.val[2], generation |-> o3.val[3]]
  <2>1. o3.ok => o3.val \in DOMAIN FileIdTuples
    BY <1>r3, ParsedIs DEF FileIdTuples
  <2> QED
    BY <2>1 DEF FileIdOf
<1>3. /\ ~o3.ok => ReadFileId(r) = Failed
      /\ o3.ok => ReadFileId(r) = Good(FileIdOf[o3.val], o3.rest)
  BY <1>1, <1>2
<1>4. Renames(FileIdOf, Three(RangeCode, LeCode(LeLen), VarCode), FileIdCode)
  BY FileIdIs DEF FileIdTuples
<1> QED
  BY <1>3, <1>4, <1>r3, IntoParsed

DescriptorCode == [x \in SegmentDescriptor |-> DescriptorBytes(x)]
DescriptorTuples == Five(ArrayCode, RangeCode, ArrayCode, ArrayCode, RangeCode)
DescriptorOf == [v \in DOMAIN DescriptorTuples |->
    [container |-> v[1], idx |-> v[2], prev |-> v[3], end |-> v[4], loc |-> v[5]]]

\* The code of SegmentDescriptor.
LEMMA DescriptorIs ==
    /\ DOMAIN DescriptorCode = SegmentDescriptor /\ \A x \in SegmentDescriptor :
           DescriptorCode[x] = DescriptorBytes(x)
    /\ IsCode(DescriptorCode) /\ NoneEmpty(DescriptorCode)
    /\ Renames(DescriptorOf, DescriptorTuples, DescriptorCode)
<1> DEFINE T == Five(ArrayCode, RangeCode, ArrayCode, ArrayCode, RangeCode)
<1>c. IsCode(ArrayCode) /\ IsCode(RangeCode)
  BY CodesOfNumbers, RangeCodeIs
<1>t1. IsCode(One(ArrayCode))
  BY <1>c, OneIs
<1>t2. IsCode(Two(ArrayCode, RangeCode))
           /\ Appends(One(ArrayCode), RangeCode, Two(ArrayCode, RangeCode))
  BY <1>c, <1>t1, TwoIs
<1>t3. IsCode(Three(ArrayCode, RangeCode, ArrayCode))
           /\ Appends(Two(ArrayCode, RangeCode), ArrayCode, Three(ArrayCode, RangeCode, ArrayCode))
  BY <1>c, <1>t2, ThreeIs
<1>t4. IsCode(Four(ArrayCode, RangeCode, ArrayCode, ArrayCode))
           /\ Appends(Three(ArrayCode, RangeCode, ArrayCode), ArrayCode,
           Four(ArrayCode, RangeCode, ArrayCode, ArrayCode))
  BY <1>c, <1>t3, FourIs
<1>t5. IsCode(Five(ArrayCode, RangeCode, ArrayCode, ArrayCode, RangeCode))
           /\ Appends(Four(ArrayCode, RangeCode, ArrayCode, ArrayCode), RangeCode,
           Five(ArrayCode, RangeCode, ArrayCode, ArrayCode, RangeCode))
  BY <1>c, <1>t4, FiveIs
<1>n1. NoneEmpty(One(ArrayCode))
  <2>1. NoneEmpty(ArrayCode)
    BY NumbersNoneEmpty
  <2> QED
    BY <2>1, OneNoneEmpty
<1>n2. NoneEmpty(Two(ArrayCode, RangeCode))
  BY <1>c, <1>t1, <1>t2, <1>n1, AppendsNoneEmpty
<1>n3. NoneEmpty(Three(ArrayCode, RangeCode, ArrayCode))
  BY <1>c, <1>t2, <1>t3, <1>n2, AppendsNoneEmpty
<1>n4. NoneEmpty(Four(ArrayCode, RangeCode, ArrayCode, ArrayCode))
  BY <1>c, <1>t3, <1>t4, <1>n3, AppendsNoneEmpty
<1>n5. NoneEmpty(Five(ArrayCode, RangeCode, ArrayCode, ArrayCode, RangeCode))
  BY <1>c, <1>t4, <1>t5, <1>n4, AppendsNoneEmpty
<1>d1. DOMAIN ArrayCode = Array /\ \A y \in Array : ArrayCode[y] = y
  BY CodesAre
<1>d2. DOMAIN RangeCode = Range64 /\ \A y \in Range64 : RangeCode[y] = RangeBytes(y)
  BY CodesAre
<1>d3. DOMAIN ArrayCode = Array /\ \A y \in Array : ArrayCode[y] = y
  BY CodesAre
<1>d4. DOMAIN ArrayCode = Array /\ \A y \in Array : ArrayCode[y] = y
  BY CodesAre
<1>d5. DOMAIN RangeCode = Range64 /\ \A y \in Range64 : RangeCode[y] = RangeBytes(y)
  BY CodesAre
<1>1. /\ \A a \in Array, b \in Range64, c \in Array, d \in Array, e \in Range64 :
            <<a, b, c, d, e>> \in DOMAIN T
      /\ \A a \in Array, b \in Range64, c \in Array, d \in Array, e \in Range64 :
            T[<<a, b, c, d, e>>] = Cat(Cat(Cat(Cat(a, RangeBytes(b)), c), d), RangeBytes(e))
      /\ \A v \in DOMAIN T : \E a \in Array, b \in Range64, c \in Array, d \in Array,
             e \in Range64 : v = <<a, b, c, d, e>>
  BY <1>d1, <1>d2, <1>d3, <1>d4, <1>d5, FiveTuples
<1>2. DOMAIN DescriptorCode = SegmentDescriptor /\ \A x \in SegmentDescriptor :
          DescriptorCode[x] = DescriptorBytes(x)
  BY DEF DescriptorCode
<1>3. DOMAIN DescriptorOf = DOMAIN T
          /\ \A v \in DOMAIN T : DescriptorOf[v]
          = [container |-> v[1], idx |-> v[2], prev |-> v[3], end |-> v[4], loc |-> v[5]]
  BY DEF DescriptorOf, DescriptorTuples
<1> HIDE DEF T
<1>4. Renames(DescriptorOf, T, DescriptorCode)
  <2>1. ASSUME NEW a \in Array, NEW b \in Range64, NEW c \in Array, NEW d \in Array, NEW e \in Range64
        PROVE  DescriptorOf[<<a, b, c, d, e>>] \in SegmentDescriptor
                   /\ DescriptorCode[DescriptorOf[<<a, b, c, d, e>>]] = T[<<a, b, c, d, e>>]
    <3>1. PICK x : x = [container |-> a, idx |-> b, prev |-> c, end |-> d, loc |-> e]
      OBVIOUS
    <3>2. DescriptorOf[<<a, b, c, d, e>>] = x
      <4>1. <<a, b, c, d, e>> \in DOMAIN T
        BY <1>1
      <4>2. DescriptorOf[<<a, b, c, d, e>>]
                = [container |-> a, idx |-> b, prev |-> c, end |-> d, loc |-> e]
        BY <1>3, <4>1
      <4> QED
        BY <3>1, <4>2
    <3>3. x \in SegmentDescriptor
      BY <3>1 DEF SegmentDescriptor
    <3>4. DescriptorBytes(x) = Cat(Cat(Cat(Cat(a, RangeBytes(b)), c), d), RangeBytes(e))
      <4>1. x.container = a /\ x.idx = b /\ x.prev = c /\ x.end = d /\ x.loc = e
        BY <3>1
      <4>2. DescriptorBytes(x)
                = Cat(Cat(Cat(Cat(x.container, RangeBytes(x.idx)), x.prev), x.end), RangeBytes(x.loc))
        BY DEF DescriptorBytes, Cat
      <4> QED
        BY <4>1, <4>2
    <3>5. T[<<a, b, c, d, e>>] = Cat(Cat(Cat(Cat(a, RangeBytes(b)), c), d), RangeBytes(e))
      BY <1>1
    <3> QED
      BY <1>2, <3>2, <3>3, <3>4, <3>5
  <2>2. ASSUME NEW x \in SegmentDescriptor PROVE \E v \in DOMAIN T : DescriptorOf[v] = x
    <3>1. x.container \in Array /\ x.idx \in Range64 /\ x.prev \in Array /\ x.end \in Array
              /\ x.loc \in Range64
      BY DEF SegmentDescriptor
    <3>2. x = [container |-> x.container, idx |-> x.idx, prev |-> x.prev, end |-> x.end, loc |-> x.loc]
      BY DEF SegmentDescriptor
    <3>3. PICK v : v = <<x.container, x.idx, x.prev, x.end, x.loc>>
      OBVIOUS
    <3>4. v \in DOMAIN T
      BY <1>1, <3>1, <3>3
    <3>5. DescriptorOf[v] = [container |-> v[1], idx |-> v[2], prev |-> v[3], end |-> v[4],
              loc |-> v[5]]
      BY <1>3, <3>4
    <3>6. v[1] = x.container /\ v[2] = x.idx /\ v[3] = x.prev /\ v[4] = x.end /\ v[5] = x.loc
      BY <3>3
    <3> QED
      BY <3>2, <3>4, <3>5, <3>6
  <2>3. ASSUME NEW v \in DOMAIN T
                   PROVE DescriptorOf[v] \in SegmentDescriptor /\ DescriptorCode[DescriptorOf[v]] = T[v]
    <3>1. PICK a \in Array, b \in Range64, c \in Array, d \in Array, e \in Range64 :
                   v = <<a, b, c, d, e>>
      BY <1>1
    <3> QED
      BY <2>1, <3>1
  <2> QED
    BY <1>2, <2>2, <2>3 DEF Renames
<1>5. IsCode(DescriptorCode) /\ NoneEmpty(DescriptorCode)
  BY <1>4, <1>t5, <1>n5, RenamesCode DEF T
<1> QED
  BY <1>2, <1>4, <1>5 DEF T, DescriptorTuples

\* The reader of SegmentDescriptor.
LEMMA DescriptorParsed ==
    ASSUME NEW r, r.ok, r.rest \in Str
    PROVE  Parsed(ReadDescriptor(r), DescriptorCode, r.rest)
<1>c. IsCode(ArrayCode) /\ IsCode(RangeCode)
  BY CodesOfNumbers, RangeCodeIs
<1>t1. IsCode(One(ArrayCode))
  BY <1>c, OneIs
<1>t2. IsCode(Two(ArrayCode, RangeCode))
           /\ Appends(One(ArrayCode), RangeCode, Two(ArrayCode, RangeCode))
  BY <1>c, <1>t1, TwoIs
<1>t3. IsCode(Three(ArrayCode, RangeCode, ArrayCode))
           /\ Appends(Two(ArrayCode, RangeCode), ArrayCode, Three(ArrayCode, RangeCode, ArrayCode))
  BY <1>c, <1>t2, ThreeIs
<1>t4. IsCode(Four(ArrayCode, RangeCode, ArrayCode, ArrayCode))
           /\ Appends(Three(ArrayCode, RangeCode, ArrayCode), ArrayCode,
           Four(ArrayCode, RangeCode, ArrayCode, ArrayCode))
  BY <1>c, <1>t3, FourIs
<1>t5. IsCode(Five(ArrayCode, RangeCode, ArrayCode, ArrayCode, RangeCode))
           /\ Appends(Four(ArrayCode, RangeCode, ArrayCode, ArrayCode), RangeCode,
           Five(ArrayCode, RangeCode, ArrayCode, ArrayCode, RangeCode))
  BY <1>c, <1>t4, FiveIs
<1>p1. PICK n1, o1 : n1 = ReadArray(r) /\ o1 = First(n1)
  OBVIOUS
<1>q1. Parsed(n1, ArrayCode, r.rest)
  BY <1>p1, ReadArrayParsed
<1>r1. Parsed(o1, One(ArrayCode), r.rest)
  BY <1>p1, <1>q1, FirstParsed
<1>p2. PICK n2, o2 : n2 = ReadRange(o1) /\ o2 = Behind(o1, n2)
  OBVIOUS
<1>q2. o1.ok => Parsed(n2, RangeCode, o1.rest)
  <2>1. o1.ok => o1.rest \in Str
    BY <1>r1, ParsedIs
  <2> QED
    BY <1>p2, <2>1, ReadRangeParsed
<1>r2. Parsed(o2, Two(ArrayCode, RangeCode), r.rest)
  BY <1>c, <1>t1, <1>t2, <1>p2, <1>q2, <1>r1, BehindParsed
<1>p3. PICK n3, o3 : n3 = ReadArray(o2) /\ o3 = Behind(o2, n3)
  OBVIOUS
<1>q3. o2.ok => Parsed(n3, ArrayCode, o2.rest)
  <2>1. o2.ok => o2.rest \in Str
    BY <1>r2, ParsedIs
  <2> QED
    BY <1>p3, <2>1, ReadArrayParsed
<1>r3. Parsed(o3, Three(ArrayCode, RangeCode, ArrayCode), r.rest)
  BY <1>c, <1>t2, <1>t3, <1>p3, <1>q3, <1>r2, BehindParsed
<1>p4. PICK n4, o4 : n4 = ReadArray(o3) /\ o4 = Behind(o3, n4)
  OBVIOUS
<1>q4. o3.ok => Parsed(n4, ArrayCode, o3.rest)
  <2>1. o3.ok => o3.rest \in Str
    BY <1>r3, ParsedIs
  <2> QED
    BY <1>p4, <2>1, ReadArrayParsed
<1>r4. Parsed(o4, Four(ArrayCode, RangeCode, ArrayCode, ArrayCode), r.rest)
  BY <1>c, <1>t3, <1>t4, <1>p4, <1>q4, <1>r3, BehindParsed
<1>p5. PICK n5, o5 : n5 = ReadRange(o4) /\ o5 = Behind(o4, n5)
  OBVIOUS
<1>q5. o4.ok => Parsed(n5, RangeCode, o4.rest)
  <2>1. o4.ok => o4.rest \in Str
    BY <1>r4, ParsedIs
  <2> QED
    BY <1>p5, <2>1, ReadRangeParsed
<1>r5. Parsed(o5, Five(ArrayCode, RangeCode, ArrayCode, ArrayCode, RangeCode), r.rest)
  BY <1>c, <1>t4, <1>t5, <1>p5, <1>q5, <1>r4, BehindParsed
<1>1. ReadDescriptor(r) = IF o5.ok
          THEN Good([container |-> o5.val[1], idx |-> o5.val[2], prev |-> o5.val[3],
          end |-> o5.val[4], loc |-> o5.val[5]], o5.rest) ELSE Failed
  BY <1>p1, <1>p2, <1>p3, <1>p4, <1>p5 DEF ReadDescriptor, ReadNext, ReadFirst, Into
<1>2. o5.ok => DescriptorOf[o5.val]
          = [container |-> o5.val[1], idx |-> o5.val[2], prev |-> o5.val[3], end |-> o5.val[4],
          loc |-> o5.val[5]]
  <2>1. o5.ok => o5.val \in DOMAIN DescriptorTuples
    BY <1>r5, ParsedIs DEF DescriptorTuples
  <2> QED
    BY <2>1 DEF DescriptorOf
<1>3. /\ ~o5.ok => ReadDescriptor(r) = Failed
      /\ o5.ok => ReadDescriptor(r) = Good(DescriptorOf[o5.val], o5.rest)
  BY <1>1, <1>2
<1>4. Renames(DescriptorOf, Five(ArrayCode, RangeCode, ArrayCode, ArrayCode, RangeCode), DescriptorCode)
  BY DescriptorIs DEF DescriptorTuples
<1> QED
  BY <1>3, <1>4, <1>r5, IntoParsed

MaybeCipherBytes(x) == OptionBytes(x, CipherBytes)

\* The code of the cipher that may be given.
LEMMA MaybeCipherIs ==
    /\ DOMAIN OptionCode(CipherCode) = Option(CipherInfo)
    /\ \A x \in Option(CipherInfo) : OptionCode(CipherCode)[x] = MaybeCipherBytes(x)
    /\ IsCode(OptionCode(CipherCode)) /\ NoneEmpty(OptionCode(CipherCode))
<1>1. /\ IsCode(CipherCode) /\ DOMAIN CipherCode = CipherInfo
      /\ \A x \in CipherInfo : CipherCode[x] = CipherBytes(x)
  BY CipherIs
<1>2. /\ IsCode(OptionCode(CipherCode)) /\ NoneEmpty(OptionCode(CipherCode))
      /\ DOMAIN OptionCode(CipherCode) = Option(CipherInfo) /\ OptionCode(CipherCode)[<<>>] = <<0>>
      /\ \A x \in CipherInfo : OptionCode(CipherCode)[<<x>>] = <<1>> \o CipherCode[x]
  BY <1>1, OptionCodeIs
<1>3. ASSUME NEW x \in Option(CipherInfo) PROVE OptionCode(CipherCode)[x] = MaybeCipherBytes(x)
  <2>1. CASE x = <<>>
    BY <1>2, <2>1 DEF MaybeCipherBytes, OptionBytes
  <2>2. CASE x # <<>>
    <3>1. x[1] \in CipherInfo /\ x = <<x[1]>>
      BY <2>2, OptionsAre
    <3>2. MaybeCipherBytes(x) = <<1>> \o CipherBytes(x[1])
      BY <2>2 DEF MaybeCipherBytes, OptionBytes
    <3>3. OptionCode(CipherCode)[x] = <<1>> \o CipherCode[x[1]]
      BY <1>2, <3>1
    <3> QED
      BY <1>1, <3>1, <3>2, <3>3
  <2> QED
    BY <2>1, <2>2
<1> QED
  BY <1>2, <1>3

\* The reader of the cipher that may be given.
LEMMA ReadMaybeCipherParsed ==
    ASSUME NEW r, r.ok, r.rest \in Str
    PROVE  Parsed(ReadMaybeCipher(r), OptionCode(CipherCode), r.rest)
<1>1. PICK tag, n, p : tag = ReadBit(r) /\ n = ReadCipher(tag) /\ p = ReadMaybeCipher(r)
  OBVIOUS
<1>2. Parsed(tag, FlagCode({0, 1}), r.rest)
  BY <1>1, ReadBitParsed
<1>3. p = IF Tagged(tag, 0) THEN (IF tag.ok THEN Good(<<>>, tag.rest) ELSE Failed)
          ELSE (IF tag.ok THEN First(n) ELSE Failed)
  BY <1>1 DEF ReadMaybeCipher, ReadOption, OptionOf, Into, ReadFirst
<1>4. tag.ok => tag.rest \in Str
  BY <1>2, ParsedIs
<1>5. Tagged(tag, 1) => Parsed(n, CipherCode, tag.rest)
  BY <1>1, <1>4, CipherParsed DEF Tagged
<1>6. /\ ~tag.ok => p = Failed
      /\ Tagged(tag, 0) => p = Good(<<>>, tag.rest)
      /\ Tagged(tag, 1) => p = First(n)
  BY <1>3 DEF Tagged
<1>7. IsCode(CipherCode)
  BY CipherIs
<1>8. Parsed(p, OptionCode(CipherCode), r.rest)
  BY <1>2, <1>5, <1>6, <1>7, OptionParsed
<1> QED
  BY <1>1, <1>8

EncryptionCode == [x \in EncryptionInfo |-> EncryptionBytes(x)]
EncryptionTuples == Two(OptionCode(CipherCode), LenCode)
EncryptionOf == [v \in DOMAIN EncryptionTuples |-> [cipher |-> v[1], nonce |-> v[2]]]

\* The code of EncryptionInfo.
LEMMA EncryptionIs ==
    /\ DOMAIN EncryptionCode = EncryptionInfo /\ \A x \in EncryptionInfo :
           EncryptionCode[x] = EncryptionBytes(x)
    /\ IsCode(EncryptionCode) /\ NoneEmpty(EncryptionCode)
    /\ Renames(EncryptionOf, EncryptionTuples, EncryptionCode)
<1> DEFINE T == Two(OptionCode(CipherCode), LenCode)
<1>c. IsCode(OptionCode(CipherCode)) /\ IsCode(LenCode)
  BY LenCodeIs, MaybeCipherIs
<1>t1. IsCode(One(OptionCode(CipherCode)))
  BY <1>c, OneIs
<1>t2. IsCode(Two(OptionCode(CipherCode), LenCode))
           /\ Appends(One(OptionCode(CipherCode)), LenCode, Two(OptionCode(CipherCode), LenCode))
  BY <1>c, <1>t1, TwoIs
<1>n1. NoneEmpty(One(OptionCode(CipherCode)))
  <2>1. NoneEmpty(OptionCode(CipherCode))
    BY MaybeCipherIs
  <2> QED
    BY <2>1, OneNoneEmpty
<1>n2. NoneEmpty(Two(OptionCode(CipherCode), LenCode))
  BY <1>c, <1>t1, <1>t2, <1>n1, AppendsNoneEmpty
<1>d1. DOMAIN OptionCode(CipherCode) = Option(CipherInfo) /\ \A y \in Option(CipherInfo) :
           OptionCode(CipherCode)[y] = MaybeCipherBytes(y)
  BY MaybeCipherIs
<1>d2. DOMAIN LenCode = ByteString /\ \A y \in ByteString : LenCode[y] = LenPrefixed(y)
  BY CodesAre
<1>1. /\ \A a \in Option(CipherInfo), b \in ByteString :
            <<a, b>> \in DOMAIN T
      /\ \A a \in Option(CipherInfo), b \in ByteString :
            T[<<a, b>>] = Cat(MaybeCipherBytes(a), LenPrefixed(b))
      /\ \A v \in DOMAIN T : \E a \in Option(CipherInfo), b \in ByteString : v = <<a, b>>
  BY <1>d1, <1>d2, TwoTuples
<1>2. DOMAIN EncryptionCode = EncryptionInfo /\ \A x \in EncryptionInfo :
          EncryptionCode[x] = EncryptionBytes(x)
  BY DEF EncryptionCode
<1>3. DOMAIN EncryptionOf = DOMAIN T
          /\ \A v \in DOMAIN T : EncryptionOf[v] = [cipher |-> v[1], nonce |-> v[2]]
  BY DEF EncryptionOf, EncryptionTuples
<1> HIDE DEF T
<1>4. Renames(EncryptionOf, T, EncryptionCode)
  <2>1. ASSUME NEW a \in Option(CipherInfo), NEW b \in ByteString
        PROVE  EncryptionOf[<<a, b>>] \in EncryptionInfo
                   /\ EncryptionCode[EncryptionOf[<<a, b>>]] = T[<<a, b>>]
    <3>1. PICK x : x = [cipher |-> a, nonce |-> b]
      OBVIOUS
    <3>2. EncryptionOf[<<a, b>>] = x
      <4>1. <<a, b>> \in DOMAIN T
        BY <1>1
      <4>2. EncryptionOf[<<a, b>>] = [cipher |-> a, nonce |-> b]
        BY <1>3, <4>1
      <4> QED
        BY <3>1, <4>2
    <3>3. x \in EncryptionInfo
      BY <3>1 DEF EncryptionInfo
    <3>4. EncryptionBytes(x) = Cat(MaybeCipherBytes(a), LenPrefixed(b))
      <4>1. x.cipher = a /\ x.nonce = b
        BY <3>1
      <4>2. EncryptionBytes(x) = Cat(MaybeCipherBytes(x.cipher), LenPrefixed(x.nonce))
        BY DEF EncryptionBytes, Cat, MaybeCipherBytes, OptionBytes
      <4> QED
        BY <4>1, <4>2
    <3>5. T[<<a, b>>] = Cat(MaybeCipherBytes(a), LenPrefixed(b))
      BY <1>1
    <3> QED
      BY <1>2, <3>2, <3>3, <3>4, <3>5
  <2>2. ASSUME NEW x \in EncryptionInfo PROVE \E v \in DOMAIN T : EncryptionOf[v] = x
    <3>1. x.cipher \in Option(CipherInfo) /\ x.nonce \in ByteString
      BY DEF EncryptionInfo
    <3>2. x = [cipher |-> x.cipher, nonce |-> x.nonce]
      BY DEF EncryptionInfo
    <3>3. PICK v : v = <<x.cipher, x.nonce>>
      OBVIOUS
    <3>4. v \in DOMAIN T
      BY <1>1, <3>1, <3>3
    <3>5. EncryptionOf[v] = [cipher |-> v[1], nonce |-> v[2]]
      BY <1>3, <3>4
    <3>6. v[1] = x.cipher /\ v[2] = x.nonce
      BY <3>3
    <3> QED
      BY <3>2, <3>4, <3>5, <3>6
  <2>3. ASSUME NEW v \in DOMAIN T
                   PROVE EncryptionOf[v] \in EncryptionInfo /\ EncryptionCode[EncryptionOf[v]] = T[v]
    <3>1. PICK a \in Option(CipherInfo), b \in ByteString : v = <<a, b>>
      BY <1>1
    <3> QED
      BY <2>1, <3>1
  <2> QED
    BY <1>2, <2>2, <2>3 DEF Renames
<1>5. IsCode(EncryptionCode) /\ NoneEmpty(EncryptionCode)
  BY <1>4, <1>t2, <1>n2, RenamesCode DEF T
<1> QED
  BY <1>2, <1>4, <1>5 DEF T, EncryptionTuples

\* The reader of EncryptionInfo.
LEMMA EncryptionParsed ==
    ASSUME NEW r, r.ok, r.rest \in Str
    PROVE  Parsed(ReadEncryption(r), EncryptionCode, r.rest)
<1>c. IsCode(OptionCode(CipherCode)) /\ IsCode(LenCode)
  BY LenCodeIs, MaybeCipherIs
<1>t1. IsCode(One(OptionCode(CipherCode)))
  BY <1>c, OneIs
<1>t2. IsCode(Two(OptionCode(CipherCode), LenCode))
           /\ Appends(One(OptionCode(CipherCode)), LenCode, Two(OptionCode(CipherCode), LenCode))
  BY <1>c, <1>t1, TwoIs
<1>p1. PICK n1, o1 : n1 = ReadMaybeCipher(r) /\ o1 = First(n1)
  OBVIOUS
<1>q1. Parsed(n1, OptionCode(CipherCode), r.rest)
  BY <1>p1, ReadMaybeCipherParsed
<1>r1. Parsed(o1, One(OptionCode(CipherCode)), r.rest)
  BY <1>p1, <1>q1, FirstParsed
<1>p2. PICK n2, o2 : n2 = ReadLenPrefixed(o1) /\ o2 = Behind(o1, n2)
  OBVIOUS
<1>q2. o1.ok => Parsed(n2, LenCode, o1.rest)
  <2>1. o1.ok => o1.rest \in Str
    BY <1>r1, ParsedIs
  <2> QED
    BY <1>p2, <2>1, ReadLenPrefixedParsed
<1>r2. Parsed(o2, Two(OptionCode(CipherCode), LenCode), r.rest)
  BY <1>c, <1>t1, <1>t2, <1>p2, <1>q2, <1>r1, BehindParsed
<1>1. ReadEncryption(r) = IF o2.ok
          THEN Good([cipher |-> o2.val[1], nonce |-> o2.val[2]], o2.rest) ELSE Failed
  BY <1>p1, <1>p2 DEF ReadEncryption, ReadNext, ReadFirst, Into
<1>2. o2.ok => EncryptionOf[o2.val] = [cipher |-> o2.val[1], nonce |-> o2.val[2]]
  <2>1. o2.ok => o2.val \in DOMAIN EncryptionTuples
    BY <1>r2, ParsedIs DEF EncryptionTuples
  <2> QED
    BY <2>1 DEF EncryptionOf
<1>3. /\ ~o2.ok => ReadEncryption(r) = Failed
      /\ o2.ok => ReadEncryption(r) = Good(EncryptionOf[o2.val], o2.rest)
  BY <1>1, <1>2
<1>4. Renames(EncryptionOf, Two(OptionCode(CipherCode), LenCode), EncryptionCode)
  BY EncryptionIs DEF EncryptionTuples
<1> QED
  BY <1>3, <1>4, <1>r2, IntoParsed

MaybeEncryptionBytes(x) == OptionBytes(x, EncryptionBytes)

\* The code of the encryption that may be given.
LEMMA MaybeEncryptionIs ==
    /\ DOMAIN OptionCode(EncryptionCode) = Option(EncryptionInfo)
    /\ \A x \in Option(EncryptionInfo) : OptionCode(EncryptionCode)[x] = MaybeEncryptionBytes(x)
    /\ IsCode(OptionCode(EncryptionCode)) /\ NoneEmpty(OptionCode(EncryptionCode))
<1>1. /\ IsCode(EncryptionCode) /\ DOMAIN EncryptionCode = EncryptionInfo
      /\ \A x \in EncryptionInfo : EncryptionCode[x] = EncryptionBytes(x)
  BY EncryptionIs
<1>2. /\ IsCode(OptionCode(EncryptionCode)) /\ NoneEmpty(OptionCode(EncryptionCode))
      /\ DOMAIN OptionCode(EncryptionCode) = Option(EncryptionInfo)
             /\ OptionCode(EncryptionCode)[<<>>] = <<0>>
      /\ \A x \in EncryptionInfo : OptionCode(EncryptionCode)[<<x>>] = <<1>> \o EncryptionCode[x]
  BY <1>1, OptionCodeIs
<1>3. ASSUME NEW x \in Option(EncryptionInfo)
                 PROVE OptionCode(EncryptionCode)[x] = MaybeEncryptionBytes(x)
  <2>1. CASE x = <<>>
    BY <1>2, <2>1 DEF MaybeEncryptionBytes, OptionBytes
  <2>2. CASE x # <<>>
    <3>1. x[1] \in EncryptionInfo /\ x = <<x[1]>>
      BY <2>2, OptionsAre
    <3>2. MaybeEncryptionBytes(x) = <<1>> \o EncryptionBytes(x[1])
      BY <2>2 DEF MaybeEncryptionBytes, OptionBytes
    <3>3. OptionCode(EncryptionCode)[x] = <<1>> \o EncryptionCode[x[1]]
      BY <1>2, <3>1
    <3> QED
      BY <1>1, <3>1, <3>2, <3>3
  <2> QED
    BY <2>1, <2>2
<1> QED
  BY <1>2, <1>3

\* The reader of the encryption that may be given.
LEMMA ReadMaybeEncryptionParsed ==
    ASSUME NEW r, r.ok, r.rest \in Str
    PROVE  Parsed(ReadMaybeEncryption(r), OptionCode(EncryptionCode), r.rest)
<1>1. PICK tag, n, p : tag = ReadBit(r) /\ n = ReadEncryption(tag) /\ p = ReadMaybeEncryption(r)
  OBVIOUS
<1>2. Parsed(tag, FlagCode({0, 1}), r.rest)
  BY <1>1, ReadBitParsed
<1>3. p = IF Tagged(tag, 0) THEN (IF tag.ok THEN Good(<<>>, tag.rest) ELSE Failed)
          ELSE (IF tag.ok THEN First(n) ELSE Failed)
  BY <1>1 DEF ReadMaybeEncryption, ReadOption, OptionOf, Into, ReadFirst
<1>4. tag.ok => tag.rest \in Str
  BY <1>2, ParsedIs
<1>5. Tagged(tag, 1) => Parsed(n, EncryptionCode, tag.rest)
  BY <1>1, <1>4, EncryptionParsed DEF Tagged
<1>6. /\ ~tag.ok => p = Failed
      /\ Tagged(tag, 0) => p = Good(<<>>, tag.rest)
      /\ Tagged(tag, 1) => p = First(n)
  BY <1>3 DEF Tagged
<1>7. IsCode(EncryptionCode)
  BY EncryptionIs
<1>8. Parsed(p, OptionCode(EncryptionCode), r.rest)
  BY <1>2, <1>5, <1>6, <1>7, OptionParsed
<1> QED
  BY <1>1, <1>8

RefsBytes(x) == VecBytes(x, RefBytes)

\* The code of the references of a pack.
LEMMA RefsAre ==
    /\ DOMAIN VecCode(RefCode) = Vec(PackRef)
    /\ \A x \in Vec(PackRef) : VecCode(RefCode)[x] = RefsBytes(x)
    /\ IsCode(VecCode(RefCode)) /\ NoneEmpty(VecCode(RefCode))
<1>1. /\ IsCode(RefCode) /\ DOMAIN RefCode = PackRef
      /\ \A x \in PackRef : RefCode[x] = RefBytes(x)
  BY RefIs
<1>2. /\ IsCode(VecCode(RefCode)) /\ NoneEmpty(VecCode(RefCode))
      /\ DOMAIN VecCode(RefCode) = Vec(PackRef)
  BY <1>1, VecCodeIsCode, VecCodeIs
<1>3. ASSUME NEW x \in Vec(PackRef) PROVE VecCode(RefCode)[x] = RefsBytes(x)
  <2>1. VecCode(RefCode)[x] = VarU64(Len(x)) \o FlattenSeq([i \in DOMAIN x |-> RefCode[x[i]]])
    BY <1>1 DEF VecCode, Cat
  <2>2. \A i \in DOMAIN x : RefCode[x[i]] = RefBytes(x[i])
    <3>1. \A i \in DOMAIN x : x[i] \in PackRef
      BY DEF Vec
    <3> QED
      BY <1>1, <3>1
  <2>3. [i \in DOMAIN x |-> RefCode[x[i]]] = [i \in DOMAIN x |-> RefBytes(x[i])]
    BY <2>2
  <2>4. RefsBytes(x) = VarU64(Len(x)) \o FlattenSeq([i \in DOMAIN x |-> RefBytes(x[i])])
    BY DEF RefsBytes, VecBytes, All
  <2> QED
    BY <2>1, <2>3, <2>4
<1> QED
  BY <1>2, <1>3

\* The reader of the references of a pack.
LEMMA ReadRefsParsed ==
    ASSUME NEW r, r.ok, r.rest \in Str
    PROVE  Parsed(ReadRefs(r), VecCode(RefCode), r.rest)
<1>1. PICK n, p : n = ReadVar(r) /\ p = ReadRefs(r)
  OBVIOUS
<1>2. Parsed(n, VarCode, r.rest)
  BY <1>1, ReadVarParsed
<1> DEFINE Solves(g) == g = [i \in 0 .. n.val |->
                IF i = 0 THEN (IF n.ok THEN Good(<<>>, n.rest) ELSE Failed)
                ELSE Behind(g[i - 1], ReadRef(g[i - 1]))]
           read == CHOOSE g : Solves(g)
           next == [k \in 1 .. n.val |-> ReadRef(read[k - 1])]
<1>3. p = IF n.ok /\ n.val <= Len(n.rest) THEN read[n.val] ELSE Failed
  BY <1>1 DEF ReadRefs, ReadVec, VecOf, Into, ReadNext
<1>4. /\ IsCode(RefCode) /\ NoneEmpty(RefCode) /\ DOMAIN RefCode = PackRef
  BY RefIs
<1>5. n.ok => ReadsOneByOne(read, next, Same(RefCode), n.rest, n.val)
  <2>1. SUFFICES ASSUME n.ok PROVE ReadsOneByOne(read, next, Same(RefCode), n.rest, n.val)
    OBVIOUS
  <2>2. n.val \in Nat /\ n.rest \in Str
    <3>1. n.val \in DOMAIN VarCode /\ n.rest \in Str
      BY <1>2, <2>1, ParsedIs
    <3>2. n.val \in U64
      BY <3>1 DEF VarCode
    <3> QED
      BY <3>1, <3>2, MaxU64Is DEF U64
  <2> DEFINE reads == [k \in 1 .. n.val |-> [o \in Outcomes(PackRef) |-> ReadRef(o)]]
             start == Good(<<>>, n.rest)
  <2>3. AreCodes(Same(RefCode), PackRef, n.val)
    BY <1>4, <2>2, SameIs
  <2>4. \A k \in 1 .. n.val : Same(RefCode)[k] = RefCode
    BY <2>2 DEF Same
  <2>5. start \in Outcomes(PackRef)
    <3>1. <<>> \in Seq(PackRef)
      OBVIOUS
    <3> QED
      BY <2>2, <3>1, OutcomesAre
  <2>6. \A k \in 1 .. n.val : \A o \in Outcomes(PackRef) : o.ok
            => Parsed(reads[k][o], Same(RefCode)[k], o.rest)
    <3>1. ASSUME NEW k \in 1 .. n.val, NEW o \in Outcomes(PackRef), o.ok
          PROVE  Parsed(reads[k][o], Same(RefCode)[k], o.rest)
      <4>1. reads[k][o] = ReadRef(o)
        OBVIOUS
      <4>2. o.rest \in Str
        BY <3>1, OutcomesAre
      <4>3. Parsed(ReadRef(o), RefCode, o.rest)
        BY <3>1, <4>2, RefParsed
      <4> QED
        BY <2>4, <4>1, <4>3
    <3> QED
      BY <3>1
  <2>7. PICK f : Runs(f, reads, PackRef, start, n.val)
    <3> HIDE DEF reads, start
    <3> QED
      BY <2>2, <2>3, <2>5, <2>6, RunsExist
  <2>8. /\ f \in [0 .. n.val -> Outcomes(PackRef)] /\ f[0] = start
        /\ \A k \in 1 .. n.val : f[k] = Behind(f[k - 1], reads[k][f[k - 1]])
    BY <2>7 DEF Runs
  <2>9. \A k \in 1 .. n.val : f[k] = Behind(f[k - 1], ReadRef(f[k - 1]))
    <3>1. ASSUME NEW k \in 1 .. n.val PROVE f[k] = Behind(f[k - 1], ReadRef(f[k - 1]))
      <4>1. f[k - 1] \in Outcomes(PackRef)
        BY <2>2, <2>8
      <4>2. reads[k][f[k - 1]] = ReadRef(f[k - 1])
        BY <4>1
      <4> QED
        BY <2>8, <4>2
    <3> QED
      BY <3>1
  <2>10. Solves(f)
    <3>1. \A i \in 0 .. n.val : i # 0 => i \in 1 .. n.val
      BY <2>2
    <3>2. \A i \in 0 .. n.val : f[i] = IF i = 0 THEN (IF n.ok THEN Good(<<>>, n.rest) ELSE Failed)
                                        ELSE Behind(f[i - 1], ReadRef(f[i - 1]))
      BY <2>1, <2>8, <2>9, <3>1
    <3>3. f = [i \in 0 .. n.val |-> f[i]]
      BY <2>8
    <3> QED
      BY <3>2, <3>3
  <2>11. Solves(read)
    <3> HIDE DEF Solves
    <3> QED
      BY <2>10
  <2> HIDE DEF read
  <2>12. read[0] = Good(<<>>, n.rest)
             /\ \A k \in 1 .. n.val : read[k] = Behind(read[k - 1], ReadRef(read[k - 1]))
    <3>1. 0 \in 0 .. n.val /\ \A k \in 1 .. n.val : k \in 0 .. n.val /\ k # 0
      BY <2>2
    <3> QED
      BY <2>1, <2>11, <3>1
  <2>13. ASSUME NEW k \in 1 .. n.val PROVE read[k] = Behind(read[k - 1], next[k])
    BY <2>12
  <2>14. ASSUME NEW k \in 1 .. n.val, read[k - 1].ok, read[k - 1].rest \in Str
         PROVE  Parsed(next[k], Same(RefCode)[k], read[k - 1].rest)
    <3>1. next[k] = ReadRef(read[k - 1])
      OBVIOUS
    <3>2. PICK q : q = read[k - 1]
      OBVIOUS
    <3>3. Parsed(ReadRef(q), RefCode, q.rest)
      BY <2>14, <3>2, RefParsed
    <3> QED
      BY <2>4, <3>1, <3>2, <3>3
  <2> HIDE DEF next
  <2> QED
    BY <2>12, <2>13, <2>14 DEF ReadsOneByOne
<1> HIDE DEF read, next
<1>6. Parsed(p, VecCode(RefCode), r.rest)
  <2>1. /\ ~n.ok => p = Failed
        /\ n.ok => p = IF n.val <= Len(n.rest) THEN read[n.val] ELSE Failed
    BY <1>3
  <2> QED
    BY <1>2, <1>4, <1>5, <2>1, VecParsed
<1> QED
  BY <1>1, <1>6

FileIdsBytes(x) == VecBytes(x, FileIdBytes)

\* The code of the pack files of a peer.
LEMMA FileIdsAre ==
    /\ DOMAIN VecCode(FileIdCode) = Vec(PackFileId)
    /\ \A x \in Vec(PackFileId) : VecCode(FileIdCode)[x] = FileIdsBytes(x)
    /\ IsCode(VecCode(FileIdCode)) /\ NoneEmpty(VecCode(FileIdCode))
<1>1. /\ IsCode(FileIdCode) /\ DOMAIN FileIdCode = PackFileId
      /\ \A x \in PackFileId : FileIdCode[x] = FileIdBytes(x)
  BY FileIdIs
<1>2. /\ IsCode(VecCode(FileIdCode)) /\ NoneEmpty(VecCode(FileIdCode))
      /\ DOMAIN VecCode(FileIdCode) = Vec(PackFileId)
  BY <1>1, VecCodeIsCode, VecCodeIs
<1>3. ASSUME NEW x \in Vec(PackFileId) PROVE VecCode(FileIdCode)[x] = FileIdsBytes(x)
  <2>1. VecCode(FileIdCode)[x] = VarU64(Len(x)) \o FlattenSeq([i \in DOMAIN x |-> FileIdCode[x[i]]])
    BY <1>1 DEF VecCode, Cat
  <2>2. \A i \in DOMAIN x : FileIdCode[x[i]] = FileIdBytes(x[i])
    <3>1. \A i \in DOMAIN x : x[i] \in PackFileId
      BY DEF Vec
    <3> QED
      BY <1>1, <3>1
  <2>3. [i \in DOMAIN x |-> FileIdCode[x[i]]] = [i \in DOMAIN x |-> FileIdBytes(x[i])]
    BY <2>2
  <2>4. FileIdsBytes(x) = VarU64(Len(x)) \o FlattenSeq([i \in DOMAIN x |-> FileIdBytes(x[i])])
    BY DEF FileIdsBytes, VecBytes, All
  <2> QED
    BY <2>1, <2>3, <2>4
<1> QED
  BY <1>2, <1>3

\* The reader of the pack files of a peer.
LEMMA ReadFileIdsParsed ==
    ASSUME NEW r, r.ok, r.rest \in Str
    PROVE  Parsed(ReadFileIds(r), VecCode(FileIdCode), r.rest)
<1>1. PICK n, p : n = ReadVar(r) /\ p = ReadFileIds(r)
  OBVIOUS
<1>2. Parsed(n, VarCode, r.rest)
  BY <1>1, ReadVarParsed
<1> DEFINE Solves(g) == g = [i \in 0 .. n.val |->
                IF i = 0 THEN (IF n.ok THEN Good(<<>>, n.rest) ELSE Failed)
                ELSE Behind(g[i - 1], ReadFileId(g[i - 1]))]
           read == CHOOSE g : Solves(g)
           next == [k \in 1 .. n.val |-> ReadFileId(read[k - 1])]
<1>3. p = IF n.ok /\ n.val <= Len(n.rest) THEN read[n.val] ELSE Failed
  BY <1>1 DEF ReadFileIds, ReadVec, VecOf, Into, ReadNext
<1>4. /\ IsCode(FileIdCode) /\ NoneEmpty(FileIdCode) /\ DOMAIN FileIdCode = PackFileId
  BY FileIdIs
<1>5. n.ok => ReadsOneByOne(read, next, Same(FileIdCode), n.rest, n.val)
  <2>1. SUFFICES ASSUME n.ok PROVE ReadsOneByOne(read, next, Same(FileIdCode), n.rest, n.val)
    OBVIOUS
  <2>2. n.val \in Nat /\ n.rest \in Str
    <3>1. n.val \in DOMAIN VarCode /\ n.rest \in Str
      BY <1>2, <2>1, ParsedIs
    <3>2. n.val \in U64
      BY <3>1 DEF VarCode
    <3> QED
      BY <3>1, <3>2, MaxU64Is DEF U64
  <2> DEFINE reads == [k \in 1 .. n.val |-> [o \in Outcomes(PackFileId) |-> ReadFileId(o)]]
             start == Good(<<>>, n.rest)
  <2>3. AreCodes(Same(FileIdCode), PackFileId, n.val)
    BY <1>4, <2>2, SameIs
  <2>4. \A k \in 1 .. n.val : Same(FileIdCode)[k] = FileIdCode
    BY <2>2 DEF Same
  <2>5. start \in Outcomes(PackFileId)
    <3>1. <<>> \in Seq(PackFileId)
      OBVIOUS
    <3> QED
      BY <2>2, <3>1, OutcomesAre
  <2>6. \A k \in 1 .. n.val : \A o \in Outcomes(PackFileId) : o.ok
            => Parsed(reads[k][o], Same(FileIdCode)[k], o.rest)
    <3>1. ASSUME NEW k \in 1 .. n.val, NEW o \in Outcomes(PackFileId), o.ok
          PROVE  Parsed(reads[k][o], Same(FileIdCode)[k], o.rest)
      <4>1. reads[k][o] = ReadFileId(o)
        OBVIOUS
      <4>2. o.rest \in Str
        BY <3>1, OutcomesAre
      <4>3. Parsed(ReadFileId(o), FileIdCode, o.rest)
        BY <3>1, <4>2, FileIdParsed
      <4> QED
        BY <2>4, <4>1, <4>3
    <3> QED
      BY <3>1
  <2>7. PICK f : Runs(f, reads, PackFileId, start, n.val)
    <3> HIDE DEF reads, start
    <3> QED
      BY <2>2, <2>3, <2>5, <2>6, RunsExist
  <2>8. /\ f \in [0 .. n.val -> Outcomes(PackFileId)] /\ f[0] = start
        /\ \A k \in 1 .. n.val : f[k] = Behind(f[k - 1], reads[k][f[k - 1]])
    BY <2>7 DEF Runs
  <2>9. \A k \in 1 .. n.val : f[k] = Behind(f[k - 1], ReadFileId(f[k - 1]))
    <3>1. ASSUME NEW k \in 1 .. n.val PROVE f[k] = Behind(f[k - 1], ReadFileId(f[k - 1]))
      <4>1. f[k - 1] \in Outcomes(PackFileId)
        BY <2>2, <2>8
      <4>2. reads[k][f[k - 1]] = ReadFileId(f[k - 1])
        BY <4>1
      <4> QED
        BY <2>8, <4>2
    <3> QED
      BY <3>1
  <2>10. Solves(f)
    <3>1. \A i \in 0 .. n.val : i # 0 => i \in 1 .. n.val
      BY <2>2
    <3>2. \A i \in 0 .. n.val : f[i] = IF i = 0 THEN (IF n.ok THEN Good(<<>>, n.rest) ELSE Failed)
                                        ELSE Behind(f[i - 1], ReadFileId(f[i - 1]))
      BY <2>1, <2>8, <2>9, <3>1
    <3>3. f = [i \in 0 .. n.val |-> f[i]]
      BY <2>8
    <3> QED
      BY <3>2, <3>3
  <2>11. Solves(read)
    <3> HIDE DEF Solves
    <3> QED
      BY <2>10
  <2> HIDE DEF read
  <2>12. read[0] = Good(<<>>, n.rest)
             /\ \A k \in 1 .. n.val : read[k] = Behind(read[k - 1], ReadFileId(read[k - 1]))
    <3>1. 0 \in 0 .. n.val /\ \A k \in 1 .. n.val : k \in 0 .. n.val /\ k # 0
      BY <2>2
    <3> QED
      BY <2>1, <2>11, <3>1
  <2>13. ASSUME NEW k \in 1 .. n.val PROVE read[k] = Behind(read[k - 1], next[k])
    BY <2>12
  <2>14. ASSUME NEW k \in 1 .. n.val, read[k - 1].ok, read[k - 1].rest \in Str
         PROVE  Parsed(next[k], Same(FileIdCode)[k], read[k - 1].rest)
    <3>1. next[k] = ReadFileId(read[k - 1])
      OBVIOUS
    <3>2. PICK q : q = read[k - 1]
      OBVIOUS
    <3>3. Parsed(ReadFileId(q), FileIdCode, q.rest)
      BY <2>14, <3>2, FileIdParsed
    <3> QED
      BY <2>4, <3>1, <3>2, <3>3
  <2> HIDE DEF next
  <2> QED
    BY <2>12, <2>13, <2>14 DEF ReadsOneByOne
<1> HIDE DEF read, next
<1>6. Parsed(p, VecCode(FileIdCode), r.rest)
  <2>1. /\ ~n.ok => p = Failed
        /\ n.ok => p = IF n.val <= Len(n.rest) THEN read[n.val] ELSE Failed
    BY <1>3
  <2> QED
    BY <1>2, <1>4, <1>5, <2>1, VecParsed
<1> QED
  BY <1>1, <1>6

DescriptorsBytes(x) == VecBytes(x, DescriptorBytes)

\* The code of the segments of a peer.
LEMMA DescriptorsAre ==
    /\ DOMAIN VecCode(DescriptorCode) = Vec(SegmentDescriptor)
    /\ \A x \in Vec(SegmentDescriptor) : VecCode(DescriptorCode)[x] = DescriptorsBytes(x)
    /\ IsCode(VecCode(DescriptorCode)) /\ NoneEmpty(VecCode(DescriptorCode))
<1>1. /\ IsCode(DescriptorCode) /\ DOMAIN DescriptorCode = SegmentDescriptor
      /\ \A x \in SegmentDescriptor : DescriptorCode[x] = DescriptorBytes(x)
  BY DescriptorIs
<1>2. /\ IsCode(VecCode(DescriptorCode)) /\ NoneEmpty(VecCode(DescriptorCode))
      /\ DOMAIN VecCode(DescriptorCode) = Vec(SegmentDescriptor)
  BY <1>1, VecCodeIsCode, VecCodeIs
<1>3. ASSUME NEW x \in Vec(SegmentDescriptor) PROVE VecCode(DescriptorCode)[x] = DescriptorsBytes(x)
  <2>1. VecCode(DescriptorCode)[x] = VarU64(Len(x))
            \o FlattenSeq([i \in DOMAIN x |-> DescriptorCode[x[i]]])
    BY <1>1 DEF VecCode, Cat
  <2>2. \A i \in DOMAIN x : DescriptorCode[x[i]] = DescriptorBytes(x[i])
    <3>1. \A i \in DOMAIN x : x[i] \in SegmentDescriptor
      BY DEF Vec
    <3> QED
      BY <1>1, <3>1
  <2>3. [i \in DOMAIN x |-> DescriptorCode[x[i]]] = [i \in DOMAIN x |-> DescriptorBytes(x[i])]
    BY <2>2
  <2>4. DescriptorsBytes(x) = VarU64(Len(x)) \o FlattenSeq([i \in DOMAIN x |-> DescriptorBytes(x[i])])
    BY DEF DescriptorsBytes, VecBytes, All
  <2> QED
    BY <2>1, <2>3, <2>4
<1> QED
  BY <1>2, <1>3

\* The reader of the segments of a peer.
LEMMA ReadDescriptorsParsed ==
    ASSUME NEW r, r.ok, r.rest \in Str
    PROVE  Parsed(ReadDescriptors(r), VecCode(DescriptorCode), r.rest)
<1>1. PICK n, p : n = ReadVar(r) /\ p = ReadDescriptors(r)
  OBVIOUS
<1>2. Parsed(n, VarCode, r.rest)
  BY <1>1, ReadVarParsed
<1> DEFINE Solves(g) == g = [i \in 0 .. n.val |->
                IF i = 0 THEN (IF n.ok THEN Good(<<>>, n.rest) ELSE Failed)
                ELSE Behind(g[i - 1], ReadDescriptor(g[i - 1]))]
           read == CHOOSE g : Solves(g)
           next == [k \in 1 .. n.val |-> ReadDescriptor(read[k - 1])]
<1>3. p = IF n.ok /\ n.val <= Len(n.rest) THEN read[n.val] ELSE Failed
  BY <1>1 DEF ReadDescriptors, ReadVec, VecOf, Into, ReadNext
<1>4. /\ IsCode(DescriptorCode) /\ NoneEmpty(DescriptorCode)
             /\ DOMAIN DescriptorCode = SegmentDescriptor
  BY DescriptorIs
<1>5. n.ok => ReadsOneByOne(read, next, Same(DescriptorCode), n.rest, n.val)
  <2>1. SUFFICES ASSUME n.ok PROVE ReadsOneByOne(read, next, Same(DescriptorCode), n.rest, n.val)
    OBVIOUS
  <2>2. n.val \in Nat /\ n.rest \in Str
    <3>1. n.val \in DOMAIN VarCode /\ n.rest \in Str
      BY <1>2, <2>1, ParsedIs
    <3>2. n.val \in U64
      BY <3>1 DEF VarCode
    <3> QED
      BY <3>1, <3>2, MaxU64Is DEF U64
  <2> DEFINE reads == [k \in 1 .. n.val |-> [o \in Outcomes(SegmentDescriptor) |-> ReadDescriptor(o)]]
             start == Good(<<>>, n.rest)
  <2>3. AreCodes(Same(DescriptorCode), SegmentDescriptor, n.val)
    BY <1>4, <2>2, SameIs
  <2>4. \A k \in 1 .. n.val : Same(DescriptorCode)[k] = DescriptorCode
    BY <2>2 DEF Same
  <2>5. start \in Outcomes(SegmentDescriptor)
    <3>1. <<>> \in Seq(SegmentDescriptor)
      OBVIOUS
    <3> QED
      BY <2>2, <3>1, OutcomesAre
  <2>6. \A k \in 1 .. n.val : \A o \in Outcomes(SegmentDescriptor) : o.ok
            => Parsed(reads[k][o], Same(DescriptorCode)[k], o.rest)
    <3>1. ASSUME NEW k \in 1 .. n.val, NEW o \in Outcomes(SegmentDescriptor), o.ok
          PROVE  Parsed(reads[k][o], Same(DescriptorCode)[k], o.rest)
      <4>1. reads[k][o] = ReadDescriptor(o)
        OBVIOUS
      <4>2. o.rest \in Str
        BY <3>1, OutcomesAre
      <4>3. Parsed(ReadDescriptor(o), DescriptorCode, o.rest)
        BY <3>1, <4>2, DescriptorParsed
      <4> QED
        BY <2>4, <4>1, <4>3
    <3> QED
      BY <3>1
  <2>7. PICK f : Runs(f, reads, SegmentDescriptor, start, n.val)
    <3> HIDE DEF reads, start
    <3> QED
      BY <2>2, <2>3, <2>5, <2>6, RunsExist
  <2>8. /\ f \in [0 .. n.val -> Outcomes(SegmentDescriptor)] /\ f[0] = start
        /\ \A k \in 1 .. n.val : f[k] = Behind(f[k - 1], reads[k][f[k - 1]])
    BY <2>7 DEF Runs
  <2>9. \A k \in 1 .. n.val : f[k] = Behind(f[k - 1], ReadDescriptor(f[k - 1]))
    <3>1. ASSUME NEW k \in 1 .. n.val PROVE f[k] = Behind(f[k - 1], ReadDescriptor(f[k - 1]))
      <4>1. f[k - 1] \in Outcomes(SegmentDescriptor)
        BY <2>2, <2>8
      <4>2. reads[k][f[k - 1]] = ReadDescriptor(f[k - 1])
        BY <4>1
      <4> QED
        BY <2>8, <4>2
    <3> QED
      BY <3>1
  <2>10. Solves(f)
    <3>1. \A i \in 0 .. n.val : i # 0 => i \in 1 .. n.val
      BY <2>2
    <3>2. \A i \in 0 .. n.val : f[i] = IF i = 0 THEN (IF n.ok THEN Good(<<>>, n.rest) ELSE Failed)
                                        ELSE Behind(f[i - 1], ReadDescriptor(f[i - 1]))
      BY <2>1, <2>8, <2>9, <3>1
    <3>3. f = [i \in 0 .. n.val |-> f[i]]
      BY <2>8
    <3> QED
      BY <3>2, <3>3
  <2>11. Solves(read)
    <3> HIDE DEF Solves
    <3> QED
      BY <2>10
  <2> HIDE DEF read
  <2>12. read[0] = Good(<<>>, n.rest)
             /\ \A k \in 1 .. n.val : read[k] = Behind(read[k - 1], ReadDescriptor(read[k - 1]))
    <3>1. 0 \in 0 .. n.val /\ \A k \in 1 .. n.val : k \in 0 .. n.val /\ k # 0
      BY <2>2
    <3> QED
      BY <2>1, <2>11, <3>1
  <2>13. ASSUME NEW k \in 1 .. n.val PROVE read[k] = Behind(read[k - 1], next[k])
    BY <2>12
  <2>14. ASSUME NEW k \in 1 .. n.val, read[k - 1].ok, read[k - 1].rest \in Str
         PROVE  Parsed(next[k], Same(DescriptorCode)[k], read[k - 1].rest)
    <3>1. next[k] = ReadDescriptor(read[k - 1])
      OBVIOUS
    <3>2. PICK q : q = read[k - 1]
      OBVIOUS
    <3>3. Parsed(ReadDescriptor(q), DescriptorCode, q.rest)
      BY <2>14, <3>2, DescriptorParsed
    <3> QED
      BY <2>4, <3>1, <3>2, <3>3
  <2> HIDE DEF next
  <2> QED
    BY <2>12, <2>13, <2>14 DEF ReadsOneByOne
<1> HIDE DEF read, next
<1>6. Parsed(p, VecCode(DescriptorCode), r.rest)
  <2>1. /\ ~n.ok => p = Failed
        /\ n.ok => p = IF n.val <= Len(n.rest) THEN read[n.val] ELSE Failed
    BY <1>3
  <2> QED
    BY <1>2, <1>4, <1>5, <2>1, VecParsed
<1> QED
  BY <1>1, <1>6

PeerCode == [x \in PeerData |-> PeerBytes(x)]
PeerTuples == Three(ArrayCode, VecCode(DescriptorCode), VecCode(FileIdCode))
PeerOf == [v \in DOMAIN PeerTuples |-> [peer |-> v[1], segments |-> v[2], supersedes |-> v[3]]]

\* The code of PeerData.
LEMMA PeerIs ==
    /\ DOMAIN PeerCode = PeerData /\ \A x \in PeerData : PeerCode[x] = PeerBytes(x)
    /\ IsCode(PeerCode) /\ NoneEmpty(PeerCode)
    /\ Renames(PeerOf, PeerTuples, PeerCode)
<1> DEFINE T == Three(ArrayCode, VecCode(DescriptorCode), VecCode(FileIdCode))
<1>c. IsCode(ArrayCode) /\ IsCode(VecCode(DescriptorCode)) /\ IsCode(VecCode(FileIdCode))
  BY CodesOfNumbers, DescriptorsAre, FileIdsAre
<1>t1. IsCode(One(ArrayCode))
  BY <1>c, OneIs
<1>t2. IsCode(Two(ArrayCode, VecCode(DescriptorCode)))
           /\ Appends(One(ArrayCode), VecCode(DescriptorCode), Two(ArrayCode, VecCode(DescriptorCode)))
  BY <1>c, <1>t1, TwoIs
<1>t3. IsCode(Three(ArrayCode, VecCode(DescriptorCode), VecCode(FileIdCode)))
           /\ Appends(Two(ArrayCode, VecCode(DescriptorCode)), VecCode(FileIdCode),
           Three(ArrayCode, VecCode(DescriptorCode), VecCode(FileIdCode)))
  BY <1>c, <1>t2, ThreeIs
<1>n1. NoneEmpty(One(ArrayCode))
  <2>1. NoneEmpty(ArrayCode)
    BY NumbersNoneEmpty
  <2> QED
    BY <2>1, OneNoneEmpty
<1>n2. NoneEmpty(Two(ArrayCode, VecCode(DescriptorCode)))
  BY <1>c, <1>t1, <1>t2, <1>n1, AppendsNoneEmpty
<1>n3. NoneEmpty(Three(ArrayCode, VecCode(DescriptorCode), VecCode(FileIdCode)))
  BY <1>c, <1>t2, <1>t3, <1>n2, AppendsNoneEmpty
<1>d1. DOMAIN ArrayCode = Array /\ \A y \in Array : ArrayCode[y] = y
  BY CodesAre
<1>d2. DOMAIN VecCode(DescriptorCode) = Vec(SegmentDescriptor)
           /\ \A y \in Vec(SegmentDescriptor) : VecCode(DescriptorCode)[y] = DescriptorsBytes(y)
  BY DescriptorsAre
<1>d3. DOMAIN VecCode(FileIdCode) = Vec(PackFileId) /\ \A y \in Vec(PackFileId) :
           VecCode(FileIdCode)[y] = FileIdsBytes(y)
  BY FileIdsAre
<1>1. /\ \A a \in Array, b \in Vec(SegmentDescriptor), c \in Vec(PackFileId) :
            <<a, b, c>> \in DOMAIN T
      /\ \A a \in Array, b \in Vec(SegmentDescriptor), c \in Vec(PackFileId) :
            T[<<a, b, c>>] = Cat(Cat(a, DescriptorsBytes(b)), FileIdsBytes(c))
      /\ \A v \in DOMAIN T : \E a \in Array, b \in Vec(SegmentDescriptor),
             c \in Vec(PackFileId) : v = <<a, b, c>>
  BY <1>d1, <1>d2, <1>d3, ThreeTuples
<1>2. DOMAIN PeerCode = PeerData /\ \A x \in PeerData : PeerCode[x] = PeerBytes(x)
  BY DEF PeerCode
<1>3. DOMAIN PeerOf = DOMAIN T
          /\ \A v \in DOMAIN T : PeerOf[v] = [peer |-> v[1], segments |-> v[2], supersedes |-> v[3]]
  BY DEF PeerOf, PeerTuples
<1> HIDE DEF T
<1>4. Renames(PeerOf, T, PeerCode)
  <2>1. ASSUME NEW a \in Array, NEW b \in Vec(SegmentDescriptor), NEW c \in Vec(PackFileId)
        PROVE  PeerOf[<<a, b, c>>] \in PeerData /\ PeerCode[PeerOf[<<a, b, c>>]] = T[<<a, b, c>>]
    <3>1. PICK x : x = [peer |-> a, segments |-> b, supersedes |-> c]
      OBVIOUS
    <3>2. PeerOf[<<a, b, c>>] = x
      <4>1. <<a, b, c>> \in DOMAIN T
        BY <1>1
      <4>2. PeerOf[<<a, b, c>>] = [peer |-> a, segments |-> b, supersedes |-> c]
        BY <1>3, <4>1
      <4> QED
        BY <3>1, <4>2
    <3>3. x \in PeerData
      BY <3>1 DEF PeerData
    <3>4. PeerBytes(x) = Cat(Cat(a, DescriptorsBytes(b)), FileIdsBytes(c))
      <4>1. x.peer = a /\ x.segments = b /\ x.supersedes = c
        BY <3>1
      <4>2. PeerBytes(x) = Cat(Cat(x.peer, DescriptorsBytes(x.segments)), FileIdsBytes(x.supersedes))
        BY DEF PeerBytes, Cat, DescriptorsBytes, FileIdsBytes, VecBytes, All
      <4> QED
        BY <4>1, <4>2
    <3>5. T[<<a, b, c>>] = Cat(Cat(a, DescriptorsBytes(b)), FileIdsBytes(c))
      BY <1>1
    <3> QED
      BY <1>2, <3>2, <3>3, <3>4, <3>5
  <2>2. ASSUME NEW x \in PeerData PROVE \E v \in DOMAIN T : PeerOf[v] = x
    <3>1. x.peer \in Array /\ x.segments \in Vec(SegmentDescriptor) /\ x.supersedes \in Vec(PackFileId)
      BY DEF PeerData
    <3>2. x = [peer |-> x.peer, segments |-> x.segments, supersedes |-> x.supersedes]
      BY DEF PeerData
    <3>3. PICK v : v = <<x.peer, x.segments, x.supersedes>>
      OBVIOUS
    <3>4. v \in DOMAIN T
      BY <1>1, <3>1, <3>3
    <3>5. PeerOf[v] = [peer |-> v[1], segments |-> v[2], supersedes |-> v[3]]
      BY <1>3, <3>4
    <3>6. v[1] = x.peer /\ v[2] = x.segments /\ v[3] = x.supersedes
      BY <3>3
    <3> QED
      BY <3>2, <3>4, <3>5, <3>6
  <2>3. ASSUME NEW v \in DOMAIN T PROVE PeerOf[v] \in PeerData /\ PeerCode[PeerOf[v]] = T[v]
    <3>1. PICK a \in Array, b \in Vec(SegmentDescriptor), c \in Vec(PackFileId) : v = <<a, b, c>>
      BY <1>1
    <3> QED
      BY <2>1, <3>1
  <2> QED
    BY <1>2, <2>2, <2>3 DEF Renames
<1>5. IsCode(PeerCode) /\ NoneEmpty(PeerCode)
  BY <1>4, <1>t3, <1>n3, RenamesCode DEF T
<1> QED
  BY <1>2, <1>4, <1>5 DEF T, PeerTuples

\* The reader of PeerData.
LEMMA PeerParsed ==
    ASSUME NEW r, r.ok, r.rest \in Str
    PROVE  Parsed(ReadPeer(r), PeerCode, r.rest)
<1>c. IsCode(ArrayCode) /\ IsCode(VecCode(DescriptorCode)) /\ IsCode(VecCode(FileIdCode))
  BY CodesOfNumbers, DescriptorsAre, FileIdsAre
<1>t1. IsCode(One(ArrayCode))
  BY <1>c, OneIs
<1>t2. IsCode(Two(ArrayCode, VecCode(DescriptorCode)))
           /\ Appends(One(ArrayCode), VecCode(DescriptorCode), Two(ArrayCode, VecCode(DescriptorCode)))
  BY <1>c, <1>t1, TwoIs
<1>t3. IsCode(Three(ArrayCode, VecCode(DescriptorCode), VecCode(FileIdCode)))
           /\ Appends(Two(ArrayCode, VecCode(DescriptorCode)), VecCode(FileIdCode),
           Three(ArrayCode, VecCode(DescriptorCode), VecCode(FileIdCode)))
  BY <1>c, <1>t2, ThreeIs
<1>p1. PICK n1, o1 : n1 = ReadArray(r) /\ o1 = First(n1)
  OBVIOUS
<1>q1. Parsed(n1, ArrayCode, r.rest)
  BY <1>p1, ReadArrayParsed
<1>r1. Parsed(o1, One(ArrayCode), r.rest)
  BY <1>p1, <1>q1, FirstParsed
<1>p2. PICK n2, o2 : n2 = ReadDescriptors(o1) /\ o2 = Behind(o1, n2)
  OBVIOUS
<1>q2. o1.ok => Parsed(n2, VecCode(DescriptorCode), o1.rest)
  <2>1. o1.ok => o1.rest \in Str
    BY <1>r1, ParsedIs
  <2> QED
    BY <1>p2, <2>1, ReadDescriptorsParsed
<1>r2. Parsed(o2, Two(ArrayCode, VecCode(DescriptorCode)), r.rest)
  BY <1>c, <1>t1, <1>t2, <1>p2, <1>q2, <1>r1, BehindParsed
<1>p3. PICK n3, o3 : n3 = ReadFileIds(o2) /\ o3 = Behind(o2, n3)
  OBVIOUS
<1>q3. o2.ok => Parsed(n3, VecCode(FileIdCode), o2.rest)
  <2>1. o2.ok => o2.rest \in Str
    BY <1>r2, ParsedIs
  <2> QED
    BY <1>p3, <2>1, ReadFileIdsParsed
<1>r3. Parsed(o3, Three(ArrayCode, VecCode(DescriptorCode), VecCode(FileIdCode)), r.rest)
  BY <1>c, <1>t2, <1>t3, <1>p3, <1>q3, <1>r2, BehindParsed
<1>1. ReadPeer(r) = IF o3.ok
          THEN Good([peer |-> o3.val[1], segments |-> o3.val[2], supersedes |-> o3.val[3]],
          o3.rest) ELSE Failed
  BY <1>p1, <1>p2, <1>p3 DEF ReadPeer, ReadNext, ReadFirst, Into
<1>2. o3.ok => PeerOf[o3.val] = [peer |-> o3.val[1], segments |-> o3.val[2], supersedes |-> o3.val[3]]
  <2>1. o3.ok => o3.val \in DOMAIN PeerTuples
    BY <1>r3, ParsedIs DEF PeerTuples
  <2> QED
    BY <2>1 DEF PeerOf
<1>3. /\ ~o3.ok => ReadPeer(r) = Failed
      /\ o3.ok => ReadPeer(r) = Good(PeerOf[o3.val], o3.rest)
  BY <1>1, <1>2
<1>4. Renames(PeerOf, Three(ArrayCode, VecCode(DescriptorCode), VecCode(FileIdCode)), PeerCode)
  BY PeerIs DEF PeerTuples
<1> QED
  BY <1>3, <1>4, <1>r3, IntoParsed

PeersBytes(x) == VecBytes(x, PeerBytes)

\* The code of the peers of a pack.
LEMMA PeersAre ==
    /\ DOMAIN VecCode(PeerCode) = Vec(PeerData)
    /\ \A x \in Vec(PeerData) : VecCode(PeerCode)[x] = PeersBytes(x)
    /\ IsCode(VecCode(PeerCode)) /\ NoneEmpty(VecCode(PeerCode))
<1>1. /\ IsCode(PeerCode) /\ DOMAIN PeerCode = PeerData
      /\ \A x \in PeerData : PeerCode[x] = PeerBytes(x)
  BY PeerIs
<1>2. /\ IsCode(VecCode(PeerCode)) /\ NoneEmpty(VecCode(PeerCode))
      /\ DOMAIN VecCode(PeerCode) = Vec(PeerData)
  BY <1>1, VecCodeIsCode, VecCodeIs
<1>3. ASSUME NEW x \in Vec(PeerData) PROVE VecCode(PeerCode)[x] = PeersBytes(x)
  <2>1. VecCode(PeerCode)[x] = VarU64(Len(x)) \o FlattenSeq([i \in DOMAIN x |-> PeerCode[x[i]]])
    BY <1>1 DEF VecCode, Cat
  <2>2. \A i \in DOMAIN x : PeerCode[x[i]] = PeerBytes(x[i])
    <3>1. \A i \in DOMAIN x : x[i] \in PeerData
      BY DEF Vec
    <3> QED
      BY <1>1, <3>1
  <2>3. [i \in DOMAIN x |-> PeerCode[x[i]]] = [i \in DOMAIN x |-> PeerBytes(x[i])]
    BY <2>2
  <2>4. PeersBytes(x) = VarU64(Len(x)) \o FlattenSeq([i \in DOMAIN x |-> PeerBytes(x[i])])
    BY DEF PeersBytes, VecBytes, All
  <2> QED
    BY <2>1, <2>3, <2>4
<1> QED
  BY <1>2, <1>3

\* The reader of the peers of a pack.
LEMMA ReadPeersParsed ==
    ASSUME NEW r, r.ok, r.rest \in Str
    PROVE  Parsed(ReadPeers(r), VecCode(PeerCode), r.rest)
<1>1. PICK n, p : n = ReadVar(r) /\ p = ReadPeers(r)
  OBVIOUS
<1>2. Parsed(n, VarCode, r.rest)
  BY <1>1, ReadVarParsed
<1> DEFINE Solves(g) == g = [i \in 0 .. n.val |->
                IF i = 0 THEN (IF n.ok THEN Good(<<>>, n.rest) ELSE Failed)
                ELSE Behind(g[i - 1], ReadPeer(g[i - 1]))]
           read == CHOOSE g : Solves(g)
           next == [k \in 1 .. n.val |-> ReadPeer(read[k - 1])]
<1>3. p = IF n.ok /\ n.val <= Len(n.rest) THEN read[n.val] ELSE Failed
  BY <1>1 DEF ReadPeers, ReadVec, VecOf, Into, ReadNext
<1>4. /\ IsCode(PeerCode) /\ NoneEmpty(PeerCode) /\ DOMAIN PeerCode = PeerData
  BY PeerIs
<1>5. n.ok => ReadsOneByOne(read, next, Same(PeerCode), n.rest, n.val)
  <2>1. SUFFICES ASSUME n.ok PROVE ReadsOneByOne(read, next, Same(PeerCode), n.rest, n.val)
    OBVIOUS
  <2>2. n.val \in Nat /\ n.rest \in Str
    <3>1. n.val \in DOMAIN VarCode /\ n.rest \in Str
      BY <1>2, <2>1, ParsedIs
    <3>2. n.val \in U64
      BY <3>1 DEF VarCode
    <3> QED
      BY <3>1, <3>2, MaxU64Is DEF U64
  <2> DEFINE reads == [k \in 1 .. n.val |-> [o \in Outcomes(PeerData) |-> ReadPeer(o)]]
             start == Good(<<>>, n.rest)
  <2>3. AreCodes(Same(PeerCode), PeerData, n.val)
    BY <1>4, <2>2, SameIs
  <2>4. \A k \in 1 .. n.val : Same(PeerCode)[k] = PeerCode
    BY <2>2 DEF Same
  <2>5. start \in Outcomes(PeerData)
    <3>1. <<>> \in Seq(PeerData)
      OBVIOUS
    <3> QED
      BY <2>2, <3>1, OutcomesAre
  <2>6. \A k \in 1 .. n.val : \A o \in Outcomes(PeerData) : o.ok
            => Parsed(reads[k][o], Same(PeerCode)[k], o.rest)
    <3>1. ASSUME NEW k \in 1 .. n.val, NEW o \in Outcomes(PeerData), o.ok
          PROVE  Parsed(reads[k][o], Same(PeerCode)[k], o.rest)
      <4>1. reads[k][o] = ReadPeer(o)
        OBVIOUS
      <4>2. o.rest \in Str
        BY <3>1, OutcomesAre
      <4>3. Parsed(ReadPeer(o), PeerCode, o.rest)
        BY <3>1, <4>2, PeerParsed
      <4> QED
        BY <2>4, <4>1, <4>3
    <3> QED
      BY <3>1
  <2>7. PICK f : Runs(f, reads, PeerData, start, n.val)
    <3> HIDE DEF reads, start
    <3> QED
      BY <2>2, <2>3, <2>5, <2>6, RunsExist
  <2>8. /\ f \in [0 .. n.val -> Outcomes(PeerData)] /\ f[0] = start
        /\ \A k \in 1 .. n.val : f[k] = Behind(f[k - 1], reads[k][f[k - 1]])
    BY <2>7 DEF Runs
  <2>9. \A k \in 1 .. n.val : f[k] = Behind(f[k - 1], ReadPeer(f[k - 1]))
    <3>1. ASSUME NEW k \in 1 .. n.val PROVE f[k] = Behind(f[k - 1], ReadPeer(f[k - 1]))
      <4>1. f[k - 1] \in Outcomes(PeerData)
        BY <2>2, <2>8
      <4>2. reads[k][f[k - 1]] = ReadPeer(f[k - 1])
        BY <4>1
      <4> QED
        BY <2>8, <4>2
    <3> QED
      BY <3>1
  <2>10. Solves(f)
    <3>1. \A i \in 0 .. n.val : i # 0 => i \in 1 .. n.val
      BY <2>2
    <3>2. \A i \in 0 .. n.val : f[i] = IF i = 0 THEN (IF n.ok THEN Good(<<>>, n.rest) ELSE Failed)
                                        ELSE Behind(f[i - 1], ReadPeer(f[i - 1]))
      BY <2>1, <2>8, <2>9, <3>1
    <3>3. f = [i \in 0 .. n.val |-> f[i]]
      BY <2>8
    <3> QED
      BY <3>2, <3>3
  <2>11. Solves(read)
    <3> HIDE DEF Solves
    <3> QED
      BY <2>10
  <2> HIDE DEF read
  <2>12. read[0] = Good(<<>>, n.rest)
             /\ \A k \in 1 .. n.val : read[k] = Behind(read[k - 1], ReadPeer(read[k - 1]))
    <3>1. 0 \in 0 .. n.val /\ \A k \in 1 .. n.val : k \in 0 .. n.val /\ k # 0
      BY <2>2
    <3> QED
      BY <2>1, <2>11, <3>1
  <2>13. ASSUME NEW k \in 1 .. n.val PROVE read[k] = Behind(read[k - 1], next[k])
    BY <2>12
  <2>14. ASSUME NEW k \in 1 .. n.val, read[k - 1].ok, read[k - 1].rest \in Str
         PROVE  Parsed(next[k], Same(PeerCode)[k], read[k - 1].rest)
    <3>1. next[k] = ReadPeer(read[k - 1])
      OBVIOUS
    <3>2. PICK q : q = read[k - 1]
      OBVIOUS
    <3>3. Parsed(ReadPeer(q), PeerCode, q.rest)
      BY <2>14, <3>2, PeerParsed
    <3> QED
      BY <2>4, <3>1, <3>2, <3>3
  <2> HIDE DEF next
  <2> QED
    BY <2>12, <2>13, <2>14 DEF ReadsOneByOne
<1> HIDE DEF read, next
<1>6. Parsed(p, VecCode(PeerCode), r.rest)
  <2>1. /\ ~n.ok => p = Failed
        /\ n.ok => p = IF n.val <= Len(n.rest) THEN read[n.val] ELSE Failed
    BY <1>3
  <2> QED
    BY <1>2, <1>4, <1>5, <2>1, VecParsed
<1> QED
  BY <1>1, <1>6

\* The reader of a pack header, up to the record that is made of it.
HeaderChain(r) ==
    LET version == ReadFirst(r, ReadZero)
        timestamp == ReadNext(version, ReadVar)
        parents == ReadNext(timestamp, ReadRefs)
        supersedes == ReadNext(parents, ReadRefs)
        segments == ReadNext(supersedes, ReadDescriptors)
        peers == ReadNext(segments, ReadPeers)
    IN  ReadNext(peers, ReadArray)

HeaderCode == [x \in PackHeader |-> HeaderBytes(x)]
HeaderTuples == Seven(FlagCode({0}), VarCode, VecCode(RefCode), VecCode(RefCode),
    VecCode(DescriptorCode), VecCode(PeerCode), ArrayCode)
HeaderOf == [v \in DOMAIN HeaderTuples |->
    [timestamp |-> v[2], parents |-> v[3], supersedes |-> v[4], segments |-> v[5],
    peers |-> v[6], body_sha256 |-> v[7]]]

\* The code of PackHeader.
LEMMA HeaderIs ==
    /\ DOMAIN HeaderCode = PackHeader /\ \A x \in PackHeader : HeaderCode[x] = HeaderBytes(x)
    /\ IsCode(HeaderCode) /\ NoneEmpty(HeaderCode)
    /\ Renames(HeaderOf, HeaderTuples, HeaderCode)
<1> DEFINE T == Seven(FlagCode({0}), VarCode, VecCode(RefCode), VecCode(RefCode),
               VecCode(DescriptorCode), VecCode(PeerCode), ArrayCode)
<1>c. IsCode(FlagCode({0})) /\ IsCode(VarCode) /\ IsCode(VecCode(RefCode))
          /\ IsCode(VecCode(DescriptorCode)) /\ IsCode(VecCode(PeerCode)) /\ IsCode(ArrayCode)
  BY CodesOfNumbers, DescriptorsAre, PeersAre, RefsAre, TagCodes
<1>t1. IsCode(One(FlagCode({0})))
  BY <1>c, OneIs
<1>t2. IsCode(Two(FlagCode({0}), VarCode))
           /\ Appends(One(FlagCode({0})), VarCode, Two(FlagCode({0}), VarCode))
  BY <1>c, <1>t1, TwoIs
<1>t3. IsCode(Three(FlagCode({0}), VarCode, VecCode(RefCode)))
           /\ Appends(Two(FlagCode({0}), VarCode), VecCode(RefCode),
           Three(FlagCode({0}), VarCode, VecCode(RefCode)))
  BY <1>c, <1>t2, ThreeIs
<1>t4. IsCode(Four(FlagCode({0}), VarCode, VecCode(RefCode), VecCode(RefCode)))
           /\ Appends(Three(FlagCode({0}), VarCode, VecCode(RefCode)), VecCode(RefCode),
           Four(FlagCode({0}), VarCode, VecCode(RefCode), VecCode(RefCode)))
  BY <1>c, <1>t3, FourIs
<1>t5. IsCode(Five(FlagCode({0}), VarCode, VecCode(RefCode), VecCode(RefCode),
           VecCode(DescriptorCode)))
           /\ Appends(Four(FlagCode({0}), VarCode, VecCode(RefCode), VecCode(RefCode)),
           VecCode(DescriptorCode),
           Five(FlagCode({0}), VarCode, VecCode(RefCode), VecCode(RefCode), VecCode(DescriptorCode)))
  BY <1>c, <1>t4, FiveIs
<1>t6. IsCode(Six(FlagCode({0}), VarCode, VecCode(RefCode), VecCode(RefCode),
           VecCode(DescriptorCode), VecCode(PeerCode)))
           /\ Appends(Five(FlagCode({0}), VarCode, VecCode(RefCode), VecCode(RefCode),
           VecCode(DescriptorCode)), VecCode(PeerCode),
           Six(FlagCode({0}), VarCode, VecCode(RefCode), VecCode(RefCode),
           VecCode(DescriptorCode), VecCode(PeerCode)))
  BY <1>c, <1>t5, SixIs
<1>t7. IsCode(Seven(FlagCode({0}), VarCode, VecCode(RefCode), VecCode(RefCode),
           VecCode(DescriptorCode), VecCode(PeerCode), ArrayCode))
           /\ Appends(Six(FlagCode({0}), VarCode, VecCode(RefCode), VecCode(RefCode),
           VecCode(DescriptorCode), VecCode(PeerCode)), ArrayCode,
           Seven(FlagCode({0}), VarCode, VecCode(RefCode), VecCode(RefCode),
           VecCode(DescriptorCode), VecCode(PeerCode), ArrayCode))
  BY <1>c, <1>t6, SevenIs
<1>n1. NoneEmpty(One(FlagCode({0})))
  <2>1. NoneEmpty(FlagCode({0}))
    BY NumbersNoneEmpty
  <2> QED
    BY <2>1, OneNoneEmpty
<1>n2. NoneEmpty(Two(FlagCode({0}), VarCode))
  BY <1>c, <1>t1, <1>t2, <1>n1, AppendsNoneEmpty
<1>n3. NoneEmpty(Three(FlagCode({0}), VarCode, VecCode(RefCode)))
  BY <1>c, <1>t2, <1>t3, <1>n2, AppendsNoneEmpty
<1>n4. NoneEmpty(Four(FlagCode({0}), VarCode, VecCode(RefCode), VecCode(RefCode)))
  BY <1>c, <1>t3, <1>t4, <1>n3, AppendsNoneEmpty
<1>n5. NoneEmpty(Five(FlagCode({0}), VarCode, VecCode(RefCode), VecCode(RefCode),
           VecCode(DescriptorCode)))
  BY <1>c, <1>t4, <1>t5, <1>n4, AppendsNoneEmpty
<1>n6. NoneEmpty(Six(FlagCode({0}), VarCode, VecCode(RefCode), VecCode(RefCode),
           VecCode(DescriptorCode), VecCode(PeerCode)))
  BY <1>c, <1>t5, <1>t6, <1>n5, AppendsNoneEmpty
<1>n7. NoneEmpty(Seven(FlagCode({0}), VarCode, VecCode(RefCode), VecCode(RefCode),
           VecCode(DescriptorCode), VecCode(PeerCode), ArrayCode))
  BY <1>c, <1>t6, <1>t7, <1>n6, AppendsNoneEmpty
<1>d1. DOMAIN FlagCode({0}) = {0} /\ \A y \in {0} : FlagCode({0})[y] = <<y>>
  BY FlagCodeIs
<1>d2. DOMAIN VarCode = U64 /\ \A y \in U64 : VarCode[y] = VarU64(y)
  BY CodesAre
<1>d3. DOMAIN VecCode(RefCode) = Vec(PackRef)
           /\ \A y \in Vec(PackRef) : VecCode(RefCode)[y] = RefsBytes(y)
  BY RefsAre
<1>d4. DOMAIN VecCode(RefCode) = Vec(PackRef)
           /\ \A y \in Vec(PackRef) : VecCode(RefCode)[y] = RefsBytes(y)
  BY RefsAre
<1>d5. DOMAIN VecCode(DescriptorCode) = Vec(SegmentDescriptor)
           /\ \A y \in Vec(SegmentDescriptor) : VecCode(DescriptorCode)[y] = DescriptorsBytes(y)
  BY DescriptorsAre
<1>d6. DOMAIN VecCode(PeerCode) = Vec(PeerData)
           /\ \A y \in Vec(PeerData) : VecCode(PeerCode)[y] = PeersBytes(y)
  BY PeersAre
<1>d7. DOMAIN ArrayCode = Array /\ \A y \in Array : ArrayCode[y] = y
  BY CodesAre
<1>1. /\ \A a \in {0}, b \in U64, c \in Vec(PackRef), d \in Vec(PackRef),
             e \in Vec(SegmentDescriptor), f \in Vec(PeerData), g \in Array :
            <<a, b, c, d, e, f, g>> \in DOMAIN T
      /\ \A a \in {0}, b \in U64, c \in Vec(PackRef), d \in Vec(PackRef),
             e \in Vec(SegmentDescriptor), f \in Vec(PeerData), g \in Array :
            T[<<a, b, c, d, e, f, g>>]
                = Cat(Cat(Cat(Cat(Cat(Cat(<<a>>, VarU64(b)), RefsBytes(c)), RefsBytes(d)),
                DescriptorsBytes(e)), PeersBytes(f)), g)
      /\ \A v \in DOMAIN T : \E a \in {0}, b \in U64, c \in Vec(PackRef), d \in Vec(PackRef),
             e \in Vec(SegmentDescriptor), f \in Vec(PeerData), g \in Array : v
             = <<a, b, c, d, e, f, g>>
  BY <1>d1, <1>d2, <1>d3, <1>d4, <1>d5, <1>d6, <1>d7, SevenTuples
<1>2. DOMAIN HeaderCode = PackHeader /\ \A x \in PackHeader : HeaderCode[x] = HeaderBytes(x)
  BY DEF HeaderCode
<1>3. DOMAIN HeaderOf = DOMAIN T
          /\ \A v \in DOMAIN T : HeaderOf[v]
          = [timestamp |-> v[2], parents |-> v[3], supersedes |-> v[4], segments |-> v[5],
          peers |-> v[6], body_sha256 |-> v[7]]
  BY DEF HeaderOf, HeaderTuples
<1> HIDE DEF T
<1>4. Renames(HeaderOf, T, HeaderCode)
  <2>1. ASSUME NEW a \in {0}, NEW b \in U64, NEW c \in Vec(PackRef), NEW d \in Vec(PackRef),
                   NEW e \in Vec(SegmentDescriptor), NEW f \in Vec(PeerData), NEW g \in Array
        PROVE  HeaderOf[<<a, b, c, d, e, f, g>>] \in PackHeader
                   /\ HeaderCode[HeaderOf[<<a, b, c, d, e, f, g>>]] = T[<<a, b, c, d, e, f, g>>]
    <3>1. PICK x : x = [timestamp |-> b, parents |-> c, supersedes |-> d, segments |-> e,
                   peers |-> f, body_sha256 |-> g]
      OBVIOUS
    <3>2. HeaderOf[<<a, b, c, d, e, f, g>>] = x
      <4>1. <<a, b, c, d, e, f, g>> \in DOMAIN T
        BY <1>1
      <4>2. HeaderOf[<<a, b, c, d, e, f, g>>]
                = [timestamp |-> b, parents |-> c, supersedes |-> d, segments |-> e,
                peers |-> f, body_sha256 |-> g]
        BY <1>3, <4>1
      <4> QED
        BY <3>1, <4>2
    <3>3. x \in PackHeader
      BY <3>1 DEF PackHeader
    <3>4. HeaderBytes(x) = Cat(Cat(Cat(Cat(Cat(Cat(<<a>>, VarU64(b)), RefsBytes(c)),
              RefsBytes(d)), DescriptorsBytes(e)), PeersBytes(f)), g)
      <4>1. 0 = a /\ x.timestamp = b /\ x.parents = c /\ x.supersedes = d /\ x.segments = e
                /\ x.peers = f /\ x.body_sha256 = g
        BY <3>1
      <4>2. HeaderBytes(x) = Cat(Cat(Cat(Cat(Cat(Cat(<<0>>, VarU64(x.timestamp)),
                RefsBytes(x.parents)), RefsBytes(x.supersedes)), DescriptorsBytes(x.segments)),
                PeersBytes(x.peers)), x.body_sha256)
        BY DEF HeaderBytes, Cat, RefsBytes, DescriptorsBytes, PeersBytes, VecBytes, All
      <4> QED
        BY <4>1, <4>2
    <3>5. T[<<a, b, c, d, e, f, g>>]
              = Cat(Cat(Cat(Cat(Cat(Cat(<<a>>, VarU64(b)), RefsBytes(c)), RefsBytes(d)),
              DescriptorsBytes(e)), PeersBytes(f)), g)
      BY <1>1
    <3> QED
      BY <1>2, <3>2, <3>3, <3>4, <3>5
  <2>2. ASSUME NEW x \in PackHeader PROVE \E v \in DOMAIN T : HeaderOf[v] = x
    <3>1. 0 \in {0} /\ x.timestamp \in U64 /\ x.parents \in Vec(PackRef)
              /\ x.supersedes \in Vec(PackRef) /\ x.segments \in Vec(SegmentDescriptor)
              /\ x.peers \in Vec(PeerData) /\ x.body_sha256 \in Array
      BY DEF PackHeader
    <3>2. x = [timestamp |-> x.timestamp, parents |-> x.parents, supersedes |-> x.supersedes,
              segments |-> x.segments, peers |-> x.peers, body_sha256 |-> x.body_sha256]
      BY DEF PackHeader
    <3>3. PICK v : v = <<0, x.timestamp, x.parents, x.supersedes, x.segments, x.peers, x.body_sha256>>
      OBVIOUS
    <3>4. v \in DOMAIN T
      BY <1>1, <3>1, <3>3
    <3>5. HeaderOf[v] = [timestamp |-> v[2], parents |-> v[3], supersedes |-> v[4],
              segments |-> v[5], peers |-> v[6], body_sha256 |-> v[7]]
      BY <1>3, <3>4
    <3>6. v[2] = x.timestamp /\ v[3] = x.parents /\ v[4] = x.supersedes /\ v[5] = x.segments
              /\ v[6] = x.peers /\ v[7] = x.body_sha256
      BY <3>3
    <3> QED
      BY <3>2, <3>4, <3>5, <3>6
  <2>3. ASSUME NEW v \in DOMAIN T PROVE HeaderOf[v] \in PackHeader /\ HeaderCode[HeaderOf[v]] = T[v]
    <3>1. PICK a \in {0}, b \in U64, c \in Vec(PackRef), d \in Vec(PackRef),
                   e \in Vec(SegmentDescriptor), f \in Vec(PeerData), g \in Array : v
                   = <<a, b, c, d, e, f, g>>
      BY <1>1
    <3> QED
      BY <2>1, <3>1
  <2> QED
    BY <1>2, <2>2, <2>3 DEF Renames
<1>5. IsCode(HeaderCode) /\ NoneEmpty(HeaderCode)
  BY <1>4, <1>t7, <1>n7, RenamesCode DEF T
<1> QED
  BY <1>2, <1>4, <1>5 DEF T, HeaderTuples

\* The reader of PackHeader.
LEMMA HeaderParsed ==
    ASSUME NEW r, r.ok, r.rest \in Str
    PROVE  Parsed(ReadHeader(r), HeaderCode, r.rest)
<1>c. IsCode(FlagCode({0})) /\ IsCode(VarCode) /\ IsCode(VecCode(RefCode))
          /\ IsCode(VecCode(DescriptorCode)) /\ IsCode(VecCode(PeerCode)) /\ IsCode(ArrayCode)
  BY CodesOfNumbers, DescriptorsAre, PeersAre, RefsAre, TagCodes
<1>t1. IsCode(One(FlagCode({0})))
  BY <1>c, OneIs
<1>t2. IsCode(Two(FlagCode({0}), VarCode))
           /\ Appends(One(FlagCode({0})), VarCode, Two(FlagCode({0}), VarCode))
  BY <1>c, <1>t1, TwoIs
<1>t3. IsCode(Three(FlagCode({0}), VarCode, VecCode(RefCode)))
           /\ Appends(Two(FlagCode({0}), VarCode), VecCode(RefCode),
           Three(FlagCode({0}), VarCode, VecCode(RefCode)))
  BY <1>c, <1>t2, ThreeIs
<1>t4. IsCode(Four(FlagCode({0}), VarCode, VecCode(RefCode), VecCode(RefCode)))
           /\ Appends(Three(FlagCode({0}), VarCode, VecCode(RefCode)), VecCode(RefCode),
           Four(FlagCode({0}), VarCode, VecCode(RefCode), VecCode(RefCode)))
  BY <1>c, <1>t3, FourIs
<1>t5. IsCode(Five(FlagCode({0}), VarCode, VecCode(RefCode), VecCode(RefCode),
           VecCode(DescriptorCode)))
           /\ Appends(Four(FlagCode({0}), VarCode, VecCode(RefCode), VecCode(RefCode)),
           VecCode(DescriptorCode),
           Five(FlagCode({0}), VarCode, VecCode(RefCode), VecCode(RefCode), VecCode(DescriptorCode)))
  BY <1>c, <1>t4, FiveIs
<1>t6. IsCode(Six(FlagCode({0}), VarCode, VecCode(RefCode), VecCode(RefCode),
           VecCode(DescriptorCode), VecCode(PeerCode)))
           /\ Appends(Five(FlagCode({0}), VarCode, VecCode(RefCode), VecCode(RefCode),
           VecCode(DescriptorCode)), VecCode(PeerCode),
           Six(FlagCode({0}), VarCode, VecCode(RefCode), VecCode(RefCode),
           VecCode(DescriptorCode), VecCode(PeerCode)))
  BY <1>c, <1>t5, SixIs
<1>t7. IsCode(Seven(FlagCode({0}), VarCode, VecCode(RefCode), VecCode(RefCode),
           VecCode(DescriptorCode), VecCode(PeerCode), ArrayCode))
           /\ Appends(Six(FlagCode({0}), VarCode, VecCode(RefCode), VecCode(RefCode),
           VecCode(DescriptorCode), VecCode(PeerCode)), ArrayCode,
           Seven(FlagCode({0}), VarCode, VecCode(RefCode), VecCode(RefCode),
           VecCode(DescriptorCode), VecCode(PeerCode), ArrayCode))
  BY <1>c, <1>t6, SevenIs
<1>p1. PICK n1, o1 : n1 = ReadZero(r) /\ o1 = First(n1)
  OBVIOUS
<1>q1. Parsed(n1, FlagCode({0}), r.rest)
  BY <1>p1, ReadZeroParsed
<1>r1. Parsed(o1, One(FlagCode({0})), r.rest)
  BY <1>p1, <1>q1, FirstParsed
<1>p2. PICK n2, o2 : n2 = ReadVar(o1) /\ o2 = Behind(o1, n2)
  OBVIOUS
<1>q2. o1.ok => Parsed(n2, VarCode, o1.rest)
  <2>1. o1.ok => o1.rest \in Str
    BY <1>r1, ParsedIs
  <2> QED
    BY <1>p2, <2>1, ReadVarParsed
<1>r2. Parsed(o2, Two(FlagCode({0}), VarCode), r.rest)
  BY <1>c, <1>t1, <1>t2, <1>p2, <1>q2, <1>r1, BehindParsed
<1>p3. PICK n3, o3 : n3 = ReadRefs(o2) /\ o3 = Behind(o2, n3)
  OBVIOUS
<1>q3. o2.ok => Parsed(n3, VecCode(RefCode), o2.rest)
  <2>1. o2.ok => o2.rest \in Str
    BY <1>r2, ParsedIs
  <2> QED
    BY <1>p3, <2>1, ReadRefsParsed
<1>r3. Parsed(o3, Three(FlagCode({0}), VarCode, VecCode(RefCode)), r.rest)
  BY <1>c, <1>t2, <1>t3, <1>p3, <1>q3, <1>r2, BehindParsed
<1>p4. PICK n4, o4 : n4 = ReadRefs(o3) /\ o4 = Behind(o3, n4)
  OBVIOUS
<1>q4. o3.ok => Parsed(n4, VecCode(RefCode), o3.rest)
  <2>1. o3.ok => o3.rest \in Str
    BY <1>r3, ParsedIs
  <2> QED
    BY <1>p4, <2>1, ReadRefsParsed
<1>r4. Parsed(o4, Four(FlagCode({0}), VarCode, VecCode(RefCode), VecCode(RefCode)), r.rest)
  BY <1>c, <1>t3, <1>t4, <1>p4, <1>q4, <1>r3, BehindParsed
<1>p5. PICK n5, o5 : n5 = ReadDescriptors(o4) /\ o5 = Behind(o4, n5)
  OBVIOUS
<1>q5. o4.ok => Parsed(n5, VecCode(DescriptorCode), o4.rest)
  <2>1. o4.ok => o4.rest \in Str
    BY <1>r4, ParsedIs
  <2> QED
    BY <1>p5, <2>1, ReadDescriptorsParsed
<1>r5. Parsed(o5, Five(FlagCode({0}), VarCode, VecCode(RefCode), VecCode(RefCode),
           VecCode(DescriptorCode)), r.rest)
  BY <1>c, <1>t4, <1>t5, <1>p5, <1>q5, <1>r4, BehindParsed
<1>p6. PICK n6, o6 : n6 = ReadPeers(o5) /\ o6 = Behind(o5, n6)
  OBVIOUS
<1>q6. o5.ok => Parsed(n6, VecCode(PeerCode), o5.rest)
  <2>1. o5.ok => o5.rest \in Str
    BY <1>r5, ParsedIs
  <2> QED
    BY <1>p6, <2>1, ReadPeersParsed
<1>r6. Parsed(o6, Six(FlagCode({0}), VarCode, VecCode(RefCode), VecCode(RefCode),
           VecCode(DescriptorCode), VecCode(PeerCode)), r.rest)
  BY <1>c, <1>t5, <1>t6, <1>p6, <1>q6, <1>r5, BehindParsed
<1>p7. PICK n7, o7 : n7 = ReadArray(o6) /\ o7 = Behind(o6, n7)
  OBVIOUS
<1>q7. o6.ok => Parsed(n7, ArrayCode, o6.rest)
  <2>1. o6.ok => o6.rest \in Str
    BY <1>r6, ParsedIs
  <2> QED
    BY <1>p7, <2>1, ReadArrayParsed
<1>r7. Parsed(o7, Seven(FlagCode({0}), VarCode, VecCode(RefCode), VecCode(RefCode),
           VecCode(DescriptorCode), VecCode(PeerCode), ArrayCode), r.rest)
  BY <1>c, <1>t6, <1>t7, <1>p7, <1>q7, <1>r6, BehindParsed
<1>1. ReadHeader(r) = IF o7.ok
          THEN Good([timestamp |-> o7.val[2], parents |-> o7.val[3], supersedes |-> o7.val[4],
          segments |-> o7.val[5], peers |-> o7.val[6], body_sha256 |-> o7.val[7]], o7.rest) ELSE Failed
  <2>1. /\ o1 = First(ReadZero(r))
        /\ o2 = Behind(o1, ReadVar(o1))
        /\ o3 = Behind(o2, ReadRefs(o2))
        /\ o4 = Behind(o3, ReadRefs(o3))
        /\ o5 = Behind(o4, ReadDescriptors(o4))
        /\ o6 = Behind(o5, ReadPeers(o5))
        /\ o7 = Behind(o6, ReadArray(o6))
    BY <1>p1, <1>p2, <1>p3, <1>p4, <1>p5, <1>p6, <1>p7
  <2>2. HeaderChain(r) = o7
    BY <2>1 DEF HeaderChain, ReadNext, ReadFirst
  <2>3. ReadHeader(r) =
          IF HeaderChain(r).ok
          THEN Good([timestamp |-> HeaderChain(r).val[2], parents |-> HeaderChain(r).val[3],
                     supersedes |-> HeaderChain(r).val[4], segments |-> HeaderChain(r).val[5],
                     peers |-> HeaderChain(r).val[6], body_sha256 |-> HeaderChain(r).val[7]],
                    HeaderChain(r).rest)
          ELSE Failed
    BY DEF ReadHeader, HeaderChain, Into
  <2> QED
    BY <2>2, <2>3
<1>2. o7.ok => HeaderOf[o7.val]
          = [timestamp |-> o7.val[2], parents |-> o7.val[3], supersedes |-> o7.val[4],
          segments |-> o7.val[5], peers |-> o7.val[6], body_sha256 |-> o7.val[7]]
  <2>1. o7.ok => o7.val \in DOMAIN HeaderTuples
    BY <1>r7, ParsedIs DEF HeaderTuples
  <2> QED
    BY <2>1 DEF HeaderOf
<1>3. /\ ~o7.ok => ReadHeader(r) = Failed
      /\ o7.ok => ReadHeader(r) = Good(HeaderOf[o7.val], o7.rest)
  BY <1>1, <1>2
<1>4. Renames(HeaderOf, Seven(FlagCode({0}), VarCode, VecCode(RefCode), VecCode(RefCode),
          VecCode(DescriptorCode), VecCode(PeerCode), ArrayCode), HeaderCode)
  BY HeaderIs DEF HeaderTuples
<1> QED
  BY <1>3, <1>4, <1>r7, IntoParsed

\* SignedPackHeader::decode(), up to the check that nothing is left.
ReadSignedHeader(r) ==
    Into(ReadNext(ReadFirst(r, ReadHeader), ReadTagged), LAMBDA v :
        [header |-> v[1], signature |-> v[2]])

SignedCode == [x \in SignedPackHeader |-> SignedBytes(x)]
SignedTuples == Two(HeaderCode, KeyCode)
SignedOf == [v \in DOMAIN SignedTuples |-> [header |-> v[1], signature |-> v[2]]]

\* The code of SignedPackHeader.
LEMMA SignedIs ==
    /\ DOMAIN SignedCode = SignedPackHeader /\ \A x \in SignedPackHeader :
           SignedCode[x] = SignedBytes(x)
    /\ IsCode(SignedCode) /\ NoneEmpty(SignedCode)
    /\ Renames(SignedOf, SignedTuples, SignedCode)
<1> DEFINE T == Two(HeaderCode, KeyCode)
<1>c. IsCode(HeaderCode) /\ IsCode(KeyCode)
  BY HeaderIs, KeyIs
<1>t1. IsCode(One(HeaderCode))
  BY <1>c, OneIs
<1>t2. IsCode(Two(HeaderCode, KeyCode)) /\ Appends(One(HeaderCode), KeyCode, Two(HeaderCode, KeyCode))
  BY <1>c, <1>t1, TwoIs
<1>n1. NoneEmpty(One(HeaderCode))
  <2>1. NoneEmpty(HeaderCode)
    BY HeaderIs
  <2> QED
    BY <2>1, OneNoneEmpty
<1>n2. NoneEmpty(Two(HeaderCode, KeyCode))
  BY <1>c, <1>t1, <1>t2, <1>n1, AppendsNoneEmpty
<1>d1. DOMAIN HeaderCode = PackHeader /\ \A y \in PackHeader : HeaderCode[y] = HeaderBytes(y)
  BY HeaderIs
<1>d2. DOMAIN KeyCode = Key /\ \A y \in Key : KeyCode[y] = TaggedBytes(y)
  BY KeyIs
<1>1. /\ \A a \in PackHeader, b \in Key :
            <<a, b>> \in DOMAIN T
      /\ \A a \in PackHeader, b \in Key :
            T[<<a, b>>] = Cat(HeaderBytes(a), TaggedBytes(b))
      /\ \A v \in DOMAIN T : \E a \in PackHeader, b \in Key : v = <<a, b>>
  BY <1>d1, <1>d2, TwoTuples
<1>2. DOMAIN SignedCode = SignedPackHeader /\ \A x \in SignedPackHeader : SignedCode[x] = SignedBytes(x)
  BY DEF SignedCode
<1>3. DOMAIN SignedOf = DOMAIN T
          /\ \A v \in DOMAIN T : SignedOf[v] = [header |-> v[1], signature |-> v[2]]
  BY DEF SignedOf, SignedTuples
<1> HIDE DEF T
<1>4. Renames(SignedOf, T, SignedCode)
  <2>1. ASSUME NEW a \in PackHeader, NEW b \in Key
        PROVE  SignedOf[<<a, b>>] \in SignedPackHeader /\ SignedCode[SignedOf[<<a, b>>]] = T[<<a, b>>]
    <3>1. PICK x : x = [header |-> a, signature |-> b]
      OBVIOUS
    <3>2. SignedOf[<<a, b>>] = x
      <4>1. <<a, b>> \in DOMAIN T
        BY <1>1
      <4>2. SignedOf[<<a, b>>] = [header |-> a, signature |-> b]
        BY <1>3, <4>1
      <4> QED
        BY <3>1, <4>2
    <3>3. x \in SignedPackHeader
      BY <3>1 DEF SignedPackHeader
    <3>4. SignedBytes(x) = Cat(HeaderBytes(a), TaggedBytes(b))
      <4>1. x.header = a /\ x.signature = b
        BY <3>1
      <4>2. SignedBytes(x) = Cat(HeaderBytes(x.header), TaggedBytes(x.signature))
        BY DEF SignedBytes, Cat
      <4> QED
        BY <4>1, <4>2
    <3>5. T[<<a, b>>] = Cat(HeaderBytes(a), TaggedBytes(b))
      BY <1>1
    <3> QED
      BY <1>2, <3>2, <3>3, <3>4, <3>5
  <2>2. ASSUME NEW x \in SignedPackHeader PROVE \E v \in DOMAIN T : SignedOf[v] = x
    <3>1. x.header \in PackHeader /\ x.signature \in Key
      BY DEF SignedPackHeader
    <3>2. x = [header |-> x.header, signature |-> x.signature]
      BY DEF SignedPackHeader
    <3>3. PICK v : v = <<x.header, x.signature>>
      OBVIOUS
    <3>4. v \in DOMAIN T
      BY <1>1, <3>1, <3>3
    <3>5. SignedOf[v] = [header |-> v[1], signature |-> v[2]]
      BY <1>3, <3>4
    <3>6. v[1] = x.header /\ v[2] = x.signature
      BY <3>3
    <3> QED
      BY <3>2, <3>4, <3>5, <3>6
  <2>3. ASSUME NEW v \in DOMAIN T
                   PROVE SignedOf[v] \in SignedPackHeader /\ SignedCode[SignedOf[v]] = T[v]
    <3>1. PICK a \in PackHeader, b \in Key : v = <<a, b>>
      BY <1>1
    <3> QED
      BY <2>1, <3>1
  <2> QED
    BY <1>2, <2>2, <2>3 DEF Renames
<1>5. IsCode(SignedCode) /\ NoneEmpty(SignedCode)
  BY <1>4, <1>t2, <1>n2, RenamesCode DEF T
<1> QED
  BY <1>2, <1>4, <1>5 DEF T, SignedTuples

\* The reader of SignedPackHeader.
LEMMA SignedParsed ==
    ASSUME NEW r, r.ok, r.rest \in Str
    PROVE  Parsed(ReadSignedHeader(r), SignedCode, r.rest)
<1>c. IsCode(HeaderCode) /\ IsCode(KeyCode)
  BY HeaderIs, KeyIs
<1>t1. IsCode(One(HeaderCode))
  BY <1>c, OneIs
<1>t2. IsCode(Two(HeaderCode, KeyCode)) /\ Appends(One(HeaderCode), KeyCode, Two(HeaderCode, KeyCode))
  BY <1>c, <1>t1, TwoIs
<1>p1. PICK n1, o1 : n1 = ReadHeader(r) /\ o1 = First(n1)
  OBVIOUS
<1>q1. Parsed(n1, HeaderCode, r.rest)
  BY <1>p1, HeaderParsed
<1>r1. Parsed(o1, One(HeaderCode), r.rest)
  BY <1>p1, <1>q1, FirstParsed
<1>p2. PICK n2, o2 : n2 = ReadTagged(o1) /\ o2 = Behind(o1, n2)
  OBVIOUS
<1>q2. o1.ok => Parsed(n2, KeyCode, o1.rest)
  <2>1. o1.ok => o1.rest \in Str
    BY <1>r1, ParsedIs
  <2> QED
    BY <1>p2, <2>1, KeyParsed
<1>r2. Parsed(o2, Two(HeaderCode, KeyCode), r.rest)
  BY <1>c, <1>t1, <1>t2, <1>p2, <1>q2, <1>r1, BehindParsed
<1>1. ReadSignedHeader(r) = IF o2.ok
          THEN Good([header |-> o2.val[1], signature |-> o2.val[2]], o2.rest) ELSE Failed
  BY <1>p1, <1>p2 DEF ReadSignedHeader, ReadNext, ReadFirst, Into
<1>2. o2.ok => SignedOf[o2.val] = [header |-> o2.val[1], signature |-> o2.val[2]]
  <2>1. o2.ok => o2.val \in DOMAIN SignedTuples
    BY <1>r2, ParsedIs DEF SignedTuples
  <2> QED
    BY <2>1 DEF SignedOf
<1>3. /\ ~o2.ok => ReadSignedHeader(r) = Failed
      /\ o2.ok => ReadSignedHeader(r) = Good(SignedOf[o2.val], o2.rest)
  BY <1>1, <1>2
<1>4. Renames(SignedOf, Two(HeaderCode, KeyCode), SignedCode)
  BY SignedIs DEF SignedTuples
<1> QED
  BY <1>3, <1>4, <1>r2, IntoParsed

-----------------------------------------------------------------------------
(* Values of different kinds, behind a tag *)

\* The bytes behind the tag t have the code codes[t].
Tags(codes, code) ==
    /\ \A t \in DOMAIN codes : \A u : u \in DOMAIN codes[t] =>
          u \in DOMAIN code /\ code[u] = Cat(<<t>>, codes[t][u])
    /\ \A u \in DOMAIN code : \E t \in DOMAIN codes : u \in DOMAIN codes[t]

\* Values of several kinds, each behind a tag of its own, have a code.
LEMMA TagsAreCode ==
    ASSUME NEW codes, DOMAIN codes \subseteq Bytes, \A t \in DOMAIN codes : IsCode(codes[t]),
           NEW code, Tags(codes, code)
    PROVE  IsCode(code) /\ NoneEmpty(code)
<1>1. ASSUME NEW u \in DOMAIN code PROVE code[u] \in Str /\ code[u] # <<>>
  <2>1. PICK t \in DOMAIN codes : u \in DOMAIN codes[t]
    BY DEF Tags
  <2>2. code[u] = <<t>> \o codes[t][u]
    BY <2>1 DEF Tags, Cat
  <2>3. codes[t][u] \in Str
    BY <2>1 DEF IsCode
  <2>4. t \in Bytes /\ <<t>> \in Str /\ Len(<<t>>) = 1
    BY DEF Str
  <2>5. <<t>> \o codes[t][u] \in Str /\ Len(<<t>> \o codes[t][u]) = 1 + Len(codes[t][u])
    BY <2>3, <2>4, ConcatIs
  <2>6. Len(codes[t][u]) \in Nat
    BY <2>3 DEF Str
  <2> QED
    BY <2>2, <2>5, <2>6
<1> QED
  BY <1>1 DEF IsCode, NoneEmpty

\* The tag is read first, and the value by the reader of its kind.
LEMMA TagParsed ==
    ASSUME NEW allowed \in SUBSET Bytes, NEW o, NEW s, Parsed(o, FlagCode(allowed), s),
           NEW codes, DOMAIN codes \subseteq allowed, \A t \in DOMAIN codes : IsCode(codes[t]),
           NEW code, Tags(codes, code),
           NEW p, ~o.ok => p = Failed,
           o.ok /\ o.val \notin DOMAIN codes => p = Failed,
           o.ok /\ o.val \in DOMAIN codes => Parsed(p, codes[o.val], o.rest)
    PROVE  Parsed(p, code, s)
<1> DEFINE none == [x \in {} |-> x]
           next == [t \in allowed |-> IF t \in DOMAIN codes THEN codes[t] ELSE none]
<1>1. DOMAIN none = {}
  OBVIOUS
<1>2. IsCode(none) /\ \A s1 : Parsed(Failed, none, s1)
  BY <1>1 DEF IsCode, Parsed, Begins
<1> HIDE DEF none
<1>3. DOMAIN FlagCode(allowed) = allowed /\ \A t \in allowed : FlagCode(allowed)[t] = <<t>>
  BY DEF FlagCode
<1>4. \A t \in allowed : /\ t \in DOMAIN codes => next[t] = codes[t]
                         /\ t \notin DOMAIN codes => next[t] = none
  OBVIOUS
<1> HIDE DEF next
<1>5. \A t \in DOMAIN FlagCode(allowed) : IsCode(next[t])
  BY <1>2, <1>3, <1>4
<1>6. Follows(FlagCode(allowed), next, code)
  <2>1. ASSUME NEW t \in allowed, NEW u, u \in DOMAIN next[t]
        PROVE  u \in DOMAIN code /\ code[u] = FlagCode(allowed)[t] \o next[t][u]
    <3>1. t \in DOMAIN codes /\ next[t] = codes[t]
      BY <1>1, <1>4, <2>1
    <3>2. u \in DOMAIN code /\ code[u] = Cat(<<t>>, codes[t][u])
      BY <2>1, <3>1 DEF Tags
    <3> QED
      BY <1>3, <3>1, <3>2 DEF Cat
  <2>2. ASSUME NEW u \in DOMAIN code PROVE \E t \in allowed : u \in DOMAIN next[t]
    <3>1. PICK t \in DOMAIN codes : u \in DOMAIN codes[t]
      BY DEF Tags
    <3> QED
      BY <1>4, <3>1
  <2>3. \A t \in allowed : \A u : u \in DOMAIN next[t] =>
            u \in DOMAIN code /\ code[u] = FlagCode(allowed)[t] \o next[t][u]
    BY <2>1
  <2> QED
    BY <1>3, <2>2, <2>3 DEF Follows
<1>7. IsCode(FlagCode(allowed))
  BY CodesOfNumbers
<1>8. o.ok => Parsed(p, next[o.val], o.rest)
  <2>1. o.ok => o.val \in allowed
    BY <1>3, ParsedIs
  <2> QED
    BY <1>2, <1>4, <2>1
<1> QED
  BY <1>5, <1>6, <1>7, <1>8, ThenParsed

\* A reader of bytes.
LEMMA ReadTagParsed ==
    ASSUME NEW r, r.ok, r.rest \in Str
    PROVE  Parsed(ReadByte(r), FlagCode(Bytes), r.rest)
<1>1. FlagCode(Bytes) = ByteCode
  BY DEF FlagCode, ByteCode
<1> QED
  BY <1>1, ReadByteParsed

\* The tags are bytes.
LEMMA TagBytes ==
    {0, 1, 2, 3, 4} \subseteq Bytes /\ 0 .. 2 \in SUBSET Bytes /\ 0 .. 3 \in SUBSET Bytes
<1>1. Base \in Nat /\ Bytes = 0 .. Base - 1
  BY WidthsAre DEF Bytes
<1>2. 4 <= Base - 1
  BY <1>1, LogFormatAssumption
<1>3. {0, 1, 2, 3, 4} \subseteq Bytes
  BY <1>1, <1>2
<1>4. ASSUME NEW n \in Nat, n <= 4 PROVE 0 .. n \in SUBSET Bytes
  <2>1. n \in Int /\ Base - 1 \in Int /\ n <= Base - 1
    BY <1>1, <1>2, <1>4
  <2>2. \A i \in 0 .. n : i \in 0 .. Base - 1
    BY <2>1
  <2> QED
    BY <1>1, <2>2
<1> QED
  BY <1>3, <1>4

-----------------------------------------------------------------------------
(* The entries of a log *)

\* The code of bytes behind their length, as the entries use it.
LEMMA LenIs ==
    /\ IsCode(LenCode) /\ NoneEmpty(LenCode) /\ DOMAIN LenCode = ByteString
    /\ \A y \in ByteString : LenCode[y] = LenPrefixed(y)
  BY LenCodeIs, CodesAre

TimeCode(form) == [t \in Timestamp(form) |-> TimestampBytes(form, t)]

\* The code of a timestamp.
LEMMA TimeIs ==
    \A form : /\ IsCode(TimeCode(form)) /\ NoneEmpty(TimeCode(form))
              /\ DOMAIN TimeCode(form) = Timestamp(form)
              /\ \A y \in Timestamp(form) : TimeCode(form)[y] = TimestampBytes(form, y)
<1>1. ASSUME NEW form
      PROVE  /\ DOMAIN TimeCode(form) = Timestamp(form)
             /\ \A y \in Timestamp(form) : TimeCode(form)[y] = TimestampBytes(form, y)
  BY DEF TimeCode
<1>2. ASSUME NEW form, NEW y \in Timestamp(form)
      PROVE  TimestampBytes(form, y) \in Str /\ TimestampBytes(form, y) # <<>>
  <2>1. CASE form = "plaintext"
    <3>1. y \in Fixed(LeLen) /\ TimestampBytes(form, y) = Le(y, LeLen)
      BY <2>1 DEF Timestamp, TimestampBytes
    <3>2. DOMAIN LeCode(LeLen) = Fixed(LeLen) /\ LeCode(LeLen)[y] = Le(y, LeLen)
      BY <3>1 DEF LeCode
    <3> QED
      BY <3>1, <3>2, IdCodeIs DEF IsCode, NoneEmpty
  <2>2. CASE form # "plaintext"
    <3>1. y \in ByteString /\ TimestampBytes(form, y) = LenPrefixed(y)
      BY <2>2 DEF Timestamp, TimestampBytes
    <3> QED
      BY <3>1, LenIs DEF IsCode, NoneEmpty
  <2> QED
    BY <2>1, <2>2
<1> QED
  BY <1>1, <1>2 DEF IsCode, NoneEmpty

\* The reader of a timestamp.
LEMMA ReadTimestampParsed ==
    ASSUME NEW form, NEW r, r.ok, r.rest \in Str
    PROVE  Parsed(ReadTimestamp(form, r), TimeCode(form), r.rest)
<1>1. CASE form = "plaintext"
  <2>1. PICK o : o = ReadLe(r, LeLen)
    OBVIOUS
  <2>2. Parsed(o, LeCode(LeLen), r.rest)
    BY <2>1, ReadIdParsed DEF ReadId
  <2>3. PICK p : p = ReadTimestamp(form, r)
    OBVIOUS
  <2>4. p = IF o.ok /\ o.val < Power(Base, LeLen) \div 2 THEN o ELSE Failed
    BY <1>1, <2>1, <2>3 DEF ReadTimestamp, Checked
  <2>5. /\ DOMAIN LeCode(LeLen) = Fixed(LeLen)
               /\ \A v \in Fixed(LeLen) : LeCode(LeLen)[v] = Le(v, LeLen)
    BY DEF LeCode
  <2>6. \A v : v \in Timestamp(form) <=> v \in Fixed(LeLen) /\ v < Power(Base, LeLen) \div 2
    BY <1>1 DEF Timestamp
  <2>7. /\ DOMAIN TimeCode(form) \subseteq DOMAIN LeCode(LeLen)
        /\ \A v \in DOMAIN TimeCode(form) : TimeCode(form)[v] = LeCode(LeLen)[v]
    BY <1>1, <2>5, <2>6 DEF TimeCode, TimestampBytes
  <2>8. o.ok => o.val \in Fixed(LeLen)
    BY <2>2, <2>5, ParsedIs
  <2>9. o.ok => p = IF o.val \in DOMAIN TimeCode(form) THEN o ELSE Failed
    BY <2>4, <2>6, <2>8, TimeIs
  <2>10. ~o.ok => p = Failed
    BY <2>4
  <2>11. Parsed(p, TimeCode(form), r.rest)
    BY <2>2, <2>7, <2>9, <2>10, CheckedParsed
  <2> QED
    BY <2>3, <2>11
<1>2. CASE form # "plaintext"
  <2>1. Timestamp(form) = ByteString /\ \A t : TimestampBytes(form, t) = LenPrefixed(t)
    BY <1>2 DEF Timestamp, TimestampBytes
  <2>2. TimeCode(form) = LenCode
    BY <2>1 DEF TimeCode, LenCode
  <2>3. ReadTimestamp(form, r) = ReadLenPrefixed(r)
    BY <1>2 DEF ReadTimestamp
  <2> QED
    BY <2>2, <2>3, ReadLenPrefixedParsed
<1> QED
  BY <1>1, <1>2

OpOfLog(form) == [is : {"op"}, timestamp : Timestamp(form), user : ByteString, op : ByteString]
OpOfLogBytes(form, e) == TimestampBytes(form, e.timestamp) \o LenPrefixed(e.user) \o LenPrefixed(e.op)

OpOfLogCode(form) == [x \in OpOfLog(form) |-> OpOfLogBytes(form, x)]
OpOfLogTuples(form) == Three(TimeCode(form), LenCode, LenCode)
OpOfLogOf(form) == [v \in DOMAIN OpOfLogTuples(form) |->
    [is |-> "op", timestamp |-> v[1], user |-> v[2], op |-> v[3]]]

\* The code of an operation in the log.
LEMMA OpOfLogIs ==
    ASSUME NEW form
    PROVE  /\ DOMAIN OpOfLogCode(form) = OpOfLog(form)
                  /\ \A x \in OpOfLog(form) : OpOfLogCode(form)[x] = OpOfLogBytes(form, x)
           /\ IsCode(OpOfLogCode(form)) /\ NoneEmpty(OpOfLogCode(form))
           /\ Renames(OpOfLogOf(form), OpOfLogTuples(form), OpOfLogCode(form))
<1> DEFINE T == Three(TimeCode(form), LenCode, LenCode)
<1>c. IsCode(TimeCode(form)) /\ IsCode(LenCode)
  BY LenCodeIs, TimeIs
<1>t1. IsCode(One(TimeCode(form)))
  BY <1>c, OneIs
<1>t2. IsCode(Two(TimeCode(form), LenCode))
           /\ Appends(One(TimeCode(form)), LenCode, Two(TimeCode(form), LenCode))
  BY <1>c, <1>t1, TwoIs
<1>t3. IsCode(Three(TimeCode(form), LenCode, LenCode))
           /\ Appends(Two(TimeCode(form), LenCode), LenCode, Three(TimeCode(form), LenCode, LenCode))
  BY <1>c, <1>t2, ThreeIs
<1>n1. NoneEmpty(One(TimeCode(form)))
  <2>1. NoneEmpty(TimeCode(form))
    BY TimeIs
  <2> QED
    BY <2>1, OneNoneEmpty
<1>n2. NoneEmpty(Two(TimeCode(form), LenCode))
  BY <1>c, <1>t1, <1>t2, <1>n1, AppendsNoneEmpty
<1>n3. NoneEmpty(Three(TimeCode(form), LenCode, LenCode))
  BY <1>c, <1>t2, <1>t3, <1>n2, AppendsNoneEmpty
<1>d1. DOMAIN TimeCode(form) = Timestamp(form) /\ \A y \in Timestamp(form) :
           TimeCode(form)[y] = TimestampBytes(form, y)
  BY TimeIs
<1>d2. DOMAIN LenCode = ByteString /\ \A y \in ByteString : LenCode[y] = LenPrefixed(y)
  BY CodesAre
<1>d3. DOMAIN LenCode = ByteString /\ \A y \in ByteString : LenCode[y] = LenPrefixed(y)
  BY CodesAre
<1>1. /\ \A a \in Timestamp(form), b \in ByteString, c \in ByteString :
            <<a, b, c>> \in DOMAIN T
      /\ \A a \in Timestamp(form), b \in ByteString, c \in ByteString :
            T[<<a, b, c>>] = Cat(Cat(TimestampBytes(form, a), LenPrefixed(b)), LenPrefixed(c))
      /\ \A v \in DOMAIN T : \E a \in Timestamp(form), b \in ByteString, c \in ByteString :
             v = <<a, b, c>>
  BY <1>d1, <1>d2, <1>d3, ThreeTuples
<1>2. DOMAIN OpOfLogCode(form) = OpOfLog(form)
          /\ \A x \in OpOfLog(form) : OpOfLogCode(form)[x] = OpOfLogBytes(form, x)
  BY DEF OpOfLogCode
<1>3. DOMAIN OpOfLogOf(form) = DOMAIN T
          /\ \A v \in DOMAIN T : OpOfLogOf(form)[v]
          = [is |-> "op", timestamp |-> v[1], user |-> v[2], op |-> v[3]]
  BY DEF OpOfLogOf, OpOfLogTuples
<1> HIDE DEF T
<1>4. Renames(OpOfLogOf(form), T, OpOfLogCode(form))
  <2>1. ASSUME NEW a \in Timestamp(form), NEW b \in ByteString, NEW c \in ByteString
        PROVE  OpOfLogOf(form)[<<a, b, c>>] \in OpOfLog(form)
                   /\ OpOfLogCode(form)[OpOfLogOf(form)[<<a, b, c>>]] = T[<<a, b, c>>]
    <3>1. PICK x : x = [is |-> "op", timestamp |-> a, user |-> b, op |-> c]
      OBVIOUS
    <3>2. OpOfLogOf(form)[<<a, b, c>>] = x
      <4>1. <<a, b, c>> \in DOMAIN T
        BY <1>1
      <4>2. OpOfLogOf(form)[<<a, b, c>>] = [is |-> "op", timestamp |-> a, user |-> b, op |-> c]
        BY <1>3, <4>1
      <4> QED
        BY <3>1, <4>2
    <3>3. x \in OpOfLog(form)
      BY <3>1 DEF OpOfLog
    <3>4. OpOfLogBytes(form, x) = Cat(Cat(TimestampBytes(form, a), LenPrefixed(b)), LenPrefixed(c))
      <4>1. x.timestamp = a /\ x.user = b /\ x.op = c
        BY <3>1
      <4>2. OpOfLogBytes(form, x)
                = Cat(Cat(TimestampBytes(form, x.timestamp), LenPrefixed(x.user)), LenPrefixed(x.op))
        BY DEF OpOfLogBytes, Cat
      <4> QED
        BY <4>1, <4>2
    <3>5. T[<<a, b, c>>] = Cat(Cat(TimestampBytes(form, a), LenPrefixed(b)), LenPrefixed(c))
      BY <1>1
    <3> QED
      BY <1>2, <3>2, <3>3, <3>4, <3>5
  <2>2. ASSUME NEW x \in OpOfLog(form) PROVE \E v \in DOMAIN T : OpOfLogOf(form)[v] = x
    <3>1. x.timestamp \in Timestamp(form) /\ x.user \in ByteString /\ x.op \in ByteString
      BY DEF OpOfLog
    <3>2. x = [is |-> x.is, timestamp |-> x.timestamp, user |-> x.user, op |-> x.op]
      BY DEF OpOfLog
    <3>3. PICK v : v = <<x.timestamp, x.user, x.op>>
      OBVIOUS
    <3>4. v \in DOMAIN T
      BY <1>1, <3>1, <3>3
    <3>5. OpOfLogOf(form)[v] = [is |-> "op", timestamp |-> v[1], user |-> v[2], op |-> v[3]]
      BY <1>3, <3>4
    <3>6. "op" = x.is /\ v[1] = x.timestamp /\ v[2] = x.user /\ v[3] = x.op
      BY <3>3 DEF OpOfLog
    <3> QED
      BY <3>2, <3>4, <3>5, <3>6
  <2>3. ASSUME NEW v \in DOMAIN T
                   PROVE OpOfLogOf(form)[v] \in OpOfLog(form)
                   /\ OpOfLogCode(form)[OpOfLogOf(form)[v]] = T[v]
    <3>1. PICK a \in Timestamp(form), b \in ByteString, c \in ByteString : v = <<a, b, c>>
      BY <1>1
    <3> QED
      BY <2>1, <3>1
  <2> QED
    BY <1>2, <2>2, <2>3 DEF Renames
<1>5. IsCode(OpOfLogCode(form)) /\ NoneEmpty(OpOfLogCode(form))
  BY <1>4, <1>t3, <1>n3, RenamesCode DEF T
<1> QED
  BY <1>2, <1>4, <1>5 DEF T, OpOfLogTuples

\* The reader of an operation in the log.
LEMMA OpOfLogParsed ==
    ASSUME NEW form, NEW r, r.ok, r.rest \in Str
    PROVE  Parsed(ReadOpEntry(form, r), OpOfLogCode(form), r.rest)
<1>c. IsCode(TimeCode(form)) /\ IsCode(LenCode)
  BY LenCodeIs, TimeIs
<1>t1. IsCode(One(TimeCode(form)))
  BY <1>c, OneIs
<1>t2. IsCode(Two(TimeCode(form), LenCode))
           /\ Appends(One(TimeCode(form)), LenCode, Two(TimeCode(form), LenCode))
  BY <1>c, <1>t1, TwoIs
<1>t3. IsCode(Three(TimeCode(form), LenCode, LenCode))
           /\ Appends(Two(TimeCode(form), LenCode), LenCode, Three(TimeCode(form), LenCode, LenCode))
  BY <1>c, <1>t2, ThreeIs
<1>p1. PICK n1, o1 : n1 = ReadTimestamp(form, r) /\ o1 = First(n1)
  OBVIOUS
<1>q1. Parsed(n1, TimeCode(form), r.rest)
  BY <1>p1, ReadTimestampParsed
<1>r1. Parsed(o1, One(TimeCode(form)), r.rest)
  BY <1>p1, <1>q1, FirstParsed
<1>p2. PICK n2, o2 : n2 = ReadLenPrefixed(o1) /\ o2 = Behind(o1, n2)
  OBVIOUS
<1>q2. o1.ok => Parsed(n2, LenCode, o1.rest)
  <2>1. o1.ok => o1.rest \in Str
    BY <1>r1, ParsedIs
  <2> QED
    BY <1>p2, <2>1, ReadLenPrefixedParsed
<1>r2. Parsed(o2, Two(TimeCode(form), LenCode), r.rest)
  BY <1>c, <1>t1, <1>t2, <1>p2, <1>q2, <1>r1, BehindParsed
<1>p3. PICK n3, o3 : n3 = ReadLenPrefixed(o2) /\ o3 = Behind(o2, n3)
  OBVIOUS
<1>q3. o2.ok => Parsed(n3, LenCode, o2.rest)
  <2>1. o2.ok => o2.rest \in Str
    BY <1>r2, ParsedIs
  <2> QED
    BY <1>p3, <2>1, ReadLenPrefixedParsed
<1>r3. Parsed(o3, Three(TimeCode(form), LenCode, LenCode), r.rest)
  BY <1>c, <1>t2, <1>t3, <1>p3, <1>q3, <1>r2, BehindParsed
<1>1. ReadOpEntry(form, r) = IF o3.ok
          THEN Good([is |-> "op", timestamp |-> o3.val[1], user |-> o3.val[2],
          op |-> o3.val[3]], o3.rest) ELSE Failed
  BY <1>p1, <1>p2, <1>p3 DEF ReadOpEntry, ReadNext, ReadFirst, Into
<1>2. o3.ok => OpOfLogOf(form)[o3.val]
          = [is |-> "op", timestamp |-> o3.val[1], user |-> o3.val[2], op |-> o3.val[3]]
  <2>1. o3.ok => o3.val \in DOMAIN OpOfLogTuples(form)
    BY <1>r3, ParsedIs DEF OpOfLogTuples
  <2> QED
    BY <2>1 DEF OpOfLogOf
<1>3. /\ ~o3.ok => ReadOpEntry(form, r) = Failed
      /\ o3.ok => ReadOpEntry(form, r) = Good(OpOfLogOf(form)[o3.val], o3.rest)
  BY <1>1, <1>2
<1>4. Renames(OpOfLogOf(form), Three(TimeCode(form), LenCode, LenCode), OpOfLogCode(form))
  BY OpOfLogIs DEF OpOfLogTuples
<1> QED
  BY <1>3, <1>4, <1>r3, IntoParsed

UseKeySet == [is : {"use_key"}, cipher : CipherInfo]
UseKeyCode == [x \in UseKeySet |-> CipherBytes(x.cipher)]
UseKeyOf == [v \in CipherInfo |-> [is |-> "use_key", cipher |-> v]]

\* The code of UseKey.
LEMMA UseKeyIs ==
    /\ DOMAIN UseKeyCode = UseKeySet /\ \A x \in UseKeySet : UseKeyCode[x] = CipherBytes(x.cipher)
    /\ \A v \in CipherInfo : UseKeyOf[v] = [is |-> "use_key", cipher |-> v]
    /\ IsCode(UseKeyCode) /\ Renames(UseKeyOf, CipherCode, UseKeyCode)
<1>1. DOMAIN UseKeyCode = UseKeySet /\ \A x \in UseKeySet : UseKeyCode[x] = CipherBytes(x.cipher)
  BY DEF UseKeyCode
<1>2. \A v \in CipherInfo : UseKeyOf[v] = [is |-> "use_key", cipher |-> v]
  BY DEF UseKeyOf
<1>3. /\ IsCode(CipherCode) /\ DOMAIN CipherCode = CipherInfo
      /\ \A y \in CipherInfo : CipherCode[y] = CipherBytes(y)
  BY CipherIs
<1>4. ASSUME NEW v \in CipherInfo
                 PROVE UseKeyOf[v] \in UseKeySet /\ UseKeyCode[UseKeyOf[v]] = CipherCode[v]
  <2>1. PICK x : x = [is |-> "use_key", cipher |-> v]
    OBVIOUS
  <2>2. x \in UseKeySet /\ x.cipher = v
    BY <2>1 DEF UseKeySet
  <2> QED
    BY <1>1, <1>2, <1>3, <2>1, <2>2
<1>5. ASSUME NEW x \in UseKeySet PROVE \E v \in CipherInfo : UseKeyOf[v] = x
  <2>1. x.cipher \in CipherInfo /\ x = [is |-> "use_key", cipher |-> x.cipher]
    BY DEF UseKeySet
  <2> QED
    BY <1>2, <2>1
<1>6. Renames(UseKeyOf, CipherCode, UseKeyCode)
  BY <1>1, <1>3, <1>4, <1>5 DEF Renames
<1>7. IsCode(UseKeyCode)
  <2>1. ASSUME NEW x \in UseKeySet PROVE UseKeyCode[x] \in Str
    <3>1. PICK v \in CipherInfo : UseKeyOf[v] = x
      BY <1>5
    <3>2. UseKeyCode[x] = CipherCode[v]
      BY <1>4, <3>1
    <3> QED
      BY <1>3, <3>2 DEF IsCode
  <2> QED
    BY <1>1, <2>1 DEF IsCode
<1> QED
  BY <1>1, <1>2, <1>6, <1>7

SignatureSet == [is : {"signature"}, signature : Key]
SignatureEntryCode == [x \in SignatureSet |-> TaggedBytes(x.signature)]
SignatureEntryOf == [v \in Key |-> [is |-> "signature", signature |-> v]]

\* The code of a signature in the log.
LEMMA SignatureEntryIs ==
    /\ DOMAIN SignatureEntryCode = SignatureSet
           /\ \A x \in SignatureSet : SignatureEntryCode[x] = TaggedBytes(x.signature)
    /\ \A v \in Key : SignatureEntryOf[v] = [is |-> "signature", signature |-> v]
    /\ IsCode(SignatureEntryCode) /\ Renames(SignatureEntryOf, KeyCode, SignatureEntryCode)
<1>1. DOMAIN SignatureEntryCode = SignatureSet
          /\ \A x \in SignatureSet : SignatureEntryCode[x] = TaggedBytes(x.signature)
  BY DEF SignatureEntryCode
<1>2. \A v \in Key : SignatureEntryOf[v] = [is |-> "signature", signature |-> v]
  BY DEF SignatureEntryOf
<1>3. /\ IsCode(KeyCode) /\ DOMAIN KeyCode = Key
      /\ \A y \in Key : KeyCode[y] = TaggedBytes(y)
  BY KeyIs
<1>4. ASSUME NEW v \in Key PROVE SignatureEntryOf[v] \in SignatureSet
                 /\ SignatureEntryCode[SignatureEntryOf[v]] = KeyCode[v]
  <2>1. PICK x : x = [is |-> "signature", signature |-> v]
    OBVIOUS
  <2>2. x \in SignatureSet /\ x.signature = v
    BY <2>1 DEF SignatureSet
  <2> QED
    BY <1>1, <1>2, <1>3, <2>1, <2>2
<1>5. ASSUME NEW x \in SignatureSet PROVE \E v \in Key : SignatureEntryOf[v] = x
  <2>1. x.signature \in Key /\ x = [is |-> "signature", signature |-> x.signature]
    BY DEF SignatureSet
  <2> QED
    BY <1>2, <2>1
<1>6. Renames(SignatureEntryOf, KeyCode, SignatureEntryCode)
  BY <1>1, <1>3, <1>4, <1>5 DEF Renames
<1>7. IsCode(SignatureEntryCode)
  <2>1. ASSUME NEW x \in SignatureSet PROVE SignatureEntryCode[x] \in Str
    <3>1. PICK v \in Key : SignatureEntryOf[v] = x
      BY <1>5
    <3>2. SignatureEntryCode[x] = KeyCode[v]
      BY <1>4, <3>1
    <3> QED
      BY <1>3, <3>2 DEF IsCode
  <2> QED
    BY <1>1, <2>1 DEF IsCode
<1> QED
  BY <1>1, <1>2, <1>6, <1>7

ExpungedSet == [is : {"expunged"}, hash : Array]
ExpungedCode == [x \in ExpungedSet |-> x.hash]
ExpungedOf == [v \in Array |-> [is |-> "expunged", hash |-> v]]

\* The code of an entry that was expunged.
LEMMA ExpungedIs ==
    /\ DOMAIN ExpungedCode = ExpungedSet /\ \A x \in ExpungedSet : ExpungedCode[x] = x.hash
    /\ \A v \in Array : ExpungedOf[v] = [is |-> "expunged", hash |-> v]
    /\ IsCode(ExpungedCode) /\ Renames(ExpungedOf, ArrayCode, ExpungedCode)
<1>1. DOMAIN ExpungedCode = ExpungedSet /\ \A x \in ExpungedSet : ExpungedCode[x] = x.hash
  BY DEF ExpungedCode
<1>2. \A v \in Array : ExpungedOf[v] = [is |-> "expunged", hash |-> v]
  BY DEF ExpungedOf
<1>3. /\ IsCode(ArrayCode) /\ DOMAIN ArrayCode = Array
      /\ \A y \in Array : ArrayCode[y] = y
  BY CodesOfNumbers, CodesAre
<1>4. ASSUME NEW v \in Array PROVE ExpungedOf[v] \in ExpungedSet
                 /\ ExpungedCode[ExpungedOf[v]] = ArrayCode[v]
  <2>1. PICK x : x = [is |-> "expunged", hash |-> v]
    OBVIOUS
  <2>2. x \in ExpungedSet /\ x.hash = v
    BY <2>1 DEF ExpungedSet
  <2> QED
    BY <1>1, <1>2, <1>3, <2>1, <2>2
<1>5. ASSUME NEW x \in ExpungedSet PROVE \E v \in Array : ExpungedOf[v] = x
  <2>1. x.hash \in Array /\ x = [is |-> "expunged", hash |-> x.hash]
    BY DEF ExpungedSet
  <2> QED
    BY <1>2, <2>1
<1>6. Renames(ExpungedOf, ArrayCode, ExpungedCode)
  BY <1>1, <1>3, <1>4, <1>5 DEF Renames
<1>7. IsCode(ExpungedCode)
  <2>1. ASSUME NEW x \in ExpungedSet PROVE ExpungedCode[x] \in Str
    <3>1. PICK v \in Array : ExpungedOf[v] = x
      BY <1>5
    <3>2. ExpungedCode[x] = ArrayCode[v]
      BY <1>4, <3>1
    <3> QED
      BY <1>3, <3>2 DEF IsCode
  <2> QED
    BY <1>1, <2>1 DEF IsCode
<1> QED
  BY <1>1, <1>2, <1>6, <1>7

EntryCode(form) == [e \in LogEntry(form) |-> EntryBytes(form, e)]
EntryTags(form) ==
    [t \in {0, 1, 2, 3} |-> IF t = 0 THEN OpOfLogCode(form)
                            ELSE IF t = 1 THEN UseKeyCode
                            ELSE IF t = 2 THEN SignatureEntryCode ELSE ExpungedCode]

\* The tags of the entries of a log differ.
LEMMA EntryTagsAre ==
    ASSUME NEW form
    PROVE  /\ DOMAIN EntryTags(form) = {0, 1, 2, 3}
           /\ EntryTags(form)[0] = OpOfLogCode(form) /\ EntryTags(form)[1] = UseKeyCode
           /\ EntryTags(form)[2] = SignatureEntryCode /\ EntryTags(form)[3] = ExpungedCode
           /\ \A t \in DOMAIN EntryTags(form) : IsCode(EntryTags(form)[t])
<1>1. /\ DOMAIN EntryTags(form) = {0, 1, 2, 3}
      /\ EntryTags(form)[0] = OpOfLogCode(form) /\ EntryTags(form)[1] = UseKeyCode
      /\ EntryTags(form)[2] = SignatureEntryCode /\ EntryTags(form)[3] = ExpungedCode
  BY DEF EntryTags
<1>2. IsCode(OpOfLogCode(form)) /\ IsCode(UseKeyCode) /\ IsCode(SignatureEntryCode)
          /\ IsCode(ExpungedCode)
  BY OpOfLogIs, UseKeyIs, SignatureEntryIs, ExpungedIs
<1> QED
  BY <1>1, <1>2

\* The code of LogEntry.
LEMMA EntryIs ==
    ASSUME NEW form
    PROVE  /\ DOMAIN EntryCode(form) = LogEntry(form)
           /\ \A e \in LogEntry(form) : EntryCode(form)[e] = EntryBytes(form, e)
           /\ Tags(EntryTags(form), EntryCode(form))
           /\ IsCode(EntryCode(form)) /\ NoneEmpty(EntryCode(form))
<1>1. /\ DOMAIN EntryCode(form) = LogEntry(form)
      /\ \A e \in LogEntry(form) : EntryCode(form)[e] = EntryBytes(form, e)
  BY DEF EntryCode
<1>2. LogEntry(form) = OpOfLog(form) \cup UseKeySet \cup SignatureSet \cup ExpungedSet
  BY DEF LogEntry, OpOfLog, UseKeySet, SignatureSet, ExpungedSet
<1>3. /\ DOMAIN OpOfLogCode(form) = OpOfLog(form) /\ DOMAIN UseKeyCode = UseKeySet
      /\ DOMAIN SignatureEntryCode = SignatureSet /\ DOMAIN ExpungedCode = ExpungedSet
  BY OpOfLogIs, UseKeyIs, SignatureEntryIs, ExpungedIs
<1>4. ASSUME NEW e \in OpOfLog(form) PROVE EntryBytes(form, e) = Cat(<<0>>, OpOfLogCode(form)[e])
  <2>1. e.is = "op" /\ e.timestamp \in Timestamp(form) /\ e.user \in ByteString /\ e.op \in ByteString
    BY DEF OpOfLog
  <2>2. EntryBytes(form, e) = <<0>> \o TimestampBytes(form, e.timestamp) \o LenPrefixed(e.user)
            \o LenPrefixed(e.op)
    BY <2>1 DEF EntryBytes
  <2>3. PICK t, u, o : t = TimestampBytes(form, e.timestamp) /\ u = LenPrefixed(e.user)
                 /\ o = LenPrefixed(e.op)
    OBVIOUS
  <2>4. t \in Str
    BY <2>1, <2>3, TimeIs DEF IsCode
  <2>5. u \in Str /\ o \in Str
    BY <2>1, <2>3, LenIs DEF IsCode
  <2>6. <<0>> \in Str
    BY TagBytes DEF Str
  <2>7. <<0>> \o t \o u \o o = <<0>> \o (t \o u \o o)
    <3>1. t \o u \in Str /\ <<0>> \o t \in Str
      BY <2>4, <2>5, <2>6, ConcatIs
    <3>2. (<<0>> \o t) \o u = <<0>> \o (t \o u)
      BY <2>4, <2>5, <2>6, ConcatIs
    <3>3. (<<0>> \o (t \o u)) \o o = <<0>> \o ((t \o u) \o o)
      BY <2>5, <2>6, <3>1, ConcatIs
    <3> QED
      BY <3>2, <3>3
  <2>8. OpOfLogCode(form)[e] = t \o u \o o
    BY <2>3, OpOfLogIs DEF OpOfLogBytes
  <2> QED
    BY <2>2, <2>3, <2>7, <2>8 DEF Cat
<1>5. ASSUME NEW e \in UseKeySet PROVE EntryBytes(form, e) = Cat(<<1>>, UseKeyCode[e])
  <2>1. e.is = "use_key"
    BY DEF UseKeySet
  <2> QED
    BY <2>1, UseKeyIs DEF EntryBytes, Cat
<1>6. ASSUME NEW e \in SignatureSet PROVE EntryBytes(form, e) = Cat(<<2>>, SignatureEntryCode[e])
  <2>1. e.is = "signature"
    BY DEF SignatureSet
  <2> QED
    BY <2>1, SignatureEntryIs DEF EntryBytes, Cat
<1>7. ASSUME NEW e \in ExpungedSet PROVE EntryBytes(form, e) = Cat(<<3>>, ExpungedCode[e])
  <2>1. e.is = "expunged"
    BY DEF ExpungedSet
  <2> QED
    BY <2>1, ExpungedIs DEF EntryBytes, Cat
<1>8. Tags(EntryTags(form), EntryCode(form))
  <2>1. ASSUME NEW t \in DOMAIN EntryTags(form), NEW u, u \in DOMAIN EntryTags(form)[t]
        PROVE  u \in DOMAIN EntryCode(form) /\ EntryCode(form)[u] = Cat(<<t>>, EntryTags(form)[t][u])
    <3>1. t = 0 \/ t = 1 \/ t = 2 \/ t = 3
      BY EntryTagsAre
    <3>2. CASE t = 0
      BY <1>1, <1>2, <1>3, <1>4, <2>1, <3>2, EntryTagsAre
    <3>3. CASE t = 1
      BY <1>1, <1>2, <1>3, <1>5, <2>1, <3>3, EntryTagsAre
    <3>4. CASE t = 2
      BY <1>1, <1>2, <1>3, <1>6, <2>1, <3>4, EntryTagsAre
    <3>5. CASE t = 3
      BY <1>1, <1>2, <1>3, <1>7, <2>1, <3>5, EntryTagsAre
    <3> QED
      BY <3>1, <3>2, <3>3, <3>4, <3>5
  <2>2. ASSUME NEW u \in DOMAIN EntryCode(form)
        PROVE  \E t \in DOMAIN EntryTags(form) : u \in DOMAIN EntryTags(form)[t]
    <3>1. u \in OpOfLog(form) \/ u \in UseKeySet \/ u \in SignatureSet \/ u \in ExpungedSet
      BY <1>1, <1>2
    <3>2. {0, 1, 2, 3} = DOMAIN EntryTags(form)
      BY EntryTagsAre
    <3> QED
      BY <1>3, <3>1, <3>2, EntryTagsAre
  <2> QED
    BY <2>1, <2>2 DEF Tags
<1>9. IsCode(EntryCode(form)) /\ NoneEmpty(EntryCode(form))
  <2>1. DOMAIN EntryTags(form) \subseteq Bytes
    BY EntryTagsAre, TagBytes
  <2> QED
    BY <1>8, <2>1, EntryTagsAre, TagsAreCode
<1> QED
  BY <1>1, <1>8, <1>9

\* LogEntry::decode().
LEMMA EntryParsed ==
    ASSUME NEW form, NEW r, r.ok, r.rest \in Str
    PROVE  Parsed(ReadEntry(form, r), EntryCode(form), r.rest)
<1>1. PICK tag, p : tag = ReadByte(r) /\ p = ReadEntry(form, r)
  OBVIOUS
<1>2. Parsed(tag, FlagCode(Bytes), r.rest)
  BY <1>1, ReadTagParsed
<1>3. tag.ok => tag.rest \in Str
  BY <1>2, ParsedIs
<1>4. PICK cipher, signature, hash : cipher = ReadCipher(tag) /\ signature = ReadTagged(tag)
               /\ hash = ReadArray(tag)
  OBVIOUS
<1>5. p = CASE Tagged(tag, 0) -> ReadOpEntry(form, tag)
            [] Tagged(tag, 1) -> (IF cipher.ok
                THEN Good([is |-> "use_key", cipher |-> cipher.val], cipher.rest)
                                  ELSE Failed)
            [] Tagged(tag, 2) -> (IF signature.ok
                                  THEN Good([is |-> "signature", signature |-> signature.val],
                                    signature.rest)
                                  ELSE Failed)
            [] Tagged(tag, 3) -> (IF hash.ok
                THEN Good([is |-> "expunged", hash |-> hash.val], hash.rest)
                                  ELSE Failed)
            [] OTHER -> Failed
  BY <1>1, <1>4 DEF ReadEntry, Into
<1>6. ASSUME tag.ok, tag.val = 0 PROVE Parsed(p, OpOfLogCode(form), tag.rest)
  <2>1. p = ReadOpEntry(form, tag)
    BY <1>5, <1>6 DEF Tagged
  <2> QED
    BY <1>3, <1>6, <2>1, OpOfLogParsed
<1>7. ASSUME tag.ok, tag.val = 1 PROVE Parsed(p, UseKeyCode, tag.rest)
  <2>1. p = IF cipher.ok THEN Good([is |-> "use_key", cipher |-> cipher.val], cipher.rest) ELSE Failed
    BY <1>5, <1>7 DEF Tagged
  <2>2. Parsed(cipher, CipherCode, tag.rest)
    BY <1>3, <1>4, <1>7, CipherParsed
  <2>3. cipher.ok => cipher.val \in CipherInfo
    BY <2>2, ParsedIs, CipherIs
  <2>4. /\ ~cipher.ok => p = Failed
        /\ cipher.ok => p = Good(UseKeyOf[cipher.val], cipher.rest)
    BY <2>1, <2>3, UseKeyIs
  <2> QED
    BY <2>2, <2>4, UseKeyIs, IntoParsed
<1>8. ASSUME tag.ok, tag.val = 2 PROVE Parsed(p, SignatureEntryCode, tag.rest)
  <2>1. p = IF signature.ok
            THEN Good([is |-> "signature", signature |-> signature.val], signature.rest) ELSE Failed
    BY <1>5, <1>8 DEF Tagged
  <2>2. Parsed(signature, KeyCode, tag.rest)
    BY <1>3, <1>4, <1>8, KeyParsed
  <2>3. signature.ok => signature.val \in Key
    BY <2>2, ParsedIs, KeyIs
  <2>4. /\ ~signature.ok => p = Failed
        /\ signature.ok => p = Good(SignatureEntryOf[signature.val], signature.rest)
    BY <2>1, <2>3, SignatureEntryIs
  <2> QED
    BY <2>2, <2>4, SignatureEntryIs, IntoParsed
<1>9. ASSUME tag.ok, tag.val = 3 PROVE Parsed(p, ExpungedCode, tag.rest)
  <2>1. p = IF hash.ok THEN Good([is |-> "expunged", hash |-> hash.val], hash.rest) ELSE Failed
    BY <1>5, <1>9 DEF Tagged
  <2>2. Parsed(hash, ArrayCode, tag.rest)
    BY <1>3, <1>4, <1>9, ReadArrayParsed
  <2>3. hash.ok => hash.val \in Array
    BY <2>2, ParsedIs, CodesAre
  <2>4. /\ ~hash.ok => p = Failed
        /\ hash.ok => p = Good(ExpungedOf[hash.val], hash.rest)
    BY <2>1, <2>3, ExpungedIs
  <2> QED
    BY <2>2, <2>4, ExpungedIs, IntoParsed
<1>10. /\ ~tag.ok => p = Failed
       /\ tag.ok /\ tag.val \notin {0, 1, 2, 3} => p = Failed
  BY <1>5 DEF Tagged
<1>11. tag.ok /\ tag.val \in DOMAIN EntryTags(form) => Parsed(p, EntryTags(form)[tag.val], tag.rest)
  BY <1>6, <1>7, <1>8, <1>9, EntryTagsAre
<1>12. DOMAIN EntryTags(form) = {0, 1, 2, 3} /\ {0, 1, 2, 3} \subseteq Bytes /\ Bytes \in SUBSET Bytes
  BY EntryTagsAre, TagBytes
<1>13. Tags(EntryTags(form), EntryCode(form)) /\ \A t \in DOMAIN EntryTags(form) :
           IsCode(EntryTags(form)[t])
  BY EntryIs, EntryTagsAre
<1>14. Parsed(p, EntryCode(form), r.rest)
  BY <1>2, <1>10, <1>11, <1>12, <1>13, TagParsed
<1> QED
  BY <1>1, <1>14

EntriesCode(form) == AllCode(EntryCode(form))

\* The entries of a plaintext segment, one behind the other.
LEMMA EntriesAre ==
    ASSUME NEW form
    PROVE  /\ DOMAIN EntriesCode(form) = Seq(LogEntry(form))
           /\ \A v \in Seq(LogEntry(form)) : EntriesCode(form)[v] = EntriesBytes(form, v)
           /\ IsCode(EntriesCode(form))
<1>1. /\ DOMAIN EntryCode(form) = LogEntry(form) /\ IsCode(EntryCode(form))
      /\ \A e \in LogEntry(form) : EntryCode(form)[e] = EntryBytes(form, e)
  BY EntryIs
<1>2. /\ DOMAIN EntriesCode(form) = Seq(LogEntry(form))
      /\ IsCode(EntriesCode(form))
  BY <1>1, AllCodeIs DEF EntriesCode, AllCode
<1>3. ASSUME NEW v \in Seq(LogEntry(form)) PROVE EntriesCode(form)[v] = EntriesBytes(form, v)
  <2>1. EntriesCode(form)[v] = FlattenSeq([k \in DOMAIN v |-> EntryCode(form)[v[k]]])
    BY <1>1 DEF EntriesCode, AllCode
  <2>2. \A k \in DOMAIN v : EntryCode(form)[v[k]] = EntryBytes(form, v[k])
    <3>1. \A k \in DOMAIN v : v[k] \in LogEntry(form)
      OBVIOUS
    <3> QED
      BY <1>1, <3>1
  <2>3. [k \in DOMAIN v |-> EntryCode(form)[v[k]]] = [k \in DOMAIN v |-> EntryBytes(form, v[k])]
    BY <2>2
  <2>4. EntriesBytes(form, v) = FlattenSeq([k \in DOMAIN v |-> EntryBytes(form, v[k])])
    BY DEF EntriesBytes, All
  <2> QED
    BY <2>1, <2>3, <2>4
<1> QED
  BY <1>2, <1>3

\* EntryReader, to the end of the bytes.
LEMMA EntriesParsed ==
    ASSUME NEW form, NEW r, r.ok, r.rest \in Str
    PROVE  ParsedAll(ReadEntries(form, r), EntriesCode(form), r.rest)
<1> DEFINE S == LogEntry(form)
           n == Len(r.rest)
           Step(o) == IF o.rest = <<>> THEN o ELSE Behind(o, ReadEntry(form, o))
           Solves(g) == g = [i \in 0 .. Len(r.rest) |->
                IF i = 0 THEN (IF r.ok THEN Good(<<>>, r.rest) ELSE Failed)
                ELSE IF g[i - 1].rest = <<>> THEN g[i - 1]
                    ELSE Behind(g[i - 1], ReadEntry(form, g[i - 1]))]
           read == CHOOSE g : Solves(g)
           next == [k \in 1 .. n |-> ReadEntry(form, read[k - 1])]
           start == Good(<<>>, r.rest)
           steps == [k \in 1 .. n |-> [o \in Outcomes(S) |-> Step(o)]]
<1>1. ReadEntries(form, r) = read[n]
  BY DEF ReadEntries, ReadToEnd, NextOfRest, Into, ReadNext
<1>2. n \in Nat
  BY DEF Str
<1>3. /\ IsCode(EntryCode(form)) /\ NoneEmpty(EntryCode(form)) /\ DOMAIN EntryCode(form) = S
  BY EntryIs
<1>4. start \in Outcomes(S)
  <2>1. <<>> \in Seq(S)
    OBVIOUS
  <2> HIDE DEF S
  <2> QED
    BY <2>1, OutcomesAre
<1>5. \A o \in Outcomes(S) : Step(o) \in Outcomes(S)
  <2>1. ASSUME NEW o \in Outcomes(S) PROVE Behind(o, ReadEntry(form, o)) \in Outcomes(S)
    <3>1. o.ok => o.rest \in Str
      BY OutcomesAre
    <3>2. o.ok => Parsed(ReadEntry(form, o), EntryCode(form), o.rest)
      BY <3>1, EntryParsed
    <3>3. DOMAIN EntryCode(form) \subseteq S
      BY <1>3
    <3> HIDE DEF S
    <3> QED
      BY <3>2, <3>3, BehindOutcome
  <2> HIDE DEF S
  <2> QED
    BY <2>1
<1>6. PICK f : Iterates(f, Outcomes(S), start, steps, n)
  <2>1. Steps(steps, Outcomes(S), n)
    <3> HIDE DEF Step, S, n
    <3> QED
      BY <1>5 DEF Steps
  <2> HIDE DEF steps, S, start, n
  <2> QED
    BY <1>2, <1>4, <2>1, RecursionIs
<1>7. /\ f \in [0 .. n -> Outcomes(S)] /\ f[0] = start
      /\ \A k \in 1 .. n : f[k] = steps[k][f[k - 1]]
  BY <1>6 DEF Iterates
<1>8. \A k \in 1 .. n : f[k] = Step(f[k - 1])
  <2>1. ASSUME NEW k \in 1 .. n PROVE f[k] = Step(f[k - 1])
    <3> HIDE DEF Step, S, start, n
    <3>1. f[k - 1] \in Outcomes(S)
      BY <1>2, <1>7
    <3>2. steps[k][f[k - 1]] = Step(f[k - 1])
      BY <3>1
    <3> QED
      BY <1>7, <3>2
  <2> QED
    BY <2>1
<1>9. Solves(f)
  <2>1. \A i \in 0 .. n : i # 0 => i \in 1 .. n
    BY <1>2
  <2>2. \A i \in 0 .. n : f[i] = IF i = 0 THEN (IF r.ok THEN Good(<<>>, r.rest) ELSE Failed)
                                 ELSE Step(f[i - 1])
    BY <1>7, <1>8, <2>1
  <2>3. f = [i \in 0 .. n |-> f[i]]
    BY <1>7
  <2> QED
    BY <2>2, <2>3
<1>10. Solves(read)
  <2> HIDE DEF Solves
  <2> QED
    BY <1>9
<1> HIDE DEF read
<1>11. /\ read[0] = Good(<<>>, r.rest)
       /\ \A k \in 1 .. n : read[k] = Step(read[k - 1])
  <2>1. 0 \in 0 .. n /\ \A k \in 1 .. n : k \in 0 .. n /\ k # 0
    BY <1>2
  <2> QED
    BY <1>10, <2>1
<1>12. ASSUME NEW k \in 1 .. n
       PROVE  /\ read[k - 1].rest = <<>> => read[k] = read[k - 1]
              /\ read[k - 1].rest # <<>> => read[k] = Behind(read[k - 1], next[k])
              /\ read[k - 1].ok /\ read[k - 1].rest \in Str
                     => Parsed(next[k], EntryCode(form), read[k - 1].rest)
  <2>1. PICK q : q = read[k - 1]
    OBVIOUS
  <2>2. next[k] = ReadEntry(form, q)
    BY <2>1
  <2>3. read[k] = Step(q)
    BY <1>11, <2>1
  <2>4. q.ok /\ q.rest \in Str => Parsed(ReadEntry(form, q), EntryCode(form), q.rest)
    BY EntryParsed
  <2> HIDE DEF next
  <2> QED
    BY <2>1, <2>2, <2>3, <2>4
<1> HIDE DEF next
<1>13. ReadsToEnd(read, next, EntryCode(form), r.rest, n)
  BY <1>11, <1>12 DEF ReadsToEnd
<1>14. ParsedAll(read[n], EntriesCode(form), r.rest)
  BY <1>3, <1>13, ToEndParsed DEF EntriesCode
<1> QED
  BY <1>1, <1>14

-----------------------------------------------------------------------------
(* Segments *)

\* The tags of the two kinds of segments differ.
LEMMA SegmentTagsAre ==
    /\ IsCode(FlagCode({1})) /\ NoneEmpty(FlagCode({1}))
    /\ IsCode(RestCode) /\ DOMAIN RestCode = Str /\ \A w \in Str : RestCode[w] = w
<1>1. {1} \in SUBSET Bytes
  BY TagBytes
<1>2. IsCode(FlagCode({1})) /\ NoneEmpty(FlagCode({1}))
  BY <1>1, CodesOfNumbers, NumbersNoneEmpty
<1> QED
  BY <1>2, CodesAre DEF IsCode

OpaqueEntriesBytes(entries) == EntriesBytes("opaque", entries)

\* The entries of an opaque segment.
LEMMA OpaqueEntriesAre ==
    /\ DOMAIN EntriesCode("opaque") = Seq(LogEntry("opaque"))
    /\ \A v \in Seq(LogEntry("opaque")) : EntriesCode("opaque")[v] = OpaqueEntriesBytes(v)
    /\ IsCode(EntriesCode("opaque"))
  BY EntriesAre DEF OpaqueEntriesBytes

OpaqueSegment ==
    [prev : ChainHead, signature : Key, form : {"opaque"}, encryption : {<<>>},
     start : Option(CipherInfo), payload : Seq(LogEntry("opaque"))]

OpaqueBytes(seg) ==
    ChainBytes(seg.prev) \o TaggedBytes(seg.signature) \o <<0>> \o OptionBytes(seg.start, CipherBytes)
      \o OpaqueEntriesBytes(seg.payload)

PlaintextSegment ==
    [prev : ChainHead, signature : Key, form : {"plaintext"}, encryption : Option(EncryptionInfo),
     start : Option(CipherInfo), payload : Str]

PlaintextBytes(seg) ==
    ChainBytes(seg.prev) \o TaggedBytes(seg.signature) \o <<1>>
      \o OptionBytes(seg.encryption, EncryptionBytes) \o <<0>> \o OptionBytes(seg.start, CipherBytes)
      \o seg.payload

OpaqueCode == [x \in OpaqueSegment |-> OpaqueBytes(x)]
OpaqueTuples == Five(ChainCode, KeyCode, FlagCode({0}), OptionCode(CipherCode), EntriesCode("opaque"))
OpaqueOf == [v \in DOMAIN OpaqueTuples |->
    [prev |-> v[1], signature |-> v[2], form |-> "opaque", encryption |-> <<>>, start |-> v[4],
    payload |-> v[5]]]

\* The code of an opaque segment.
LEMMA OpaqueIs ==
    /\ DOMAIN OpaqueCode = OpaqueSegment /\ \A x \in OpaqueSegment : OpaqueCode[x] = OpaqueBytes(x)
    /\ IsCode(OpaqueCode) /\ NoneEmpty(OpaqueCode)
    /\ Renames(OpaqueOf, OpaqueTuples, OpaqueCode)
<1> DEFINE T == Five(ChainCode, KeyCode, FlagCode({0}), OptionCode(CipherCode), EntriesCode("opaque"))
<1>c. IsCode(ChainCode) /\ IsCode(KeyCode) /\ IsCode(FlagCode({0}))
          /\ IsCode(OptionCode(CipherCode)) /\ IsCode(EntriesCode("opaque"))
  BY ChainIs, KeyIs, MaybeCipherIs, OpaqueEntriesAre, TagCodes
<1>t1. IsCode(One(ChainCode))
  BY <1>c, OneIs
<1>t2. IsCode(Two(ChainCode, KeyCode)) /\ Appends(One(ChainCode), KeyCode, Two(ChainCode, KeyCode))
  BY <1>c, <1>t1, TwoIs
<1>t3. IsCode(Three(ChainCode, KeyCode, FlagCode({0})))
           /\ Appends(Two(ChainCode, KeyCode), FlagCode({0}), Three(ChainCode, KeyCode, FlagCode({0})))
  BY <1>c, <1>t2, ThreeIs
<1>t4. IsCode(Four(ChainCode, KeyCode, FlagCode({0}), OptionCode(CipherCode)))
           /\ Appends(Three(ChainCode, KeyCode, FlagCode({0})), OptionCode(CipherCode),
           Four(ChainCode, KeyCode, FlagCode({0}), OptionCode(CipherCode)))
  BY <1>c, <1>t3, FourIs
<1>t5. IsCode(Five(ChainCode, KeyCode, FlagCode({0}), OptionCode(CipherCode),
           EntriesCode("opaque")))
           /\ Appends(Four(ChainCode, KeyCode, FlagCode({0}), OptionCode(CipherCode)),
           EntriesCode("opaque"),
           Five(ChainCode, KeyCode, FlagCode({0}), OptionCode(CipherCode), EntriesCode("opaque")))
  BY <1>c, <1>t4, FiveIs
<1>n1. NoneEmpty(One(ChainCode))
  <2>1. NoneEmpty(ChainCode)
    BY ChainIs
  <2> QED
    BY <2>1, OneNoneEmpty
<1>n2. NoneEmpty(Two(ChainCode, KeyCode))
  BY <1>c, <1>t1, <1>t2, <1>n1, AppendsNoneEmpty
<1>n3. NoneEmpty(Three(ChainCode, KeyCode, FlagCode({0})))
  BY <1>c, <1>t2, <1>t3, <1>n2, AppendsNoneEmpty
<1>n4. NoneEmpty(Four(ChainCode, KeyCode, FlagCode({0}), OptionCode(CipherCode)))
  BY <1>c, <1>t3, <1>t4, <1>n3, AppendsNoneEmpty
<1>n5. NoneEmpty(Five(ChainCode, KeyCode, FlagCode({0}), OptionCode(CipherCode), EntriesCode("opaque")))
  BY <1>c, <1>t4, <1>t5, <1>n4, AppendsNoneEmpty
<1>d1. DOMAIN ChainCode = ChainHead /\ \A y \in ChainHead : ChainCode[y] = ChainBytes(y)
  BY ChainIs
<1>d2. DOMAIN KeyCode = Key /\ \A y \in Key : KeyCode[y] = TaggedBytes(y)
  BY KeyIs
<1>d3. DOMAIN FlagCode({0}) = {0} /\ \A y \in {0} : FlagCode({0})[y] = <<y>>
  BY FlagCodeIs
<1>d4. DOMAIN OptionCode(CipherCode) = Option(CipherInfo) /\ \A y \in Option(CipherInfo) :
           OptionCode(CipherCode)[y] = MaybeCipherBytes(y)
  BY MaybeCipherIs
<1>d5. DOMAIN EntriesCode("opaque") = Seq(LogEntry("opaque"))
           /\ \A y \in Seq(LogEntry("opaque")) : EntriesCode("opaque")[y] = OpaqueEntriesBytes(y)
  BY OpaqueEntriesAre
<1>1. /\ \A a \in ChainHead, b \in Key, c \in {0}, d \in Option(CipherInfo),
             e \in Seq(LogEntry("opaque")) :
            <<a, b, c, d, e>> \in DOMAIN T
      /\ \A a \in ChainHead, b \in Key, c \in {0}, d \in Option(CipherInfo),
             e \in Seq(LogEntry("opaque")) :
            T[<<a, b, c, d, e>>]
                = Cat(Cat(Cat(Cat(ChainBytes(a), TaggedBytes(b)), <<c>>), MaybeCipherBytes(d)),
                OpaqueEntriesBytes(e))
      /\ \A v \in DOMAIN T : \E a \in ChainHead, b \in Key, c \in {0},
             d \in Option(CipherInfo), e \in Seq(LogEntry("opaque")) : v = <<a, b, c, d, e>>
  BY <1>d1, <1>d2, <1>d3, <1>d4, <1>d5, FiveTuples
<1>2. DOMAIN OpaqueCode = OpaqueSegment /\ \A x \in OpaqueSegment : OpaqueCode[x] = OpaqueBytes(x)
  BY DEF OpaqueCode
<1>3. DOMAIN OpaqueOf = DOMAIN T
          /\ \A v \in DOMAIN T : OpaqueOf[v]
          = [prev |-> v[1], signature |-> v[2], form |-> "opaque", encryption |-> <<>>,
          start |-> v[4], payload |-> v[5]]
  BY DEF OpaqueOf, OpaqueTuples
<1> HIDE DEF T
<1>4. Renames(OpaqueOf, T, OpaqueCode)
  <2>1. ASSUME NEW a \in ChainHead, NEW b \in Key, NEW c \in {0}, NEW d \in Option(CipherInfo),
                   NEW e \in Seq(LogEntry("opaque"))
        PROVE  OpaqueOf[<<a, b, c, d, e>>] \in OpaqueSegment
                   /\ OpaqueCode[OpaqueOf[<<a, b, c, d, e>>]] = T[<<a, b, c, d, e>>]
    <3>1. PICK x : x = [prev |-> a, signature |-> b, form |-> "opaque", encryption |-> <<>>,
                   start |-> d, payload |-> e]
      OBVIOUS
    <3>2. OpaqueOf[<<a, b, c, d, e>>] = x
      <4>1. <<a, b, c, d, e>> \in DOMAIN T
        BY <1>1
      <4>2. OpaqueOf[<<a, b, c, d, e>>]
                = [prev |-> a, signature |-> b, form |-> "opaque", encryption |-> <<>>,
                start |-> d, payload |-> e]
        BY <1>3, <4>1
      <4> QED
        BY <3>1, <4>2
    <3>3. x \in OpaqueSegment
      BY <3>1 DEF OpaqueSegment
    <3>4. OpaqueBytes(x) = Cat(Cat(Cat(Cat(ChainBytes(a), TaggedBytes(b)), <<c>>),
              MaybeCipherBytes(d)), OpaqueEntriesBytes(e))
      <4>1. x.prev = a /\ x.signature = b /\ 0 = c /\ x.start = d /\ x.payload = e
        BY <3>1
      <4>2. OpaqueBytes(x) = Cat(Cat(Cat(Cat(ChainBytes(x.prev), TaggedBytes(x.signature)),
                <<0>>), MaybeCipherBytes(x.start)), OpaqueEntriesBytes(x.payload))
        BY DEF OpaqueBytes, Cat, MaybeCipherBytes, OptionBytes
      <4> QED
        BY <4>1, <4>2
    <3>5. T[<<a, b, c, d, e>>]
              = Cat(Cat(Cat(Cat(ChainBytes(a), TaggedBytes(b)), <<c>>), MaybeCipherBytes(d)),
              OpaqueEntriesBytes(e))
      BY <1>1
    <3> QED
      BY <1>2, <3>2, <3>3, <3>4, <3>5
  <2>2. ASSUME NEW x \in OpaqueSegment PROVE \E v \in DOMAIN T : OpaqueOf[v] = x
    <3>1. x.prev \in ChainHead /\ x.signature \in Key /\ 0 \in {0}
              /\ x.start \in Option(CipherInfo) /\ x.payload \in Seq(LogEntry("opaque"))
      BY DEF OpaqueSegment
    <3>2. x = [prev |-> x.prev, signature |-> x.signature, form |-> x.form, encryption |->
              x.encryption, start |-> x.start, payload |-> x.payload]
      BY DEF OpaqueSegment
    <3>3. PICK v : v = <<x.prev, x.signature, 0, x.start, x.payload>>
      OBVIOUS
    <3>4. v \in DOMAIN T
      BY <1>1, <3>1, <3>3
    <3>5. OpaqueOf[v] = [prev |-> v[1], signature |-> v[2], form |-> "opaque", encryption |->
              <<>>, start |-> v[4], payload |-> v[5]]
      BY <1>3, <3>4
    <3>6. v[1] = x.prev /\ v[2] = x.signature /\ "opaque" = x.form /\ <<>> = x.encryption
              /\ v[4] = x.start /\ v[5] = x.payload
      BY <3>3 DEF OpaqueSegment
    <3> QED
      BY <3>2, <3>4, <3>5, <3>6
  <2>3. ASSUME NEW v \in DOMAIN T PROVE OpaqueOf[v] \in OpaqueSegment /\ OpaqueCode[OpaqueOf[v]] = T[v]
    <3>1. PICK a \in ChainHead, b \in Key, c \in {0}, d \in Option(CipherInfo),
                   e \in Seq(LogEntry("opaque")) : v = <<a, b, c, d, e>>
      BY <1>1
    <3> QED
      BY <2>1, <3>1
  <2> QED
    BY <1>2, <2>2, <2>3 DEF Renames
<1>5. IsCode(OpaqueCode) /\ NoneEmpty(OpaqueCode)
  BY <1>4, <1>t5, <1>n5, RenamesCode DEF T
<1> QED
  BY <1>2, <1>4, <1>5 DEF T, OpaqueTuples

\* The reader of an opaque segment.
LEMMA OpaqueParsed ==
    ASSUME NEW r, NEW s, Parsed(r, Three(ChainCode, KeyCode, FlagCode({0})), s)
    PROVE  ParsedAll(ReadOpaque(r), OpaqueCode, s)
<1>c. IsCode(ChainCode) /\ IsCode(KeyCode) /\ IsCode(FlagCode({0}))
          /\ IsCode(OptionCode(CipherCode)) /\ IsCode(EntriesCode("opaque"))
  BY ChainIs, KeyIs, MaybeCipherIs, OpaqueEntriesAre, TagCodes
<1>t1. IsCode(One(ChainCode))
  BY <1>c, OneIs
<1>t2. IsCode(Two(ChainCode, KeyCode)) /\ Appends(One(ChainCode), KeyCode, Two(ChainCode, KeyCode))
  BY <1>c, <1>t1, TwoIs
<1>t3. IsCode(Three(ChainCode, KeyCode, FlagCode({0})))
           /\ Appends(Two(ChainCode, KeyCode), FlagCode({0}), Three(ChainCode, KeyCode, FlagCode({0})))
  BY <1>c, <1>t2, ThreeIs
<1>t4. IsCode(Four(ChainCode, KeyCode, FlagCode({0}), OptionCode(CipherCode)))
           /\ Appends(Three(ChainCode, KeyCode, FlagCode({0})), OptionCode(CipherCode),
           Four(ChainCode, KeyCode, FlagCode({0}), OptionCode(CipherCode)))
  BY <1>c, <1>t3, FourIs
<1>t5. IsCode(Five(ChainCode, KeyCode, FlagCode({0}), OptionCode(CipherCode),
           EntriesCode("opaque")))
           /\ Appends(Four(ChainCode, KeyCode, FlagCode({0}), OptionCode(CipherCode)),
           EntriesCode("opaque"),
           Five(ChainCode, KeyCode, FlagCode({0}), OptionCode(CipherCode), EntriesCode("opaque")))
  BY <1>c, <1>t4, FiveIs
<1>r3. Parsed(r, Three(ChainCode, KeyCode, FlagCode({0})), s)
  OBVIOUS
<1>p4. PICK n4, o4 : n4 = ReadMaybeCipher(r) /\ o4 = Behind(r, n4)
  OBVIOUS
<1>q4. r.ok => Parsed(n4, OptionCode(CipherCode), r.rest)
  <2>1. r.ok => r.rest \in Str
    BY <1>r3, ParsedIs
  <2> QED
    BY <1>p4, <2>1, ReadMaybeCipherParsed
<1>r4. Parsed(o4, Four(ChainCode, KeyCode, FlagCode({0}), OptionCode(CipherCode)), s)
  BY <1>c, <1>t3, <1>t4, <1>p4, <1>q4, <1>r3, BehindParsed
<1>p5. PICK n5, o5 : n5 = ReadEntries("opaque", o4) /\ o5 = Behind(o4, n5)
  OBVIOUS
<1>q5. o4.ok => ParsedAll(n5, EntriesCode("opaque"), o4.rest)
  <2>1. o4.ok => o4.rest \in Str
    BY <1>r4, ParsedIs
  <2> QED
    BY <1>p5, <2>1, EntriesParsed
<1>r5. ParsedAll(o5, Five(ChainCode, KeyCode, FlagCode({0}), OptionCode(CipherCode),
           EntriesCode("opaque")), s)
  BY <1>c, <1>t4, <1>t5, <1>p5, <1>q5, <1>r4, BehindParsedAll
<1>1. ReadOpaque(r) = IF o5.ok
          THEN Good([prev |-> o5.val[1], signature |-> o5.val[2], form |-> "opaque",
          encryption |-> <<>>, start |-> o5.val[4], payload |-> o5.val[5]], o5.rest) ELSE Failed
  BY <1>p4, <1>p5 DEF ReadOpaque, ReadNext, ReadFirst, Into
<1>2. o5.ok => OpaqueOf[o5.val]
          = [prev |-> o5.val[1], signature |-> o5.val[2], form |-> "opaque",
          encryption |-> <<>>, start |-> o5.val[4], payload |-> o5.val[5]]
  <2>1. o5.ok => o5.val \in DOMAIN OpaqueTuples
    BY <1>r5, ParsedAllIs DEF OpaqueTuples
  <2> QED
    BY <2>1 DEF OpaqueOf
<1>3. /\ ~o5.ok => ReadOpaque(r) = Failed
      /\ o5.ok => ReadOpaque(r) = Good(OpaqueOf[o5.val], o5.rest)
  BY <1>1, <1>2
<1>4. Renames(OpaqueOf, Five(ChainCode, KeyCode, FlagCode({0}), OptionCode(CipherCode),
          EntriesCode("opaque")), OpaqueCode)
  BY OpaqueIs DEF OpaqueTuples
<1> QED
  BY <1>3, <1>4, <1>r5, IntoParsedAll

PlaintextCode == [x \in PlaintextSegment |-> PlaintextBytes(x)]
PlaintextTuples == Seven(ChainCode, KeyCode, FlagCode({1}), OptionCode(EncryptionCode),
    FlagCode({0}), OptionCode(CipherCode), RestCode)
PlaintextOf == [v \in DOMAIN PlaintextTuples |->
    [prev |-> v[1], signature |-> v[2], form |-> "plaintext", encryption |-> v[4],
    start |-> v[6], payload |-> v[7]]]

\* The code of a plaintext segment.
LEMMA PlaintextIs ==
    /\ DOMAIN PlaintextCode = PlaintextSegment /\ \A x \in PlaintextSegment :
           PlaintextCode[x] = PlaintextBytes(x)
    /\ IsCode(PlaintextCode) /\ NoneEmpty(PlaintextCode)
    /\ Renames(PlaintextOf, PlaintextTuples, PlaintextCode)
<1> DEFINE T == Seven(ChainCode, KeyCode, FlagCode({1}), OptionCode(EncryptionCode),
               FlagCode({0}), OptionCode(CipherCode), RestCode)
<1>c. IsCode(ChainCode) /\ IsCode(KeyCode) /\ IsCode(FlagCode({1}))
          /\ IsCode(OptionCode(EncryptionCode)) /\ IsCode(FlagCode({0}))
          /\ IsCode(OptionCode(CipherCode)) /\ IsCode(RestCode)
  BY ChainIs, KeyIs, MaybeCipherIs, MaybeEncryptionIs, SegmentTagsAre, TagCodes
<1>t1. IsCode(One(ChainCode))
  BY <1>c, OneIs
<1>t2. IsCode(Two(ChainCode, KeyCode)) /\ Appends(One(ChainCode), KeyCode, Two(ChainCode, KeyCode))
  BY <1>c, <1>t1, TwoIs
<1>t3. IsCode(Three(ChainCode, KeyCode, FlagCode({1})))
           /\ Appends(Two(ChainCode, KeyCode), FlagCode({1}), Three(ChainCode, KeyCode, FlagCode({1})))
  BY <1>c, <1>t2, ThreeIs
<1>t4. IsCode(Four(ChainCode, KeyCode, FlagCode({1}), OptionCode(EncryptionCode)))
           /\ Appends(Three(ChainCode, KeyCode, FlagCode({1})), OptionCode(EncryptionCode),
           Four(ChainCode, KeyCode, FlagCode({1}), OptionCode(EncryptionCode)))
  BY <1>c, <1>t3, FourIs
<1>t5. IsCode(Five(ChainCode, KeyCode, FlagCode({1}), OptionCode(EncryptionCode),
           FlagCode({0}))) /\ Appends(Four(ChainCode, KeyCode, FlagCode({1}),
           OptionCode(EncryptionCode)), FlagCode({0}),
           Five(ChainCode, KeyCode, FlagCode({1}), OptionCode(EncryptionCode), FlagCode({0})))
  BY <1>c, <1>t4, FiveIs
<1>t6. IsCode(Six(ChainCode, KeyCode, FlagCode({1}), OptionCode(EncryptionCode), FlagCode({0}),
           OptionCode(CipherCode)))
           /\ Appends(Five(ChainCode, KeyCode, FlagCode({1}), OptionCode(EncryptionCode),
           FlagCode({0})), OptionCode(CipherCode),
           Six(ChainCode, KeyCode, FlagCode({1}), OptionCode(EncryptionCode), FlagCode({0}),
           OptionCode(CipherCode)))
  BY <1>c, <1>t5, SixIs
<1>t7. IsCode(Seven(ChainCode, KeyCode, FlagCode({1}), OptionCode(EncryptionCode),
           FlagCode({0}), OptionCode(CipherCode), RestCode))
           /\ Appends(Six(ChainCode, KeyCode, FlagCode({1}), OptionCode(EncryptionCode),
           FlagCode({0}), OptionCode(CipherCode)), RestCode,
           Seven(ChainCode, KeyCode, FlagCode({1}), OptionCode(EncryptionCode), FlagCode({0}),
           OptionCode(CipherCode), RestCode))
  BY <1>c, <1>t6, SevenIs
<1>n1. NoneEmpty(One(ChainCode))
  <2>1. NoneEmpty(ChainCode)
    BY ChainIs
  <2> QED
    BY <2>1, OneNoneEmpty
<1>n2. NoneEmpty(Two(ChainCode, KeyCode))
  BY <1>c, <1>t1, <1>t2, <1>n1, AppendsNoneEmpty
<1>n3. NoneEmpty(Three(ChainCode, KeyCode, FlagCode({1})))
  BY <1>c, <1>t2, <1>t3, <1>n2, AppendsNoneEmpty
<1>n4. NoneEmpty(Four(ChainCode, KeyCode, FlagCode({1}), OptionCode(EncryptionCode)))
  BY <1>c, <1>t3, <1>t4, <1>n3, AppendsNoneEmpty
<1>n5. NoneEmpty(Five(ChainCode, KeyCode, FlagCode({1}), OptionCode(EncryptionCode), FlagCode({0})))
  BY <1>c, <1>t4, <1>t5, <1>n4, AppendsNoneEmpty
<1>n6. NoneEmpty(Six(ChainCode, KeyCode, FlagCode({1}), OptionCode(EncryptionCode),
           FlagCode({0}), OptionCode(CipherCode)))
  BY <1>c, <1>t5, <1>t6, <1>n5, AppendsNoneEmpty
<1>n7. NoneEmpty(Seven(ChainCode, KeyCode, FlagCode({1}), OptionCode(EncryptionCode),
           FlagCode({0}), OptionCode(CipherCode), RestCode))
  BY <1>c, <1>t6, <1>t7, <1>n6, AppendsNoneEmpty
<1>d1. DOMAIN ChainCode = ChainHead /\ \A y \in ChainHead : ChainCode[y] = ChainBytes(y)
  BY ChainIs
<1>d2. DOMAIN KeyCode = Key /\ \A y \in Key : KeyCode[y] = TaggedBytes(y)
  BY KeyIs
<1>d3. DOMAIN FlagCode({1}) = {1} /\ \A y \in {1} : FlagCode({1})[y] = <<y>>
  BY FlagCodeIs
<1>d4. DOMAIN OptionCode(EncryptionCode) = Option(EncryptionInfo)
           /\ \A y \in Option(EncryptionInfo) : OptionCode(EncryptionCode)[y] = MaybeEncryptionBytes(y)
  BY MaybeEncryptionIs
<1>d5. DOMAIN FlagCode({0}) = {0} /\ \A y \in {0} : FlagCode({0})[y] = <<y>>
  BY FlagCodeIs
<1>d6. DOMAIN OptionCode(CipherCode) = Option(CipherInfo) /\ \A y \in Option(CipherInfo) :
           OptionCode(CipherCode)[y] = MaybeCipherBytes(y)
  BY MaybeCipherIs
<1>d7. DOMAIN RestCode = Str /\ \A y \in Str : RestCode[y] = y
  BY SegmentTagsAre
<1>1. /\ \A a \in ChainHead, b \in Key, c \in {1}, d \in Option(EncryptionInfo), e \in {0},
             f \in Option(CipherInfo), g \in Str :
            <<a, b, c, d, e, f, g>> \in DOMAIN T
      /\ \A a \in ChainHead, b \in Key, c \in {1}, d \in Option(EncryptionInfo), e \in {0},
             f \in Option(CipherInfo), g \in Str :
            T[<<a, b, c, d, e, f, g>>]
                = Cat(Cat(Cat(Cat(Cat(Cat(ChainBytes(a), TaggedBytes(b)), <<c>>),
                MaybeEncryptionBytes(d)), <<e>>), MaybeCipherBytes(f)), g)
      /\ \A v \in DOMAIN T : \E a \in ChainHead, b \in Key, c \in {1},
             d \in Option(EncryptionInfo), e \in {0}, f \in Option(CipherInfo), g \in Str : v
             = <<a, b, c, d, e, f, g>>
  BY <1>d1, <1>d2, <1>d3, <1>d4, <1>d5, <1>d6, <1>d7, SevenTuples
<1>2. DOMAIN PlaintextCode = PlaintextSegment /\ \A x \in PlaintextSegment :
          PlaintextCode[x] = PlaintextBytes(x)
  BY DEF PlaintextCode
<1>3. DOMAIN PlaintextOf = DOMAIN T
          /\ \A v \in DOMAIN T : PlaintextOf[v]
          = [prev |-> v[1], signature |-> v[2], form |-> "plaintext", encryption |-> v[4],
          start |-> v[6], payload |-> v[7]]
  BY DEF PlaintextOf, PlaintextTuples
<1> HIDE DEF T
<1>4. Renames(PlaintextOf, T, PlaintextCode)
  <2>1. ASSUME NEW a \in ChainHead, NEW b \in Key, NEW c \in {1},
                   NEW d \in Option(EncryptionInfo), NEW e \in {0},
                   NEW f \in Option(CipherInfo), NEW g \in Str
        PROVE  PlaintextOf[<<a, b, c, d, e, f, g>>] \in PlaintextSegment
                   /\ PlaintextCode[PlaintextOf[<<a, b, c, d, e, f, g>>]] = T[<<a, b, c, d, e, f, g>>]
    <3>1. PICK x : x = [prev |-> a, signature |-> b, form |-> "plaintext", encryption |-> d,
                   start |-> f, payload |-> g]
      OBVIOUS
    <3>2. PlaintextOf[<<a, b, c, d, e, f, g>>] = x
      <4>1. <<a, b, c, d, e, f, g>> \in DOMAIN T
        BY <1>1
      <4>2. PlaintextOf[<<a, b, c, d, e, f, g>>]
                = [prev |-> a, signature |-> b, form |-> "plaintext", encryption |-> d,
                start |-> f, payload |-> g]
        BY <1>3, <4>1
      <4> QED
        BY <3>1, <4>2
    <3>3. x \in PlaintextSegment
      BY <3>1 DEF PlaintextSegment
    <3>4. PlaintextBytes(x)
              = Cat(Cat(Cat(Cat(Cat(Cat(ChainBytes(a), TaggedBytes(b)), <<c>>),
              MaybeEncryptionBytes(d)), <<e>>), MaybeCipherBytes(f)), g)
      <4>1. x.prev = a /\ x.signature = b /\ 1 = c /\ x.encryption = d /\ 0 = e /\ x.start = f
                /\ x.payload = g
        BY <3>1
      <4>2. PlaintextBytes(x)
                = Cat(Cat(Cat(Cat(Cat(Cat(ChainBytes(x.prev), TaggedBytes(x.signature)),
                <<1>>), MaybeEncryptionBytes(x.encryption)), <<0>>),
                MaybeCipherBytes(x.start)), x.payload)
        BY DEF PlaintextBytes, Cat, MaybeCipherBytes, MaybeEncryptionBytes, OptionBytes
      <4> QED
        BY <4>1, <4>2
    <3>5. T[<<a, b, c, d, e, f, g>>]
              = Cat(Cat(Cat(Cat(Cat(Cat(ChainBytes(a), TaggedBytes(b)), <<c>>),
              MaybeEncryptionBytes(d)), <<e>>), MaybeCipherBytes(f)), g)
      BY <1>1
    <3> QED
      BY <1>2, <3>2, <3>3, <3>4, <3>5
  <2>2. ASSUME NEW x \in PlaintextSegment PROVE \E v \in DOMAIN T : PlaintextOf[v] = x
    <3>1. x.prev \in ChainHead /\ x.signature \in Key /\ 1 \in {1}
              /\ x.encryption \in Option(EncryptionInfo) /\ 0 \in {0}
              /\ x.start \in Option(CipherInfo) /\ x.payload \in Str
      BY DEF PlaintextSegment
    <3>2. x = [prev |-> x.prev, signature |-> x.signature, form |-> x.form, encryption |->
              x.encryption, start |-> x.start, payload |-> x.payload]
      BY DEF PlaintextSegment
    <3>3. PICK v : v = <<x.prev, x.signature, 1, x.encryption, 0, x.start, x.payload>>
      OBVIOUS
    <3>4. v \in DOMAIN T
      BY <1>1, <3>1, <3>3
    <3>5. PlaintextOf[v] = [prev |-> v[1], signature |-> v[2], form |-> "plaintext",
              encryption |-> v[4], start |-> v[6], payload |-> v[7]]
      BY <1>3, <3>4
    <3>6. v[1] = x.prev /\ v[2] = x.signature /\ "plaintext" = x.form /\ v[4] = x.encryption
              /\ v[6] = x.start /\ v[7] = x.payload
      BY <3>3 DEF PlaintextSegment
    <3> QED
      BY <3>2, <3>4, <3>5, <3>6
  <2>3. ASSUME NEW v \in DOMAIN T
                   PROVE PlaintextOf[v] \in PlaintextSegment /\ PlaintextCode[PlaintextOf[v]] = T[v]
    <3>1. PICK a \in ChainHead, b \in Key, c \in {1}, d \in Option(EncryptionInfo), e \in {0},
                   f \in Option(CipherInfo), g \in Str : v = <<a, b, c, d, e, f, g>>
      BY <1>1
    <3> QED
      BY <2>1, <3>1
  <2> QED
    BY <1>2, <2>2, <2>3 DEF Renames
<1>5. IsCode(PlaintextCode) /\ NoneEmpty(PlaintextCode)
  BY <1>4, <1>t7, <1>n7, RenamesCode DEF T
<1> QED
  BY <1>2, <1>4, <1>5 DEF T, PlaintextTuples

\* The reader of a plaintext segment.
LEMMA PlaintextParsed ==
    ASSUME NEW r, NEW s, Parsed(r, Three(ChainCode, KeyCode, FlagCode({1})), s)
    PROVE  ParsedAll(ReadPlaintext(r), PlaintextCode, s)
<1>c. IsCode(ChainCode) /\ IsCode(KeyCode) /\ IsCode(FlagCode({1}))
          /\ IsCode(OptionCode(EncryptionCode)) /\ IsCode(FlagCode({0}))
          /\ IsCode(OptionCode(CipherCode)) /\ IsCode(RestCode)
  BY ChainIs, KeyIs, MaybeCipherIs, MaybeEncryptionIs, SegmentTagsAre, TagCodes
<1>t1. IsCode(One(ChainCode))
  BY <1>c, OneIs
<1>t2. IsCode(Two(ChainCode, KeyCode)) /\ Appends(One(ChainCode), KeyCode, Two(ChainCode, KeyCode))
  BY <1>c, <1>t1, TwoIs
<1>t3. IsCode(Three(ChainCode, KeyCode, FlagCode({1})))
           /\ Appends(Two(ChainCode, KeyCode), FlagCode({1}), Three(ChainCode, KeyCode, FlagCode({1})))
  BY <1>c, <1>t2, ThreeIs
<1>t4. IsCode(Four(ChainCode, KeyCode, FlagCode({1}), OptionCode(EncryptionCode)))
           /\ Appends(Three(ChainCode, KeyCode, FlagCode({1})), OptionCode(EncryptionCode),
           Four(ChainCode, KeyCode, FlagCode({1}), OptionCode(EncryptionCode)))
  BY <1>c, <1>t3, FourIs
<1>t5. IsCode(Five(ChainCode, KeyCode, FlagCode({1}), OptionCode(EncryptionCode),
           FlagCode({0}))) /\ Appends(Four(ChainCode, KeyCode, FlagCode({1}),
           OptionCode(EncryptionCode)), FlagCode({0}),
           Five(ChainCode, KeyCode, FlagCode({1}), OptionCode(EncryptionCode), FlagCode({0})))
  BY <1>c, <1>t4, FiveIs
<1>t6. IsCode(Six(ChainCode, KeyCode, FlagCode({1}), OptionCode(EncryptionCode), FlagCode({0}),
           OptionCode(CipherCode)))
           /\ Appends(Five(ChainCode, KeyCode, FlagCode({1}), OptionCode(EncryptionCode),
           FlagCode({0})), OptionCode(CipherCode),
           Six(ChainCode, KeyCode, FlagCode({1}), OptionCode(EncryptionCode), FlagCode({0}),
           OptionCode(CipherCode)))
  BY <1>c, <1>t5, SixIs
<1>t7. IsCode(Seven(ChainCode, KeyCode, FlagCode({1}), OptionCode(EncryptionCode),
           FlagCode({0}), OptionCode(CipherCode), RestCode))
           /\ Appends(Six(ChainCode, KeyCode, FlagCode({1}), OptionCode(EncryptionCode),
           FlagCode({0}), OptionCode(CipherCode)), RestCode,
           Seven(ChainCode, KeyCode, FlagCode({1}), OptionCode(EncryptionCode), FlagCode({0}),
           OptionCode(CipherCode), RestCode))
  BY <1>c, <1>t6, SevenIs
<1>r3. Parsed(r, Three(ChainCode, KeyCode, FlagCode({1})), s)
  OBVIOUS
<1>p4. PICK n4, o4 : n4 = ReadMaybeEncryption(r) /\ o4 = Behind(r, n4)
  OBVIOUS
<1>q4. r.ok => Parsed(n4, OptionCode(EncryptionCode), r.rest)
  <2>1. r.ok => r.rest \in Str
    BY <1>r3, ParsedIs
  <2> QED
    BY <1>p4, <2>1, ReadMaybeEncryptionParsed
<1>r4. Parsed(o4, Four(ChainCode, KeyCode, FlagCode({1}), OptionCode(EncryptionCode)), s)
  BY <1>c, <1>t3, <1>t4, <1>p4, <1>q4, <1>r3, BehindParsed
<1>p5. PICK n5, o5 : n5 = ReadZero(o4) /\ o5 = Behind(o4, n5)
  OBVIOUS
<1>q5. o4.ok => Parsed(n5, FlagCode({0}), o4.rest)
  <2>1. o4.ok => o4.rest \in Str
    BY <1>r4, ParsedIs
  <2> QED
    BY <1>p5, <2>1, ReadZeroParsed
<1>r5. Parsed(o5, Five(ChainCode, KeyCode, FlagCode({1}), OptionCode(EncryptionCode), FlagCode({0})), s)
  BY <1>c, <1>t4, <1>t5, <1>p5, <1>q5, <1>r4, BehindParsed
<1>p6. PICK n6, o6 : n6 = ReadMaybeCipher(o5) /\ o6 = Behind(o5, n6)
  OBVIOUS
<1>q6. o5.ok => Parsed(n6, OptionCode(CipherCode), o5.rest)
  <2>1. o5.ok => o5.rest \in Str
    BY <1>r5, ParsedIs
  <2> QED
    BY <1>p6, <2>1, ReadMaybeCipherParsed
<1>r6. Parsed(o6, Six(ChainCode, KeyCode, FlagCode({1}), OptionCode(EncryptionCode),
           FlagCode({0}), OptionCode(CipherCode)), s)
  BY <1>c, <1>t5, <1>t6, <1>p6, <1>q6, <1>r5, BehindParsed
<1>p7. PICK n7, o7 : n7 = ReadRest(o6) /\ o7 = Behind(o6, n7)
  OBVIOUS
<1>q7. o6.ok => ParsedAll(n7, RestCode, o6.rest)
  <2>1. o6.ok => o6.rest \in Str
    BY <1>r6, ParsedIs
  <2> QED
    BY <1>p7, <2>1, ReadRestParsed
<1>r7. ParsedAll(o7, Seven(ChainCode, KeyCode, FlagCode({1}), OptionCode(EncryptionCode),
           FlagCode({0}), OptionCode(CipherCode), RestCode), s)
  BY <1>c, <1>t6, <1>t7, <1>p7, <1>q7, <1>r6, BehindParsedAll
<1>1. ReadPlaintext(r) = IF o7.ok
          THEN Good([prev |-> o7.val[1], signature |-> o7.val[2], form |-> "plaintext",
          encryption |-> o7.val[4], start |-> o7.val[6], payload |-> o7.val[7]], o7.rest) ELSE Failed
  BY <1>p4, <1>p5, <1>p6, <1>p7 DEF ReadPlaintext, ReadNext, ReadFirst, Into
<1>2. o7.ok => PlaintextOf[o7.val]
          = [prev |-> o7.val[1], signature |-> o7.val[2], form |-> "plaintext",
          encryption |-> o7.val[4], start |-> o7.val[6], payload |-> o7.val[7]]
  <2>1. o7.ok => o7.val \in DOMAIN PlaintextTuples
    BY <1>r7, ParsedAllIs DEF PlaintextTuples
  <2> QED
    BY <2>1 DEF PlaintextOf
<1>3. /\ ~o7.ok => ReadPlaintext(r) = Failed
      /\ o7.ok => ReadPlaintext(r) = Good(PlaintextOf[o7.val], o7.rest)
  BY <1>1, <1>2
<1>4. Renames(PlaintextOf,
          Seven(ChainCode, KeyCode, FlagCode({1}), OptionCode(EncryptionCode), FlagCode({0}),
          OptionCode(CipherCode), RestCode), PlaintextCode)
  BY PlaintextIs DEF PlaintextTuples
<1> QED
  BY <1>3, <1>4, <1>r7, IntoParsedAll

\* Concatenation under a name of its own, so that the provers leave it alone.
LEMMA CatIs ==
    /\ \A u, v \in Str : Cat(u, v) \in Str
    /\ \A u, v, w \in Str : Cat(Cat(u, v), w) = Cat(u, Cat(v, w))
  BY ConcatIs DEF Cat

SegmentCode == [x \in Segment |-> SegmentBytes(x)]

\* The code of LogSegment.
LEMMA SegmentIs ==
    /\ DOMAIN SegmentCode = Segment /\ \A x \in Segment : SegmentCode[x] = SegmentBytes(x)
    /\ Either(OpaqueCode, PlaintextCode, SegmentCode)
    /\ IsCode(SegmentCode)
<1>1. DOMAIN SegmentCode = Segment /\ \A x \in Segment : SegmentCode[x] = SegmentBytes(x)
  BY DEF SegmentCode
<1>2. Segment = OpaqueSegment \cup PlaintextSegment
  BY DEF Segment, OpaqueSegment, PlaintextSegment
<1>3. /\ DOMAIN OpaqueCode = OpaqueSegment /\ \A x \in OpaqueSegment : OpaqueCode[x] = OpaqueBytes(x)
      /\ DOMAIN PlaintextCode = PlaintextSegment
      /\ \A x \in PlaintextSegment : PlaintextCode[x] = PlaintextBytes(x)
      /\ IsCode(OpaqueCode) /\ IsCode(PlaintextCode)
  BY OpaqueIs, PlaintextIs
<1>4. ASSUME NEW x \in OpaqueSegment PROVE SegmentBytes(x) = OpaqueBytes(x)
  <2>1. x.form = "opaque"
    BY DEF OpaqueSegment
  <2> QED
    BY <2>1 DEF SegmentBytes, OpaqueBytes, OpaqueEntriesBytes
<1>5. ASSUME NEW x \in PlaintextSegment PROVE SegmentBytes(x) = PlaintextBytes(x)
  <2>1. /\ x.form = "plaintext" /\ x.prev \in ChainHead /\ x.signature \in Key
        /\ x.encryption \in Option(EncryptionInfo)
    BY DEF PlaintextSegment
  <2>2. PICK p, s, e : p = ChainBytes(x.prev) /\ s = TaggedBytes(x.signature)
                 /\ e = MaybeEncryptionBytes(x.encryption)
    OBVIOUS
  <2>3. p \in Str /\ s \in Str /\ e \in Str
    <3>1. p \in Str
      BY <2>1, <2>2, ChainIs DEF IsCode
    <3>2. s \in Str
      BY <2>1, <2>2, KeyIs DEF IsCode
    <3>3. e \in Str
      BY <2>1, <2>2, MaybeEncryptionIs DEF IsCode
    <3> QED
      BY <3>1, <3>2, <3>3
  <2>4. PICK y : y = Cat(p, s)
    OBVIOUS
  <2>5. y \in Str
    BY <2>3, <2>4, ConcatIs DEF Cat
  <2>6. <<0>> \in Str /\ <<1>> \in Str
    BY TagBytes DEF Str
  <2>7. Cat(y, Cat(Cat(<<1>>, e), <<0>>)) = Cat(Cat(Cat(y, <<1>>), e), <<0>>)
    <3>1. Cat(<<1>>, e) \in Str /\ Cat(y, <<1>>) \in Str
      BY <2>3, <2>5, <2>6, CatIs
    <3>2. Cat(y, Cat(Cat(<<1>>, e), <<0>>)) = Cat(Cat(y, Cat(<<1>>, e)), <<0>>)
      BY <2>5, <2>6, <3>1, CatIs
    <3>3. Cat(y, Cat(<<1>>, e)) = Cat(Cat(y, <<1>>), e)
      BY <2>3, <2>5, <2>6, CatIs
    <3> QED
      BY <3>2, <3>3
  <2>8. SegmentBytes(x) = Cat(Cat(Cat(y, Cat(Cat(<<1>>, e), <<0>>)),
            OptionBytes(x.start, CipherBytes)), x.payload)
    BY <2>1, <2>2, <2>4 DEF SegmentBytes, Cat, MaybeEncryptionBytes
  <2>9. PlaintextBytes(x)
            = Cat(Cat(Cat(Cat(Cat(y, <<1>>), e), <<0>>), OptionBytes(x.start, CipherBytes)), x.payload)
    BY <2>2, <2>4 DEF PlaintextBytes, Cat, MaybeEncryptionBytes
  <2> QED
    BY <2>7, <2>8, <2>9
<1>6. Either(OpaqueCode, PlaintextCode, SegmentCode)
  BY <1>1, <1>2, <1>3, <1>4, <1>5 DEF Either
<1>7. IsCode(SegmentCode)
  BY <1>3, <1>6 DEF Either, IsCode
<1> QED
  BY <1>1, <1>6, <1>7

\* The tuples of three with the third value restricted.
LEMMA ThirdParsed ==
    ASSUME NEW o, NEW s, NEW A, NEW B, NEW allowed, Parsed(o, Three(A, B, FlagCode(allowed)), s),
           NEW some \in SUBSET allowed,
           NEW p, ~o.ok => p = Failed, o.ok => p = IF o.val[3] \in some THEN o ELSE Failed
    PROVE  Parsed(p, Three(A, B, FlagCode(some)), s)
<1>1. /\ DOMAIN FlagCode(allowed) = allowed /\ DOMAIN FlagCode(some) = some
      /\ \A b \in some : FlagCode(some)[b] = FlagCode(allowed)[b]
  BY FlagCodeIs
<1>2. PICK F, G : F = FlagCode(allowed) /\ G = FlagCode(some)
  OBVIOUS
<1>3. /\ \A v \in DOMAIN Three(A, B, F) :
            \E a \in DOMAIN A, b \in DOMAIN B, c \in DOMAIN F : v = <<a, b, c>>
      /\ \A v \in DOMAIN Three(A, B, G) :
            \E a \in DOMAIN A, b \in DOMAIN B, c \in DOMAIN G : v = <<a, b, c>>
      /\ \A a \in DOMAIN A, b \in DOMAIN B, c \in DOMAIN F :
            <<a, b, c>> \in DOMAIN Three(A, B, F)
                /\ Three(A, B, F)[<<a, b, c>>] = Cat(Cat(A[a], B[b]), F[c])
      /\ \A a \in DOMAIN A, b \in DOMAIN B, c \in DOMAIN G :
            <<a, b, c>> \in DOMAIN Three(A, B, G)
                /\ Three(A, B, G)[<<a, b, c>>] = Cat(Cat(A[a], B[b]), G[c])
  BY ThreeTuples
<1>4. ASSUME NEW v \in DOMAIN Three(A, B, G)
      PROVE  v \in DOMAIN Three(A, B, F) /\ Three(A, B, G)[v] = Three(A, B, F)[v]
  <2>1. PICK a \in DOMAIN A, b \in DOMAIN B, c \in DOMAIN G : v = <<a, b, c>>
    BY <1>3
  <2>2. c \in DOMAIN F /\ F[c] = G[c]
    BY <1>1, <1>2
  <2> QED
    BY <1>3, <2>1, <2>2
<1>5. ASSUME NEW v \in DOMAIN Three(A, B, F) PROVE v \in DOMAIN Three(A, B, G) <=> v[3] \in some
  <2>1. PICK a \in DOMAIN A, b \in DOMAIN B, c \in DOMAIN F : v = <<a, b, c>>
    BY <1>3
  <2>2. v[3] = c
    BY <2>1
  <2>3. c \in some => v \in DOMAIN Three(A, B, G)
    BY <1>1, <1>2, <1>3, <2>1
  <2>4. v \in DOMAIN Three(A, B, G) => c \in some
    <3>1. ASSUME NEW a1 \in DOMAIN A, NEW b1 \in DOMAIN B, NEW c1 \in DOMAIN G, v = <<a1, b1, c1>>
          PROVE  c \in some
      <4>1. c = c1
        BY <2>1, <3>1
      <4> QED
        BY <1>1, <1>2, <4>1
    <3> QED
      BY <1>3, <3>1
  <2> QED
    BY <2>2, <2>3, <2>4
<1>6. o.ok => o.val \in DOMAIN Three(A, B, F)
  BY <1>2, ParsedIs
<1>7. o.ok => p = IF o.val \in DOMAIN Three(A, B, G) THEN o ELSE Failed
  BY <1>5, <1>6
<1>8. Parsed(p, Three(A, B, G), s)
  <2>1. /\ DOMAIN Three(A, B, G) \subseteq DOMAIN Three(A, B, F)
        /\ \A v \in DOMAIN Three(A, B, G) : Three(A, B, G)[v] = Three(A, B, F)[v]
    BY <1>4
  <2>2. Parsed(o, Three(A, B, F), s)
    BY <1>2
  <2> QED
    BY <1>7, <2>1, <2>2, CheckedParsed
<1> QED
  BY <1>2, <1>8

\* Behind a reader that failed nothing is read.
LEMMA BehindFailed ==
    \A n : Behind(Failed, n) = Failed
  BY DEF Behind, Failed

\* SegmentReader::new(), and the entries if they can be read without a key.
LEMMA SegmentParsed ==
    ASSUME NEW bytes \in Str
    PROVE  ParsedAll(ReadSegment(bytes), SegmentCode, bytes)
<1>1. PICK r : r = Reader(bytes)
  OBVIOUS
<1>2. r.ok /\ r.rest \in Str /\ r.rest = bytes
  BY <1>1, GoodIs DEF Reader
<1>3. PICK n1, o1, n2, o2, n3, o3 :
         /\ n1 = ReadChain(r) /\ o1 = First(n1)
         /\ n2 = ReadTagged(o1) /\ o2 = Behind(o1, n2)
         /\ n3 = ReadBit(o2) /\ o3 = Behind(o2, n3)
  OBVIOUS
<1>4. ReadSegment(bytes) = IF o3.ok /\ o3.val[3] = 1 THEN ReadPlaintext(o3) ELSE ReadOpaque(o3)
  BY <1>1, <1>2, <1>3 DEF ReadSegment, ReadFirst, ReadNext
<1>c. IsCode(ChainCode) /\ IsCode(KeyCode) /\ IsCode(FlagCode({0, 1}))
  BY ChainIs, KeyIs, TagCodes
<1>t1. IsCode(One(ChainCode))
  BY <1>c, OneIs
<1>t2. IsCode(Two(ChainCode, KeyCode)) /\ Appends(One(ChainCode), KeyCode, Two(ChainCode, KeyCode))
  BY <1>c, <1>t1, TwoIs
<1>t3. /\ IsCode(Three(ChainCode, KeyCode, FlagCode({0, 1})))
       /\ Appends(Two(ChainCode, KeyCode), FlagCode({0, 1}),
              Three(ChainCode, KeyCode, FlagCode({0, 1})))
  BY <1>c, <1>t2, ThreeIs
<1>r1. Parsed(o1, One(ChainCode), bytes)
  <2>1. Parsed(n1, ChainCode, bytes)
    BY <1>2, <1>3, ChainParsed
  <2> QED
    BY <1>3, <2>1, FirstParsed
<1>r2. Parsed(o2, Two(ChainCode, KeyCode), bytes)
  <2>1. o1.ok => o1.rest \in Str
    BY <1>r1, ParsedIs
  <2>2. o1.ok => Parsed(n2, KeyCode, o1.rest)
    BY <1>3, <2>1, KeyParsed
  <2> QED
    BY <1>3, <1>c, <1>t1, <1>t2, <1>r1, <2>2, BehindParsed
<1>r3. Parsed(o3, Three(ChainCode, KeyCode, FlagCode({0, 1})), bytes)
  <2>1. o2.ok => o2.rest \in Str
    BY <1>r2, ParsedIs
  <2>2. o2.ok => Parsed(n3, FlagCode({0, 1}), o2.rest)
    BY <1>3, <2>1, ReadBitParsed
  <2> QED
    BY <1>3, <1>c, <1>t2, <1>t3, <1>r2, <2>2, BehindParsed
<1>5. PICK op, pl : /\ op = IF o3.ok /\ o3.val[3] \in {0} THEN o3 ELSE Failed
                    /\ pl = IF o3.ok /\ o3.val[3] \in {1} THEN o3 ELSE Failed
  OBVIOUS
<1>6. Parsed(op, Three(ChainCode, KeyCode, FlagCode({0})), bytes)
  <2>1. {0} \in SUBSET {0, 1}
    OBVIOUS
  <2>2. /\ ~o3.ok => op = Failed
        /\ o3.ok => op = IF o3.val[3] \in {0} THEN o3 ELSE Failed
    BY <1>5
  <2> QED
    BY <1>r3, <2>1, <2>2, ThirdParsed
<1>7. Parsed(pl, Three(ChainCode, KeyCode, FlagCode({1})), bytes)
  <2>1. {1} \in SUBSET {0, 1}
    OBVIOUS
  <2>2. /\ ~o3.ok => pl = Failed
        /\ o3.ok => pl = IF o3.val[3] \in {1} THEN o3 ELSE Failed
    BY <1>5
  <2> QED
    BY <1>r3, <2>1, <2>2, ThirdParsed
<1>8. ParsedAll(ReadOpaque(op), OpaqueCode, bytes) /\ ParsedAll(ReadPlaintext(pl), PlaintextCode, bytes)
  BY <1>6, <1>7, OpaqueParsed, PlaintextParsed
<1>9. ReadOpaque(Failed) = Failed /\ ReadPlaintext(Failed) = Failed
  <2>1. ~Failed.ok
    BY GoodIs
  <2> QED
    BY <2>1, BehindFailed DEF ReadOpaque, ReadPlaintext, ReadNext, Into
<1>10. o3.ok => o3.val[3] \in {0, 1}
  <2>1. o3.ok => o3.val \in DOMAIN Three(ChainCode, KeyCode, FlagCode({0, 1}))
    BY <1>r3, ParsedIs
  <2>2. DOMAIN FlagCode({0, 1}) = {0, 1}
    BY FlagCodeIs
  <2>3. \A v \in DOMAIN Three(ChainCode, KeyCode, FlagCode({0, 1})) :
           \E a \in DOMAIN ChainCode, b \in DOMAIN KeyCode, c \in DOMAIN FlagCode({0, 1}) :
               v = <<a, b, c>>
    BY ThreeTuples
  <2>4. ASSUME o3.ok PROVE o3.val[3] \in {0, 1}
    <3>1. PICK a \in DOMAIN ChainCode, b \in DOMAIN KeyCode, c \in DOMAIN FlagCode({0, 1}) :
                   o3.val = <<a, b, c>>
      BY <2>1, <2>3, <2>4
    <3> QED
      BY <2>2, <3>1
  <2> QED
    BY <2>4
<1>11. ~o3.ok => o3 = Failed
  BY <1>r3, ParsedIs
<1>12. PICK x, y, p : x = ReadOpaque(op) /\ y = ReadPlaintext(pl) /\ p = ReadSegment(bytes)
  OBVIOUS
<1>13. (x.ok => p = x) /\ (~x.ok => p = y) /\ (~x.ok \/ ~y.ok)
  <2>1. ~Failed.ok
    BY GoodIs
  <2>2. CASE o3.ok /\ o3.val[3] = 0
    <3>1. op = o3 /\ pl = Failed /\ p = ReadOpaque(o3)
      BY <1>4, <1>5, <1>12, <2>2
    <3>2. p = x /\ y = Failed
      BY <1>9, <1>12, <3>1
    <3>3. ~x.ok => x = Failed
      BY <1>8, <1>12, ParsedAllIs
    <3> QED
      BY <2>1, <3>2, <3>3
  <2>3. CASE o3.ok /\ o3.val[3] = 1
    <3>1. op = Failed /\ pl = o3 /\ p = ReadPlaintext(o3)
      BY <1>4, <1>5, <1>12, <2>3
    <3>2. p = y /\ x = Failed
      BY <1>9, <1>12, <3>1
    <3> QED
      BY <2>1, <3>2
  <2>4. CASE ~o3.ok
    <3>1. op = Failed /\ pl = Failed /\ p = ReadOpaque(o3) /\ o3 = Failed
      BY <1>4, <1>5, <1>11, <1>12, <2>4
    <3>2. p = Failed /\ x = Failed /\ y = Failed
      BY <1>9, <1>12, <3>1
    <3> QED
      BY <2>1, <3>2
  <2> QED
    BY <1>10, <2>2, <2>3, <2>4
<1>14. ParsedAll(p, SegmentCode, bytes)
  <2>1. ParsedAll(x, OpaqueCode, bytes) /\ ParsedAll(y, PlaintextCode, bytes)
    BY <1>8, <1>12
  <2> QED
    BY <1>13, <2>1, SegmentIs, EitherParsedAll
<1> QED
  BY <1>12, <1>14

====
