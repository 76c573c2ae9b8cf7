----------------------------- MODULE HlcProofs -----------------------------
(***************************************************************************)
(* What the arithmetic of the hybrid logical clock guarantees, for every   *)
(* width of the counter and the millisecond.  Proofs about the clock's     *)
(* users cite these facts and never expand Before.                         *)
(***************************************************************************)
EXTENDS Hlc, TLAPS

\* ZeroTs is a timestamp, the least one, and Overflow is none.
LEMMA ZeroIsLeast ==
    /\ ZeroTs \in Timestamp
    /\ Overflow \notin Timestamp
    /\ \A t \in Timestamp : AtMost(ZeroTs, t)
BY HlcAssumption, SMT DEF ZeroTs, Overflow, Timestamp, AtMost, Before

\* Before is a strict total order on timestamps.
LEMMA BeforeIrreflexive == \A t \in Timestamp : ~ Before(t, t)
BY HlcAssumption, SMT DEF Before, Timestamp

\* Before is transitive.
LEMMA BeforeTransitive ==
    \A r, s, t \in Timestamp : Before(r, s) /\ Before(s, t) => Before(r, t)
BY HlcAssumption, SMT DEF Before, Timestamp

\* Any two timestamps are ordered.
LEMMA BeforeTotal ==
    \A s, t \in Timestamp : Before(s, t) \/ s = t \/ Before(t, s)
BY HlcAssumption, SMT DEF Before, Timestamp

\* The weak order is reflexive.
LEMMA AtMostReflexive == \A t \in Timestamp : AtMost(t, t)
BY Zenon DEF AtMost

\* The weak order is transitive.
LEMMA AtMostTransitive ==
    \A r, s, t \in Timestamp : AtMost(r, s) /\ AtMost(s, t) => AtMost(r, t)
BY BeforeTransitive, Zenon DEF AtMost

\* What is not ahead of a timestamp is strictly behind a later one.
LEMMA AtMostBefore ==
    \A r, s, t \in Timestamp : AtMost(r, s) /\ Before(s, t) => Before(r, t)
BY BeforeTransitive, Zenon DEF AtMost

\* The weak order is the strict one or equality, and total.
LEMMA AtMostOrBefore ==
    \A s, t \in Timestamp :
        /\ Before(s, t) => AtMost(s, t) /\ s # t
        /\ ~ Before(s, t) => AtMost(t, s)
BY BeforeTotal, BeforeIrreflexive, Zenon DEF AtMost

(***************************************************************************)
(* from_millis_and_counter() checks its range: whatever the wall clock     *)
(* returns, the result is a timestamp or an error.                         *)
(***************************************************************************)
LEMMA FromPartsChecked ==
    \A ms \in Nat, ctr \in 0 .. CounterMax :
        FromParts(ms, ctr) \in Timestamp \cup {Overflow}
BY HlcAssumption, SMT DEF FromParts, Timestamp, Overflow

\* bump() moves strictly forward or fails: it never wraps around.
LEMMA BumpAdvances ==
    \A t \in Timestamp :
        Bump(t) # Overflow => Bump(t) \in Timestamp /\ Before(t, Bump(t))
BY HlcAssumption, SMT DEF Bump, FromParts, Timestamp, Overflow, Before

(***************************************************************************)
(* next_local() moves strictly forward or fails, wherever the wall clock   *)
(* stands: behind the last timestamp, ahead of it or out of range.         *)
(***************************************************************************)
THEOREM NextLocalAdvances ==
    \A t \in Timestamp, now \in Nat :
        NextLocal(t, now) # Overflow =>
            NextLocal(t, now) \in Timestamp /\ Before(t, NextLocal(t, now))
<1> SUFFICES ASSUME NEW t \in Timestamp, NEW now \in Nat,
                    NextLocal(t, now) # Overflow
             PROVE  NextLocal(t, now) \in Timestamp /\ Before(t, NextLocal(t, now))
  OBVIOUS
<1> DEFINE new == FromParts(now, 0)
<1>1. 0 \in 0 .. CounterMax
  BY HlcAssumption, SMT
<1>2. new \in Timestamp \cup {Overflow}
  BY <1>1, FromPartsChecked, Zenon
<1>3. CASE new # Overflow /\ Before(t, new)
  BY <1>2, <1>3, Zenon DEF NextLocal
<1>4. CASE new # Overflow /\ ~ Before(t, new)
  BY <1>4, BumpAdvances, Zenon DEF NextLocal
<1>5. CASE new = Overflow
  BY <1>5, Zenon DEF NextLocal
<1> QED
  BY <1>3, <1>4, <1>5, Zenon

(***************************************************************************)
(* next_after() gives a clock that is not behind the old one and strictly  *)
(* ahead of the remote timestamp, or fails.                                *)
(***************************************************************************)
THEOREM NextAfterAdvances ==
    \A t, remote \in Timestamp :
        NextAfter(t, remote) # Overflow =>
            /\ NextAfter(t, remote) \in Timestamp
            /\ AtMost(t, NextAfter(t, remote))
            /\ Before(remote, NextAfter(t, remote))
<1> SUFFICES ASSUME NEW t \in Timestamp, NEW remote \in Timestamp,
                    NextAfter(t, remote) # Overflow
             PROVE  /\ NextAfter(t, remote) \in Timestamp
                    /\ AtMost(t, NextAfter(t, remote))
                    /\ Before(remote, NextAfter(t, remote))
  OBVIOUS
<1>1. CASE AtMost(t, remote)
  <2>1. NextAfter(t, remote) = Bump(remote)
    BY <1>1, Zenon DEF NextAfter
  <2>2. Bump(remote) \in Timestamp /\ Before(remote, Bump(remote))
    BY <2>1, BumpAdvances, Zenon
  <2>3. AtMost(t, Bump(remote))
    BY <1>1, <2>2, AtMostBefore, AtMostOrBefore, Zenon
  <2> QED
    BY <2>1, <2>2, <2>3, Zenon
<1>2. CASE ~ AtMost(t, remote)
  <2>1. NextAfter(t, remote) = t
    BY <1>2, Zenon DEF NextAfter
  <2>2. Before(remote, t)
    BY <1>2, BeforeTotal, Zenon DEF AtMost
  <2> QED
    BY <2>1, <2>2, AtMostReflexive, Zenon
<1> QED
  BY <1>1, <1>2, Zenon

(***************************************************************************)
(* Comparing the packed u64 values, as the code's derived order and the    *)
(* SQL comparisons do, is comparing the timestamps.                        *)
(***************************************************************************)
THEOREM PackingKeepsOrder ==
    \A s, t \in Timestamp : Raw(s) < Raw(t) <=> Before(s, t)
<1> SUFFICES ASSUME NEW s \in Timestamp, NEW t \in Timestamp
             PROVE  Raw(s) < Raw(t) <=> Before(s, t)
  OBVIOUS
<1> DEFINE w == CounterMax + 1
<1>1. /\ s.ms \in Nat /\ t.ms \in Nat /\ w \in Nat \ {0}
      /\ s.ctr \in 0 .. w - 1 /\ t.ctr \in 0 .. w - 1
  BY HlcAssumption, SMT DEF Timestamp
<1>2. \A a, b \in Nat : a < b => a * w + w <= b * w
  <2> SUFFICES ASSUME NEW a \in Nat, NEW b \in Nat, a < b
               PROVE  a * w + w <= b * w
    OBVIOUS
  <2> HIDE DEF w
  <2>1. PICK d \in Nat : b = a + 1 + d
    <3>1. b - a - 1 \in Nat /\ b = a + 1 + (b - a - 1)
      BY SMT
    <3> QED
      BY <3>1, Zenon
  <2>2. b * w = a * w + w + d * w
    BY <1>1, <2>1, SMT
  <2>3. d * w \in Nat /\ a * w \in Nat
    BY <1>1, <2>1, SMT
  <2> QED
    BY <1>1, <2>2, <2>3, SMT
<1>3. s.ms * w \in Nat /\ t.ms * w \in Nat
  BY <1>1, SMT
<1>4. Raw(s) = s.ms * w + s.ctr /\ Raw(t) = t.ms * w + t.ctr
  BY DEF Raw
<1> HIDE DEF w
<1>5. CASE s.ms < t.ms
  <2>1. s.ms * w + w <= t.ms * w
    BY <1>1, <1>2, <1>5, Zenon
  <2> QED
    BY <1>1, <1>3, <1>4, <1>5, <2>1, SMT DEF Before
<1>6. CASE t.ms < s.ms
  <2>1. t.ms * w + w <= s.ms * w
    BY <1>1, <1>2, <1>6, Zenon
  <2> QED
    BY <1>1, <1>3, <1>4, <1>6, <2>1, SMT DEF Before
<1>7. CASE s.ms = t.ms
  BY <1>1, <1>3, <1>4, <1>7, SMT DEF Before
<1> QED
  BY <1>1, <1>5, <1>6, <1>7, SMT

=============================================================================
