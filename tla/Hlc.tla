-------------------------------- MODULE Hlc --------------------------------
(***************************************************************************)
(* The hybrid logical clock of ubiquisync-core (src/hlc/mod.rs) and the    *)
(* skew test the replica applies before it merges a remote timestamp       *)
(* (ubiquisync-sql, src/replica/hlc.rs).                                   *)
(*                                                                         *)
(* The code packs a timestamp into one u64: milliseconds above, a 16-bit   *)
(* counter below.  Here the two halves stay apart and are compared         *)
(* lexicographically; Raw is the packing, and HlcProofs proves that both   *)
(* orders are the same.                                                    *)
(***************************************************************************)
EXTENDS Integers

CONSTANTS
    MillisMax,     \* MILLIS_MAX: the last representable millisecond
    CounterMax,    \* u16::MAX: the last counter value inside a millisecond
    MaxSkew        \* MAX_SKEW_MS: how far ahead a remote clock may be

ASSUME HlcAssumption ==
    /\ MillisMax \in Nat
    /\ CounterMax \in Nat
    /\ MaxSkew \in Nat

Timestamp == [ms : 0 .. MillisMax, ctr : 0 .. CounterMax]

\* Timestamp::default(), also what a replica without a stored clock loads.
ZeroTs == [ms |-> 0, ctr |-> 0]

\* TimestampOverflow, returned by every operation that leaves the range.
Overflow == [ms |-> -1, ctr |-> -1]

\* The u64 a timestamp is packed into.
Raw(t) == t.ms * (CounterMax + 1) + t.ctr

\* The derived order of the packed value.
Before(s, t) == s.ms < t.ms \/ (s.ms = t.ms /\ s.ctr < t.ctr)

AtMost(s, t) == s = t \/ Before(s, t)

FromParts(ms, ctr) ==
    IF ms > MillisMax THEN Overflow ELSE [ms |-> ms, ctr |-> ctr]

\* A full counter carries into the millisecond, ahead of the wall clock.
Bump(t) ==
    IF t.ctr = CounterMax
    THEN FromParts(t.ms + 1, 0)
    ELSE FromParts(t.ms, t.ctr + 1)

\* The timestamp of a local write: the wall clock if it is ahead, else the
\* smallest timestamp above the last one.
NextLocal(t, now) ==
    LET new == FromParts(now, 0) IN
    IF new = Overflow \/ Before(t, new) THEN new ELSE Bump(t)

\* Mutant of NextAfter: the counters are not compared.
NextAfterByMillis(t, remote) == IF t.ms < remote.ms THEN Bump(remote) ELSE t

\* The clock after a remote timestamp was observed.
NextAfter(t, remote) ==
    IF AtMost(t, remote) THEN Bump(remote) ELSE t

\* Mutant of WithinSkew: the difference is taken the wrong way round.
WithinSkewReversed(local, remote) == local - remote.ms <= MaxSkew

\* check_skew accepts any past timestamp and a bounded lead.
WithinSkew(local, remote) == remote.ms - local <= MaxSkew

=============================================================================
