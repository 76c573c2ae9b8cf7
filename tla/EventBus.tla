------------------------------ MODULE EventBus ------------------------------
(***************************************************************************)
(* The event bus (ubiquisync-core, src/event.rs) that fans the changes of  *)
(* table rows out to subscribers of a row, of a table or of everything     *)
(* (ubiquisync-tables, src/watch.rs).                                      *)
(*                                                                         *)
(* Abstractions.  publish(), subscribe() and a subscription's destructor   *)
(* hold the bus's mutex from beginning to end and are one step each.  A    *)
(* subscription is its id, an event its position in the log of what was    *)
(* published.  The channel is that of the futures crate: bounded by its    *)
(* buffer plus one place per sender, and a subscription has one sender.    *)
(***************************************************************************)
EXTENDS Naturals, Sequences, SequencesExt

CONSTANTS
    Tables, Rows,
    Buffer,        \* SUBSCRIBER_BUFFER
    MaxEvents,     \* bound: events published
    MaxSubs        \* bound: subscriptions made

ASSUME EventBusAssumption == Buffer \in Nat /\ MaxEvents \in Nat /\ MaxSubs \in Nat

VARIABLES
    targets,       \* targets[x]: the ids of x's senders, for each watched x
    nextId,
    watches,       \* watches[i]: the target of subscription i
    alive,         \* the subscriptions that have not been dropped
    chan,          \* chan[i]: what i's channel holds
    got,           \* history: what i's stream has yielded
    ended,         \* the subscriptions whose stream has said that it ends
    since,         \* history: the length of the log when i subscribed
    log            \* history: the changes published

busVars == <<targets, nextId, watches, alive, chan, got, ended, since, log>>

Ids == 0 .. MaxSubs - 1

Changes == [table : Tables, row : Rows]

Watchable == [kind : {"all"}]
             \cup [kind : {"table"}, table : Tables]
             \cup [kind : {"row"}, table : Tables, row : Rows]

All == [kind |-> "all"]

\* ChangeEvent::targets()
TargetsOf(c) ==
    {All,
     [kind |-> "table", table |-> c.table],
     [kind |-> "row", table |-> c.table, row |-> c.row]}

BusInit ==
    /\ targets = <<>>
    /\ nextId = 0
    /\ watches = [i \in Ids |-> All]
    /\ alive = {}
    /\ chan = [i \in Ids |-> <<>>]
    /\ got = [i \in Ids |-> <<>>]
    /\ ended = {}
    /\ since = [i \in Ids |-> 0]
    /\ log = <<>>

\* The map without targets nobody is left for.
Watched(map) == [x \in {x \in DOMAIN map : map[x] # {}} |-> map[x]]

Senders(x) == IF x \in DOMAIN targets THEN targets[x] ELSE {}

Subscribe(x) ==
    /\ nextId < MaxSubs
    /\ nextId' = nextId + 1
    /\ targets' = [y \in DOMAIN targets \cup {x} |->
                      IF y = x THEN Senders(x) \cup {nextId} ELSE targets[y]]
    /\ watches' = [watches EXCEPT ![nextId] = x]
    /\ alive' = alive \cup {nextId}
    /\ since' = [since EXCEPT ![nextId] = Len(log)]
    /\ UNCHANGED <<chan, got, ended, log>>

\* try_send() finds no place: the last one was the sender's own.
Full(i) == Len(chan[i]) > Buffer

\* Mutant of Publish: a full channel misses the event and stays.
PublishSkipping(c) ==
    /\ Len(log) < MaxEvents
    /\ log' = Append(log, c)
    /\ LET receivers == UNION {Senders(x) : x \in TargetsOf(c)} IN
       chan' = [i \in Ids |->
                   IF i \in receivers /\ ~ Full(i)
                   THEN Append(chan[i], Len(log'))
                   ELSE chan[i]]
    /\ UNCHANGED <<targets, nextId, watches, alive, got, ended, since>>

\* Mutant of Publish: a target left without senders stays in the map.
PublishKeepingTargets(c) ==
    /\ Len(log) < MaxEvents
    /\ log' = Append(log, c)
    /\ LET receivers == UNION {Senders(x) : x \in TargetsOf(c)}
           cut == {i \in receivers : Full(i)} IN
       /\ targets' = [x \in DOMAIN targets |-> targets[x] \ cut]
       /\ chan' = [i \in Ids |->
                      IF i \in receivers \ cut
                      THEN Append(chan[i], Len(log'))
                      ELSE chan[i]]
    /\ UNCHANGED <<nextId, watches, alive, got, ended, since>>

\* The sender of a full channel is dropped: its subscriber gets what the
\* channel holds, and then the end of the stream.
Publish(c) ==
    /\ Len(log) < MaxEvents
    /\ log' = Append(log, c)
    /\ LET receivers == UNION {Senders(x) : x \in TargetsOf(c)}
           cut == {i \in receivers : Full(i)} IN
       /\ targets' = Watched([x \in DOMAIN targets |-> targets[x] \ cut])
       /\ chan' = [i \in Ids |->
                      IF i \in receivers \ cut
                      THEN Append(chan[i], Len(log'))
                      ELSE chan[i]]
    /\ UNCHANGED <<nextId, watches, alive, got, ended, since>>

\* Mutant of Poll: the stream never ends.
PollWithoutEnd(i) ==
    /\ i \in alive
    /\ chan[i] # <<>>
    /\ got' = [got EXCEPT ![i] = Append(@, Head(chan[i]))]
    /\ chan' = [chan EXCEPT ![i] = Tail(@)]
    /\ UNCHANGED <<targets, nextId, watches, alive, ended, since, log>>

\* poll_next(): the next event, or the end if the sender is gone.
Poll(i) ==
    /\ i \in alive \ ended
    /\ \/ /\ chan[i] # <<>>
          /\ got' = [got EXCEPT ![i] = Append(@, Head(chan[i]))]
          /\ chan' = [chan EXCEPT ![i] = Tail(@)]
          /\ UNCHANGED ended
       \/ /\ chan[i] = <<>>
          /\ i \notin Senders(watches[i])
          /\ ended' = ended \cup {i}
          /\ UNCHANGED <<got, chan>>
    /\ UNCHANGED <<targets, nextId, watches, alive, since, log>>

\* Mutant of Unsubscribe: the target goes, whoever else watches it.
UnsubscribeAll(i) ==
    /\ i \in alive
    /\ alive' = alive \ {i}
    /\ targets' = [x \in DOMAIN targets \ {watches[i]} |-> targets[x]]
    /\ chan' = [chan EXCEPT ![i] = <<>>]
    /\ UNCHANGED <<nextId, watches, got, ended, since, log>>

\* Subscription::drop, also of one that was cut off and whose target may
\* have been watched again since.
Unsubscribe(i) ==
    /\ i \in alive
    /\ alive' = alive \ {i}
    /\ targets' = Watched([x \in DOMAIN targets |-> targets[x] \ {i}])
    /\ chan' = [chan EXCEPT ![i] = <<>>]
    /\ UNCHANGED <<nextId, watches, got, ended, since, log>>

BusNext ==
    \/ \E x \in Watchable : Subscribe(x)
    \/ \E c \in Changes : Publish(c)
    \/ \E i \in Ids : Poll(i) \/ Unsubscribe(i)

BusSpec == BusInit /\ [][BusNext]_busVars

\* A subscriber keeps polling its stream while there is something to get.
FairBus == BusSpec /\ \A i \in Ids : WF_busVars(Poll(i))

-----------------------------------------------------------------------------
(* Properties *)

\* The log's positions after i subscribed that its target covers.
Wanted(i) ==
    {n \in 1 .. Len(log) : n > since[i] /\ watches[i] \in TargetsOf(log[n])}

\* What i's stream has yielded and what it still will.
Seen(i) == got[i] \o chan[i]

(***************************************************************************)
(* What a subscriber has got and still has in its channel is what was      *)
(* published for its target since it subscribed: in order, once each, with *)
(* nothing in between left out.  If it lags it misses the end, never the   *)
(* middle; while it has a sender it misses nothing.  And the channel never *)
(* holds more than its bound.                                              *)
(***************************************************************************)
NoGaps ==
    \A i \in 0 .. nextId - 1 :
        /\ Len(chan[i]) <= Buffer + 1
        /\ \A m, n \in DOMAIN Seen(i) : m < n => Seen(i)[m] < Seen(i)[n]
        /\ ToSet(Seen(i)) \subseteq Wanted(i)
        /\ \A n \in Wanted(i) :
              i \in Senders(watches[i]) \/ (\E m \in ToSet(Seen(i)) : n < m)
                  => n \in ToSet(Seen(i))

(***************************************************************************)
(* The map holds exactly the targets that are being watched, each sender   *)
(* under the target it was made for (the comment at the head of event.rs): *)
(* neither lagging subscribers nor dropped ones leave anything behind.     *)
(***************************************************************************)
MapIsWatchedTargets ==
    /\ \A x \in DOMAIN targets : targets[x] # {}
    /\ \A x \in DOMAIN targets : \A i \in targets[x] : i \in alive /\ watches[i] = x

(***************************************************************************)
(* A subscription that has not been dropped is cut off only if its channel *)
(* is full: neither another's lag nor another's destructor costs it its    *)
(* sender, not even that of an older subscription to the same target.      *)
(***************************************************************************)
OnlyLaggardsAreCut ==
    [][\A i \in alive \cap alive' :
          i \in Senders(watches[i]) /\ i \notin Senders(watches[i])' => Full(i)]_busVars

(***************************************************************************)
(* Who was cut off learns of it: the stream ends, once what the channel    *)
(* held has been read.                                                     *)
(***************************************************************************)
LaggardsAreTold ==
    \A i \in Ids :
        i \in alive /\ i \notin Senders(watches[i]) ~> i \in ended \/ i \notin alive

=============================================================================
