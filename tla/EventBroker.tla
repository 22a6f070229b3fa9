----------------------------- MODULE EventBroker -----------------------------
(***************************************************************************)
(* TaskEventBroker and the event streams of server.ts, for one task, with  *)
(* the relays of the API that read it: each asks for what follows the last *)
(* event it has stored, and drops an event whose id it has stored already. *)
(* Time passes in ticks, so that the retention of an ended task counts.    *)
(***************************************************************************)
EXTENDS Integers, Sequences, SequencesExt

CONSTANTS
  Readers,
  MaxEventsPerTask,  (* The broker's cap on the history of a task.           *)
  Retention,         (* Ticks for which an ended task is kept.               *)
  MaxPublished,      (* Bound: events published in a behaviour.              *)
  MaxRestarts        (* Bound: restarts of the adapter.                      *)

ASSUME CapAssumption    == MaxEventsPerTask \in Nat \ {0}
ASSUME RetainAssumption == Retention \in Nat \ {0}
ASSUME BoundAssumption  == MaxPublished \in Nat /\ MaxRestarts \in Nat

VARIABLES
  history,    (* The events kept, oldest first.                              *)
  nextId,
  cleanup,    (* Ticks until the cleanup timer fires, or Off.                *)
  listeners,  (* The open streams that live events are written to.           *)
  reader,     (* Each relay: its stream, the last id stored, what it stored. *)
  published,  (* Events published so far; the nth is the event n.            *)
  sinceEnd,   (* Ticks since the last end was published.                     *)
  restarts

brokerVars == <<history, nextId, cleanup, listeners>>
vars == <<brokerVars, reader, published, sinceEnd, restarts>>

Off == -1
Event  == [id : 1 .. MaxPublished, n : 1 .. MaxPublished, end : BOOLEAN]
Reader ==
  [open    : BOOLEAN,
   stored  : 0 .. MaxPublished,
   text    : Seq(1 .. MaxPublished),
   late    : BOOLEAN,  (* The stream was opened after an end.                *)
   excused : BOOLEAN]  (* The cap or a reset took events it had not stored.  *)

TypeOK ==
  /\ history   \in Seq(Event) /\ Len(history) <= MaxEventsPerTask
  /\ nextId    \in 1 .. MaxPublished + 1
  /\ cleanup   \in {Off} \cup 0 .. Retention
  /\ listeners \in SUBSET Readers
  /\ reader    \in [Readers -> Reader]
  /\ published \in 0 .. MaxPublished
  /\ sinceEnd  \in 0 .. Retention
  /\ restarts  \in 0 .. MaxRestarts

Fresh == [open |-> FALSE, stored |-> 0, text |-> <<>>, late |-> FALSE, excused |-> FALSE]

Init ==
  /\ history = <<>> /\ nextId = 1 /\ cleanup = Off /\ listeners = {}
  /\ reader = [r \in Readers |-> Fresh]
  /\ published = 0 /\ sinceEnd = Retention /\ restarts = 0

-----------------------------------------------------------------------------
\* Mutant: one more than the cap is kept.
LastNAndOne(s, n) == SubSeq(s, IF Len(s) > n + 1 THEN Len(s) - n ELSE 1, Len(s))

LastN(s, n) == SubSeq(s, IF Len(s) > n THEN Len(s) - n + 1 ELSE 1, Len(s))

HasEnd(s) == \E i \in DOMAIN s : s[i].end

\* The events with an id above the one given, which is what a filter keeps of
\* events whose ids ascend.  There is no such place to cut at if they do not.
After(events, id) ==
  LET older == CHOOSE k \in 0 .. Len(events) :
                 \A i \in DOMAIN events : events[i].id <= id <=> i <= k
  IN  SubSeq(events, older + 1, Len(events))

\* Mutant: a relay does not move its position with what it stores.
StoreInPlace(r, events) ==
  LET new == After(events, reader[r].stored)
  IN  [reader[r] EXCEPT !.text = @ \o [i \in DOMAIN new |-> new[i].n]]

\* What a relay makes of events written to its stream: those with a new id are
\* stored, and at an end it is done.
Store(r, events) ==
  LET new == After(events, reader[r].stored)
  IN  [reader[r] EXCEPT !.text = @ \o [i \in DOMAIN new |-> new[i].n],
                        !.stored = IF new = <<>> THEN @ ELSE Last(new).id]

\* Mutant: the cleanup timer of an earlier end is left to fire.
PublishKeepsTimer(end) ==
  LET e == [id |-> nextId, n |-> published + 1, end |-> end]
  IN  /\ published < MaxPublished
      /\ history' = LastN(Append(history, e), MaxEventsPerTask)
      /\ nextId' = nextId + 1
      /\ reader' = [r \in Readers |->
           IF r \in listeners THEN [Store(r, <<e>>) EXCEPT !.open = ~end]
                              ELSE reader[r]]
      /\ listeners' = IF end THEN {} ELSE listeners
      /\ cleanup'   = IF end /\ cleanup = Off THEN Retention ELSE cleanup
      /\ sinceEnd'  = IF end THEN 0 ELSE sinceEnd
      /\ published' = published + 1
      /\ UNCHANGED restarts

\* publish: kept up to the cap, written to the listeners, and an end closes
\* their streams and starts the retention anew.
Publish(end) ==
  LET e == [id |-> nextId, n |-> published + 1, end |-> end]
  IN  /\ published < MaxPublished
      /\ history' = LastN(Append(history, e), MaxEventsPerTask)
      /\ nextId' = nextId + 1
      /\ reader' = [r \in Readers |->
           IF r \in listeners THEN [Store(r, <<e>>) EXCEPT !.open = ~end]
                              ELSE reader[r]]
      /\ listeners' = IF end THEN {} ELSE listeners
      /\ cleanup'   = IF end THEN Retention ELSE cleanup
      /\ sinceEnd'  = IF end THEN 0 ELSE sinceEnd
      /\ published' = published + 1
      /\ UNCHANGED restarts

\* Mutant: the replay leaves out the first event after the id.
ReplayLater(after) == After(history, after + 1)

\* replay: what is kept after the id the reader names.
Replay(after) == After(history, after)

\* Events the reader has not stored and the history does not hold any more.
Missing(r) ==
  \/ nextId <= reader[r].stored
  \/ history = <<>> /\ published > 0
  \/ history # <<>> /\ Head(history).id > reader[r].stored + 1

\* Mutant: a stream that had something to replay is not subscribed.
OpenStreamUnsubscribed(r) ==
  LET replay == Replay(reader[r].stored)
      ended  == replay # <<>>
  IN  /\ ~reader[r].open
      /\ reader' = [reader EXCEPT ![r] =
           [Store(r, replay) EXCEPT !.open = (ended => ~Last(replay).end), !.late = (cleanup # Off),
                                    !.excused = @ \/ Missing(r)]]
      /\ listeners' = IF ended THEN listeners ELSE listeners \cup {r}
      /\ UNCHANGED <<history, nextId, cleanup, published, sinceEnd, restarts>>

\* The events handler: the replay is written and the stream subscribed with no
\* await between them; a replay that ends with an end closes the stream.
OpenStream(r) ==
  LET replay == Replay(reader[r].stored)
      ended  == replay # <<>> /\ Last(replay).end
  IN  /\ ~reader[r].open
      /\ reader' = [reader EXCEPT ![r] =
           [Store(r, replay) EXCEPT !.open = ~ended, !.late = (cleanup # Off),
                                    !.excused = @ \/ Missing(r)]]
      /\ listeners' = IF ended THEN listeners ELSE listeners \cup {r}
      /\ UNCHANGED <<history, nextId, cleanup, published, sinceEnd, restarts>>

\* The relay or the network closes the stream.
CloseStream(r) ==
  /\ reader[r].open
  /\ reader' = [reader EXCEPT ![r].open = FALSE]
  /\ listeners' = listeners \ {r}
  /\ UNCHANGED <<history, nextId, cleanup, published, sinceEnd, restarts>>

\* cleanup: the task is forgotten, and its ids start again; an open stream is
\* not closed by it.
Forget ==
  /\ history' = <<>>
  /\ nextId' = 1
  /\ cleanup' = Off
  /\ listeners' = {}

CleanupFires ==
  /\ cleanup = 0
  /\ Forget
  /\ reader' = [r \in Readers |-> [reader[r] EXCEPT !.excused = TRUE]]
  /\ UNCHANGED <<published, sinceEnd, restarts>>

Tick ==
  /\ cleanup # 0
  /\ cleanup'  = IF cleanup = Off THEN Off ELSE cleanup - 1
  /\ sinceEnd' = IF sinceEnd < Retention THEN sinceEnd + 1 ELSE sinceEnd
  /\ UNCHANGED <<history, nextId, listeners, reader, published, restarts>>

\* The adapter restarts: close, and an empty broker.
Restart ==
  /\ restarts < MaxRestarts
  /\ restarts' = restarts + 1
  /\ Forget
  /\ reader' = [r \in Readers |-> [reader[r] EXCEPT !.open = FALSE, !.excused = TRUE]]
  /\ sinceEnd' = Retention
  /\ UNCHANGED published

Next ==
  \/ \E end \in BOOLEAN : Publish(end)
  \/ \E r \in Readers : OpenStream(r) \/ CloseStream(r)
  \/ CleanupFires
  \/ Tick
  \/ Restart

Spec == Init /\ [][Next]_vars

-----------------------------------------------------------------------------
(* Properties.                                                             *)

\* Whatever is capped, cleaned up or restarted, a relay that resumes after its
\* last id stores events in the order they were published and none twice.
NeverRepeats ==
  \A r \in Readers : \A i \in 1 .. Len(reader[r].text) - 1 :
    reader[r].text[i] < reader[r].text[i + 1]

\* A relay misses nothing, replay and live events taken together, unless the
\* cap or a reset had taken what it was still to read.
GapOnlyIfForgotten ==
  \A r \in Readers :
    ~reader[r].excused => reader[r].text = [i \in 1 .. Len(reader[r].text) |-> i]

\* For as long as the retention lasts after an end, the end can be replayed,
\* also when the task had ended before and another cleanup was under way.
EndIsRetained ==
  sinceEnd < Retention => HasEnd(history) \/ Len(history) = MaxEventsPerTask

\* A stream opened before the task ended stays subscribed until it is closed:
\* it cannot be left open and silent.
OpenIsSubscribed ==
  \A r \in Readers : reader[r].open /\ ~reader[r].late => r \in listeners

Feed == INSTANCE EventFeed WITH
  kept     <- Len(history),
  ended    <- history # << >> /\ Last(history).end,
  text     <- [r \in Readers |-> reader[r].text],
  attached <- listeners,
  lost     <- {r \in Readers : reader[r].excused}

\* Replay, subscription, ids and timers together keep the promise of EventFeed:
\* the last events up to the cap are there until a reset, a stream that opens is
\* brought up to date and subscribed with nothing published in between, and a
\* relay loses events to the cap or a reset and to nothing else.
ImplementsFeed == Feed!Spec
=============================================================================
