------------------------------ MODULE EventFeed ------------------------------
(***************************************************************************)
(* What the adapter's event stream of a task promises the relays that read *)
(* it, without ids, timers or replays: it keeps the last events up to a    *)
(* cap until it forgets them all, a relay that attaches is brought up to   *)
(* date in the same step, and while attached it hears everything.  A relay *)
(* that events were lost to hears some of the rest, still in order.        *)
(***************************************************************************)
EXTENDS Integers, SequencesExt

CONSTANTS Readers, MaxEventsPerTask

VARIABLES
  published,  (* Events published so far.                                    *)
  kept,       (* How many of the last of them are kept.                      *)
  ended,      (* The last event kept is an end.                              *)
  text,       (* text[r]: the events that r has, each by its number.         *)
  attached,   (* The relays that hear what is published.                     *)
  lost        (* The relays that an event was lost to.                       *)

vars == <<published, kept, ended, text, attached, lost>>

Ascends(s) == \A i \in 1 .. Len(s) - 1 : s[i] < s[i + 1]

Init ==
  /\ published = 0 /\ kept = 0 /\ ended = FALSE
  /\ text = [r \in Readers |-> << >>]
  /\ attached = {} /\ lost = {}

Hears(r)  == text'[r] = Append(text[r], published + 1)
Misses(r) == text'[r] = text[r]

\* The next event.  An attached relay misses it only if others were lost to it;
\* an end detaches every relay.
Publish(end) ==
  /\ published' = published + 1
  /\ kept' = IF kept < MaxEventsPerTask THEN kept + 1 ELSE kept
  /\ DOMAIN text' = Readers
  /\ \A r \in Readers :
       \/ r \in attached /\ Hears(r)
       \/ (r \notin attached \/ r \in lost) /\ Misses(r)
  /\ ended' = end
  /\ attached' = IF end THEN {} ELSE attached
  /\ UNCHANGED lost

\* A relay is brought up to date and attached, unless it is brought up to an end.
Attach(r) ==
  /\ r \notin attached
  /\ lost' = IF Len(text[r]) + kept < published THEN lost \cup {r} ELSE lost
  /\ DOMAIN text' = Readers
  /\ \A x \in Readers \ {r} : Misses(x)
  /\ IsPrefix(text[r], text'[r])
  /\ \A i \in Len(text[r]) + 1 .. Len(text'[r]) : text'[r][i] \in 1 .. published
  /\ Ascends(text'[r])
  /\ r \notin lost' => Len(text'[r]) = published
  /\ attached' = IF ended /\ ~Misses(r) THEN attached ELSE attached \cup {r}
  /\ UNCHANGED <<published, kept, ended>>

Detach(r) ==
  /\ attached' = attached \ {r}
  /\ UNCHANGED <<published, kept, ended, text, lost>>

\* The retention is over or the adapter restarts.
Forget ==
  /\ kept' = 0 /\ ended' = FALSE
  /\ attached' = {}
  /\ lost' = Readers
  /\ UNCHANGED <<published, text>>

Next ==
  \/ \E end \in BOOLEAN : Publish(end)
  \/ \E r \in Readers : Attach(r) \/ Detach(r)
  \/ Forget

Spec == Init /\ [][Next]_vars
=============================================================================
