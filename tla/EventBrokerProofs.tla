-------------------------- MODULE EventBrokerProofs --------------------------
(***************************************************************************)
(* Theorems of EventBroker, for any number of relays, any cap and any      *)
(* retention.  They rest on the numbering of the history: its ids are      *)
(* consecutive and end at the last one given, and since the broker last    *)
(* forgot the task an event's id and its place among all events differ by  *)
(* a constant, which only grows when it forgets again.                     *)
(***************************************************************************)
EXTENDS EventBroker, SequenceTheorems, TLAPS

Offset == published + 1 - nextId

\* The kept events are the last ones given an id, in that order.
Numbered ==
  /\ nextId <= published + 1
  /\ Len(history) < nextId
  /\ history = << >> => nextId = 1
  /\ \A i \in DOMAIN history :
       /\ history[i].id = nextId - 1 - Len(history) + i
       /\ history[i].n = history[i].id + Offset

\* What a relay has stored ascends and is not ahead of its position.
Follows(rd, offset) ==
  /\ \A i \in DOMAIN rd.text : rd.text[i] <= rd.stored + offset
  /\ \A i \in 1 .. Len(rd.text) - 1 : rd.text[i] < rd.text[i + 1]

Texts == \A r \in Readers : Follows(reader[r], Offset)

\* What a relay has stored is everything up to its position.
Whole(rd) ==
  /\ Len(rd.text) = rd.stored
  /\ \A i \in DOMAIN rd.text : rd.text[i] = i

\* A relay from which nothing was taken has met no reset, and is up to date
\* while its stream is subscribed.
Complete ==
  \A r \in Readers : ~reader[r].excused =>
    /\ Offset = 0
    /\ Whole(reader[r])
    /\ reader[r].stored <= published
    /\ r \in listeners => reader[r].stored = published

\* A stream opened before an end is subscribed, and no cleanup is under way;
\* only open streams are subscribed.
OpenEarly ==
  \A r \in Readers :
    /\ reader[r].open /\ ~reader[r].late => r \in listeners /\ cleanup = Off
    /\ r \in listeners => reader[r].open

\* The cleanup timer runs from the last end.
Retained ==
  sinceEnd < Retention =>
    /\ cleanup = Retention - sinceEnd
    /\ HasEnd(history) \/ Len(history) = MaxEventsPerTask

Inv ==
  /\ TypeOK
  /\ Numbered
  /\ Texts
  /\ Complete
  /\ OpenEarly
  /\ Retained

-----------------------------------------------------------------------------
(* What the operators return.                                              *)

\* After cuts a numbered list where the ids pass the one given.
LEMMA AfterIsSuffix ==
  ASSUME NEW events \in Seq(Event), NEW base \in Int, NEW id \in Nat,
         \A i \in DOMAIN events : events[i].id = base + i
  PROVE  /\ After(events, id) \in Seq(Event)
         /\ \E k \in 0 .. Len(events) :
              /\ \A i \in DOMAIN events : events[i].id <= id <=> i <= k
              /\ Len(After(events, id)) = Len(events) - k
              /\ \A j \in 1 .. Len(events) - k : After(events, id)[j] = events[k + j]
<1> DEFINE Cut(k) == \A i \in DOMAIN events : events[i].id <= id <=> i <= k
           older == CHOOSE k \in 0 .. Len(events) : Cut(k)
<1>1. Len(events) \in Nat /\ DOMAIN events = 1 .. Len(events)
  OBVIOUS
<1>2. \E k \in 0 .. Len(events) : Cut(k)
  <2>1. CASE id <= base
    <3>1. 0 \in 0 .. Len(events) /\ Cut(0)
      BY <1>1, <2>1
    <3> HIDE DEF Cut
    <3> QED
      BY <3>1
  <2>2. CASE id > base /\ id - base <= Len(events)
    <3>1. id - base \in 0 .. Len(events) /\ Cut(id - base)
      BY <1>1, <2>2
    <3> QED
      BY <3>1
  <2>3. CASE id - base > Len(events)
    <3>1. \A i \in DOMAIN events : events[i].id = base + i /\ i <= Len(events)
      BY <1>1
    <3>2. Cut(Len(events))
      BY <1>1, <2>3, <3>1
    <3>3. Len(events) \in 0 .. Len(events)
      BY <1>1
    <3> HIDE DEF Cut
    <3> QED
      BY <3>2, <3>3
  <2> QED
    BY <1>1, <2>1, <2>2, <2>3
<1>3. older \in 0 .. Len(events) /\ Cut(older)
  BY <1>2
<1>4. After(events, id) = SubSeq(events, older + 1, Len(events))
  BY DEF After
<1> HIDE DEF older
<1>5. /\ SubSeq(events, older + 1, Len(events)) \in Seq(Event)
      /\ Len(SubSeq(events, older + 1, Len(events))) = Len(events) - older
      /\ \A j \in 1 .. Len(events) - older :
           SubSeq(events, older + 1, Len(events))[j] = events[older + j]
  <2> DEFINE from == older + 1
  <2>1. from \in 1 .. Len(events) + 1 /\ older = from - 1
    BY <1>1, <1>3
  <2> HIDE DEF from
  <2>2. \A i \in from .. Len(events) : events[i] \in Event
    BY <1>1, <2>1
  <2>3. /\ SubSeq(events, from, Len(events)) \in Seq(Event)
        /\ Len(SubSeq(events, from, Len(events))) =
             IF from <= Len(events) THEN Len(events) - from + 1 ELSE 0
        /\ \A j \in 1 .. Len(events) - from + 1 :
             SubSeq(events, from, Len(events))[j] = events[from + j - 1]
    BY <1>1, <2>1, <2>2, SubSeqProperties
  <2>4. \A j \in 1 .. Len(events) - older : older + j = from + j - 1
    BY <1>1, <1>3 DEF from
  <2>5. Len(events) - from + 1 = Len(events) - older
    BY <1>1, <2>1
  <2>6. IF from <= Len(events) THEN Len(events) - from + 1 = Len(events) - older ELSE Len(events) - older = 0
    BY <1>1, <2>1
  <2>7. from = older + 1
    BY DEF from
  <2> HIDE DEF older
  <2>8. \A j \in 1 .. Len(events) - older :
          SubSeq(events, from, Len(events))[j] = events[older + j]
    BY <2>3, <2>4, <2>5
  <2>9. Len(SubSeq(events, from, Len(events))) = Len(events) - older
    BY <2>3, <2>6
  <2> QED
    BY <2>3, <2>7, <2>8, <2>9
<1> QED
  BY <1>3, <1>4, <1>5

\* LastN keeps the end of a list and no more than it may.
LEMMA LastNKeeps ==
  ASSUME NEW s \in Seq(Event), NEW n \in Nat \ {0}
  PROVE  /\ LastN(s, n) \in Seq(Event)
         /\ Len(LastN(s, n)) = IF Len(s) > n THEN n ELSE Len(s)
         /\ \A i \in 1 .. Len(LastN(s, n)) :
              LastN(s, n)[i] = s[Len(s) - Len(LastN(s, n)) + i]
<1> DEFINE first == IF Len(s) > n THEN Len(s) - n + 1 ELSE 1
<1>1. Len(s) \in Nat /\ first \in 1 .. Len(s) + 1
  OBVIOUS
<1>2. LastN(s, n) = SubSeq(s, first, Len(s))
  BY DEF LastN
<1>3. Len(s) - first + 1 = IF Len(s) > n THEN n ELSE Len(s)
  BY <1>1
<1> HIDE DEF first
<1>4. /\ SubSeq(s, first, Len(s)) \in Seq(Event)
      /\ Len(SubSeq(s, first, Len(s))) = Len(s) - first + 1
      /\ \A i \in 1 .. Len(s) - first + 1 :
           SubSeq(s, first, Len(s))[i] = s[first - 1 + i]
  BY <1>1
<1> QED
  BY <1>1, <1>2, <1>3, <1>4

\* The jth place after the first m of a list of m + p.
LEMMA Places ==
  ASSUME NEW m \in Nat, NEW p \in Nat, NEW j \in 1 .. p
  PROVE  /\ m + j \in 1 .. m + p
         /\ ~(m + j <= m)
         /\ m + j - m = j
OBVIOUS

\* What becomes of a relay's record rd when it stores the events new.
Appended(after, rd, new) ==
  /\ after \in Reader
  /\ after.open = rd.open /\ after.late = rd.late /\ after.excused = rd.excused
  /\ Len(after.text) = Len(rd.text) + Len(new)
  /\ \A i \in 1 .. Len(rd.text) : after.text[i] = rd.text[i]
  /\ \A j \in 1 .. Len(new) : after.text[Len(rd.text) + j] = new[j].n
  /\ after.stored = IF Len(new) = 0 THEN rd.stored ELSE new[Len(new)].id

\* A relay stores what is new to it.
LEMMA StoreShape ==
  ASSUME TypeOK, NEW r \in Readers, NEW events,
         NEW new \in Seq(Event), new = After(events, reader[r].stored)
  PROVE  Appended(Store(r, events), reader[r], new)
<1> DEFINE rd == reader[r]
           ns == [i \in DOMAIN new |-> new[i].n]
           stored == IF new = << >> THEN rd.stored ELSE Last(new).id
<1>1. rd \in Reader /\ MaxPublished \in Nat
  BY BoundAssumption DEF TypeOK
<1>2. rd.stored \in Nat /\ rd.text \in Seq(1 .. MaxPublished) /\ rd.stored <= MaxPublished
  BY <1>1 DEF Reader
<1>3. new \in Seq(Event)
  OBVIOUS
<1>4. Len(new) \in Nat /\ DOMAIN new = 1 .. Len(new) /\ (new = << >> <=> Len(new) = 0)
  BY <1>3
<1>5. \A i \in 1 .. Len(new) : new[i] \in Event
  BY <1>3, <1>4
<1>6. \A i \in 1 .. Len(new) : new[i].n \in 1 .. MaxPublished /\ new[i].id \in 1 .. MaxPublished
  BY <1>5 DEF Event
<1>7. ns \in Seq(1 .. MaxPublished) /\ Len(ns) = Len(new)
  <2>1. ns \in [1 .. Len(new) -> 1 .. MaxPublished]
    BY <1>4, <1>6
  <2> QED
    BY <1>4, <2>1
<1>8. stored \in 0 .. MaxPublished /\ stored = IF Len(new) = 0 THEN rd.stored ELSE new[Len(new)].id
  BY <1>1, <1>2, <1>4, <1>6 DEF Last
<1>9. Store(r, events) = [rd EXCEPT !.text = rd.text \o ns, !.stored = stored]
  BY DEF Store
<1>10. \A j \in 1 .. Len(new) : ns[j] = new[j].n
  BY <1>4
<1> HIDE DEF ns, stored
<1>11. /\ rd.text \o ns \in Seq(1 .. MaxPublished)
       /\ Len(rd.text \o ns) = Len(rd.text) + Len(new)
       /\ \A i \in 1 .. Len(rd.text) : (rd.text \o ns)[i] = rd.text[i]
       /\ \A j \in 1 .. Len(new) : (rd.text \o ns)[Len(rd.text) + j] = ns[j]
  <2>1. \A i \in 1 .. Len(rd.text) + Len(ns) :
          (rd.text \o ns)[i] = IF i <= Len(rd.text) THEN rd.text[i] ELSE ns[i - Len(rd.text)]
    BY <1>2, <1>7, ConcatProperties
  <2>2. rd.text \o ns \in Seq(1 .. MaxPublished) /\ Len(rd.text \o ns) = Len(rd.text) + Len(ns)
    BY <1>2, <1>7, ConcatProperties
  <2>3. Len(rd.text) \in Nat
    BY <1>2
  <2>4. \A i \in 1 .. Len(rd.text) : (rd.text \o ns)[i] = rd.text[i]
    BY <1>4, <1>7, <2>1, <2>3
  <2>5. ASSUME NEW j \in 1 .. Len(new)
        PROVE  (rd.text \o ns)[Len(rd.text) + j] = ns[j]
    <3> HIDE DEF ns, rd
    <3>1. /\ Len(rd.text) + j \in 1 .. Len(rd.text) + Len(ns)
          /\ ~(Len(rd.text) + j <= Len(rd.text))
          /\ Len(rd.text) + j - Len(rd.text) = j
      BY <1>4, <1>7, <2>3, Places
    <3> QED
      BY <2>1, <3>1
  <2> QED
    BY <1>7, <2>2, <2>4, <2>5
<1> DEFINE text == rd.text \o ns
<1> HIDE DEF text
<1>12. Store(r, events) = [rd EXCEPT !.text = text, !.stored = stored]
  BY <1>9 DEF text
<1>13. text \in Seq(1 .. MaxPublished)
  BY <1>11 DEF text
<1>14. /\ Store(r, events) \in Reader
       /\ Store(r, events).open = rd.open /\ Store(r, events).late = rd.late
       /\ Store(r, events).excused = rd.excused
       /\ Store(r, events).text = text /\ Store(r, events).stored = stored
  BY <1>1, <1>8, <1>12, <1>13 DEF Reader
<1> QED
  BY <1>8, <1>10, <1>11, <1>14 DEF text, Appended

\* Storing keeps a relay's text ascending: what is new has a higher id than
\* anything stored, and ids and places go together.
LEMMA StoreFollows ==
  ASSUME TypeOK, NEW r \in Readers, NEW events \in Seq(Event), NEW base \in Int,
         NEW offset \in Int,
         \A i \in DOMAIN events : events[i].id = base + i /\ events[i].n = events[i].id + offset,
         Follows(reader[r], offset)
  PROVE  Follows(Store(r, events), offset)
<1> DEFINE rd == reader[r]
           new == After(events, rd.stored)
           after == Store(r, events)
           m == Len(rd.text)
           p == Len(new)
<1>1. /\ rd.stored \in Nat /\ rd.text \in Seq(1 .. MaxPublished)
      /\ m \in Nat /\ DOMAIN rd.text = 1 .. m
      /\ \A i \in 1 .. m : rd.text[i] \in Int
  <2>1. rd \in Reader /\ MaxPublished \in Nat
    BY BoundAssumption DEF TypeOK
  <2>2. rd.stored \in Nat /\ rd.text \in Seq(1 .. MaxPublished)
    BY <2>1 DEF Reader
  <2> QED
    BY <2>1, <2>2
<1>2. new \in Seq(Event) /\ p \in Nat
  BY <1>1, AfterIsSuffix
<1>3. PICK k \in 0 .. Len(events) :
        /\ \A i \in DOMAIN events : events[i].id <= rd.stored <=> i <= k
        /\ p = Len(events) - k
        /\ \A j \in 1 .. Len(events) - k : new[j] = events[k + j]
  BY <1>1, AfterIsSuffix
<1>4. Len(events) \in Nat /\ DOMAIN events = 1 .. Len(events) /\ k \in Nat
  OBVIOUS
<1>5. \A j \in 1 .. p : /\ new[j].id = base + k + j /\ new[j].n = base + k + j + offset
                        /\ new[j].id > rd.stored
  <2> SUFFICES ASSUME NEW j \in 1 .. p
               PROVE  /\ new[j].id = base + k + j /\ new[j].n = base + k + j + offset
                      /\ new[j].id > rd.stored
    OBVIOUS
  <2>1. k + j \in DOMAIN events /\ ~(k + j <= k) /\ new[j] = events[k + j]
    BY <1>2, <1>3, <1>4
  <2>2. events[k + j].id = base + (k + j) /\ events[k + j].n = base + (k + j) + offset
    BY <2>1
  <2>3. ~(events[k + j].id <= rd.stored)
    BY <1>3, <2>1
  <2> HIDE DEF rd, new
  <2> QED
    BY <1>1, <1>4, <2>1, <2>2, <2>3
<1>6. /\ after \in Reader
      /\ Len(after.text) = m + p
      /\ \A i \in 1 .. m : after.text[i] = rd.text[i]
      /\ \A j \in 1 .. p : after.text[m + j] = new[j].n
      /\ after.stored = IF p = 0 THEN rd.stored ELSE new[p].id
  <2>1. Appended(after, rd, new)
    BY <1>2, StoreShape
  <2> HIDE DEF after, rd, new
  <2> QED
    BY <2>1 DEF Appended
<1>7. DOMAIN after.text = 1 .. m + p
  <2> HIDE DEF after
  <2>1. after.text \in Seq(1 .. MaxPublished)
    BY <1>6 DEF Reader
  <2>2. DOMAIN after.text = 1 .. Len(after.text)
    BY <2>1
  <2> QED
    BY <1>6, <2>2
<1>8. after.stored = IF p = 0 THEN rd.stored ELSE base + k + p
  BY <1>2, <1>5, <1>6
<1>9. rd.stored <= after.stored
  BY <1>1, <1>2, <1>4, <1>5, <1>8
<1>10. /\ \A i \in 1 .. m : rd.text[i] <= rd.stored + offset
       /\ \A i \in 1 .. m - 1 : rd.text[i] < rd.text[i + 1]
  BY <1>1 DEF Follows
<1> HIDE DEF rd, new, after, m, p
<1>11. ASSUME NEW i \in 1 .. m + p
       PROVE  after.text[i] <= after.stored + offset
  <2>1. CASE i <= m
    <3>1. after.text[i] = rd.text[i] /\ rd.text[i] <= rd.stored + offset /\ rd.text[i] \in Int
      BY <1>1, <1>2, <1>6, <1>10, <2>1
    <3>2. after.stored \in Int
      BY <1>1, <1>2, <1>4, <1>8
    <3> QED
      BY <1>1, <1>9, <3>1, <3>2
  <2>2. CASE i > m
    <3>1. i - m \in 1 .. p /\ i = m + (i - m)
      BY <1>1, <1>2, <2>2
    <3>2. after.text[i] = base + k + (i - m) + offset
      BY <1>5, <1>6, <3>1
    <3>3. p # 0 /\ after.stored = base + k + p
      BY <1>2, <1>8, <3>1
    <3> QED
      BY <1>1, <1>2, <1>4, <3>1, <3>2, <3>3
  <2> QED
    BY <1>1, <1>2, <2>1, <2>2
<1>12. ASSUME NEW i \in 1 .. m + p - 1
       PROVE  after.text[i] < after.text[i + 1]
  <2>1. CASE i < m
    BY <1>1, <1>2, <1>6, <1>10, <2>1
  <2>2. CASE i = m
    <3>1. 1 \in 1 .. p /\ i + 1 = m + 1 /\ m \in 1 .. m
      BY <1>1, <1>2, <2>2
    <3>2. after.text[i + 1] = new[1].n /\ after.text[i] = rd.text[m]
      BY <1>6, <2>2, <3>1
    <3>3. new[1].n = new[1].id + offset /\ new[1].id > rd.stored /\ new[1].id \in Int
      BY <1>4, <1>5, <3>1
    <3>4. rd.text[m] <= rd.stored + offset /\ rd.text[m] \in Int
      BY <1>1, <1>10, <3>1
    <3> QED
      BY <1>1, <3>2, <3>3, <3>4
  <2>3. CASE i > m
    <3>1. /\ i - m \in 1 .. p /\ i = m + (i - m)
          /\ i + 1 - m \in 1 .. p /\ i + 1 = m + (i + 1 - m)
      BY <1>1, <1>2, <2>3
    <3>2. /\ after.text[i] = base + k + (i - m) + offset
          /\ after.text[i + 1] = base + k + (i + 1 - m) + offset
      BY <1>5, <1>6, <3>1
    <3> QED
      BY <1>1, <1>4, <3>1, <3>2
  <2> QED
    BY <1>1, <1>2, <2>1, <2>2, <2>3
<1>13. Follows(after, offset)
  <2>1. Len(after.text) = m + p
    BY <1>6
  <2>2. \A i \in DOMAIN after.text : after.text[i] <= after.stored + offset
    BY <1>7, <1>11
  <2>3. \A i \in 1 .. Len(after.text) - 1 : after.text[i] < after.text[i + 1]
    BY <1>1, <1>2, <1>12, <2>1
  <2> QED
    BY <2>2, <2>3 DEF Follows
<1> QED
  BY <1>13 DEF after

\* A relay that has everything up to its position still has after it stored
\* events with no gap before them.
LEMMA StoreWhole ==
  ASSUME TypeOK, NEW r \in Readers, NEW events \in Seq(Event), NEW base \in Int,
         \A i \in DOMAIN events : events[i].id = base + i /\ events[i].n = events[i].id,
         Whole(reader[r]),
         Len(events) > 0 => base <= reader[r].stored
  PROVE  /\ Whole(Store(r, events))
         /\ Store(r, events).stored =
              IF Len(events) > 0 /\ base + Len(events) > reader[r].stored
                THEN base + Len(events) ELSE reader[r].stored
<1> DEFINE rd == reader[r]
           new == After(events, rd.stored)
           after == Store(r, events)
           m == Len(rd.text)
           p == Len(new)
<1>1. /\ rd.stored \in Nat /\ rd.text \in Seq(1 .. MaxPublished)
      /\ m \in Nat /\ DOMAIN rd.text = 1 .. m
  <2>1. rd \in Reader /\ MaxPublished \in Nat
    BY BoundAssumption DEF TypeOK
  <2>2. rd.stored \in Nat /\ rd.text \in Seq(1 .. MaxPublished)
    BY <2>1 DEF Reader
  <2> QED
    BY <2>1, <2>2
<1>0. \A i \in DOMAIN events : events[i].id = base + i
  OBVIOUS
<1>2. new \in Seq(Event) /\ p \in Nat
  <2>1. rd.stored \in Nat
    BY <1>1
  <2> HIDE DEF rd
  <2>2. After(events, rd.stored) \in Seq(Event)
    BY <1>0, <2>1, AfterIsSuffix
  <2> QED
    BY <2>2
<1>3. PICK k \in 0 .. Len(events) :
        /\ \A i \in DOMAIN events : events[i].id <= rd.stored <=> i <= k
        /\ p = Len(events) - k
        /\ \A j \in 1 .. Len(events) - k : new[j] = events[k + j]
  <2>1. /\ rd.stored \in Nat
        /\ new = After(events, rd.stored) /\ p = Len(new)
    BY <1>1
  <2> HIDE DEF rd, new, p
  <2>2. \E k \in 0 .. Len(events) :
          /\ \A i \in DOMAIN events : events[i].id <= rd.stored <=> i <= k
          /\ Len(After(events, rd.stored)) = Len(events) - k
          /\ \A j \in 1 .. Len(events) - k : After(events, rd.stored)[j] = events[k + j]
    BY <1>0, <2>1, AfterIsSuffix
  <2> QED
    BY <2>1, <2>2
<1>4. Len(events) \in Nat /\ DOMAIN events = 1 .. Len(events) /\ k \in Nat
  OBVIOUS
<1>5. Appended(after, rd, new)
  BY <1>2, StoreShape
<1>6. m = rd.stored /\ \A i \in 1 .. m : rd.text[i] = i
  BY <1>1 DEF Whole
<1>7. Len(events) > 0 => base <= rd.stored
  OBVIOUS
<1>8. \A i \in 1 .. Len(events) : events[i].id = base + i /\ events[i].n = base + i
  BY <1>4
<1>9. \A i \in 1 .. Len(events) : base + i <= rd.stored <=> i <= k
  BY <1>3, <1>4, <1>8
<1> HIDE DEF rd, new, after, m, p
<1>10. p > 0 => base + k = rd.stored /\ Len(events) > 0
  <2> SUFFICES ASSUME p > 0 PROVE base + k = rd.stored /\ Len(events) > 0
    OBVIOUS
  <2>1. k + 1 \in 1 .. Len(events)
    BY <1>2, <1>3, <1>4
  <2>2. ~(base + (k + 1) <= rd.stored)
    BY <1>4, <1>9, <2>1
  <2>3. base + k <= rd.stored
    <3>1. CASE k = 0
      BY <1>4, <1>7, <2>1, <3>1
    <3>2. CASE k # 0
      BY <1>4, <1>9, <3>2
    <3> QED
      BY <3>1, <3>2
  <2>4. rd.stored \in Nat /\ base \in Int
    BY <1>1
  <2>5. base + k = rd.stored
    BY <1>4, <2>2, <2>3, <2>4, SMTT(20)
  <2> QED
    BY <1>4, <2>1, <2>5
<1>11. /\ after \in Reader /\ Len(after.text) = m + p
       /\ \A i \in 1 .. m : after.text[i] = i
       /\ \A j \in 1 .. p : after.text[m + j] = new[j].n
       /\ after.stored = IF p = 0 THEN rd.stored ELSE new[p].id
  BY <1>5, <1>6 DEF Appended, m, p
<1>12. \A j \in 1 .. p : new[j].id = base + (k + j) /\ new[j].n = base + (k + j)
  <2> SUFFICES ASSUME NEW j \in 1 .. p
               PROVE  new[j].id = base + (k + j) /\ new[j].n = base + (k + j)
    OBVIOUS
  <2>1. k + j \in 1 .. Len(events) /\ j \in 1 .. Len(events) - k
    BY <1>2, <1>3, <1>4
  <2> QED
    BY <1>3, <1>8, <2>1
<1>13. after.stored = m + p
  <2>1. CASE p = 0
    BY <1>1, <1>6, <1>11, <2>1
  <2>2. CASE p # 0
    <3>1. p \in 1 .. p
      BY <1>2, <2>2
    <3> QED
      BY <1>1, <1>2, <1>4, <1>6, <1>10, <1>11, <1>12, <3>1
  <2> QED
    BY <2>1, <2>2
<1>14. \A i \in 1 .. m + p : after.text[i] = i
  <2> SUFFICES ASSUME NEW i \in 1 .. m + p PROVE after.text[i] = i
    OBVIOUS
  <2>1. CASE i <= m
    BY <1>1, <1>2, <1>11, <2>1
  <2>2. CASE i > m
    <3>1. i - m \in 1 .. p /\ i = m + (i - m) /\ p > 0
      BY <1>1, <1>2, <2>2
    <3>2. after.text[i] = base + (k + (i - m))
      BY <1>11, <1>12, <3>1
    <3> QED
      BY <1>1, <1>4, <1>6, <1>10, <3>1, <3>2, SMTT(20)
  <2> QED
    BY <1>1, <1>2, <2>1, <2>2
<1>15. DOMAIN after.text = 1 .. Len(after.text)
  <2>1. after.text \in Seq(1 .. MaxPublished)
    BY <1>11 DEF Reader
  <2> QED
    BY <2>1
<1>16. Whole(after)
  BY <1>11, <1>13, <1>14, <1>15 DEF Whole
<1>17. after.stored = IF Len(events) > 0 /\ base + Len(events) > rd.stored
                        THEN base + Len(events) ELSE rd.stored
  <2>1. CASE p > 0
    BY <1>1, <1>2, <1>3, <1>4, <1>6, <1>10, <1>13, <2>1
  <2>2. CASE ~(p > 0)
    <3>1. p = 0 /\ k = Len(events)
      BY <1>2, <1>3, <1>4, <2>2
    <3>2. ~(Len(events) > 0 /\ base + Len(events) > rd.stored)
      BY <1>1, <1>4, <1>9, <3>1
    <3> QED
      BY <1>11, <3>1, <3>2
  <2> QED
    BY <2>1, <2>2
<1> QED
  BY <1>16, <1>17 DEF rd, after

\* A higher offset is no worse.
LEMMA FollowsHigher ==
  ASSUME NEW rd \in Reader, NEW low \in Int, NEW high \in Int, low <= high, Follows(rd, low)
  PROVE  Follows(rd, high)
<1>1. MaxPublished \in Nat
  BY BoundAssumption
<1>2. rd.stored \in Nat /\ rd.text \in Seq(1 .. MaxPublished)
  BY <1>1 DEF Reader
<1>3. \A i \in DOMAIN rd.text : rd.text[i] \in Int
  BY <1>1, <1>2
<1>4. \A i \in DOMAIN rd.text : rd.text[i] <= rd.stored + high
  BY <1>2, <1>3 DEF Follows
<1> QED
  BY <1>4 DEF Follows

-----------------------------------------------------------------------------
(* The steps.                                                              *)

\* Nothing is published, no stream is open.
LEMMA InitInv == Init => Inv
<1> SUFFICES ASSUME Init PROVE Inv
  OBVIOUS
<1>0. MaxPublished \in Nat /\ MaxRestarts \in Nat /\ Retention \in Nat /\ MaxEventsPerTask \in Nat
  BY BoundAssumption, RetainAssumption, CapAssumption
<1>1. Fresh \in Reader
  BY <1>0 DEF Fresh, Reader
<1>2. TypeOK
  BY <1>0, <1>1 DEF Init, TypeOK, Off
<1>3. Numbered
  BY DEF Init, Numbered, Offset
<1>4. \A r \in Readers : reader[r] = Fresh
  BY DEF Init
<1>5. Fresh.text = << >> /\ Fresh.stored = 0 /\ Fresh.open = FALSE
  BY DEF Fresh
<1>6. Texts
  BY <1>4, <1>5 DEF Texts, Follows
<1>7. Complete
  BY <1>4, <1>5 DEF Init, Complete, Offset, Whole
<1>8. OpenEarly
  BY <1>4, <1>5 DEF Init, OpenEarly
<1>9. Retained
  BY <1>0 DEF Init, Retained
<1> QED
  BY <1>2, <1>3, <1>6, <1>7, <1>8, <1>9 DEF Inv

\* The history after an event: numbered on, the end of a task kept or pushed
\* out by a full history only.
LEMMA PublishHistory ==
  ASSUME Inv, NEW end \in BOOLEAN, Publish(end), NEW e,
         e = [id |-> nextId, n |-> published + 1, end |-> end]
  PROVE  /\ e \in Event
         /\ history' \in Seq(Event)
         /\ Len(history') = IF Len(history) + 1 > MaxEventsPerTask
                              THEN MaxEventsPerTask ELSE Len(history) + 1
         /\ \A i \in 1 .. Len(history') :
              history'[i] = Append(history, e)[Len(history) + 1 - Len(history') + i]
<1>1. /\ nextId \in Nat \ {0} /\ published \in Nat /\ MaxPublished \in Nat
      /\ nextId <= published + 1 /\ published < MaxPublished
      /\ history \in Seq(Event)
      /\ MaxEventsPerTask \in Nat \ {0}
  BY BoundAssumption, CapAssumption DEF Inv, TypeOK, Numbered, Publish
<1>2. e \in Event
  BY <1>1 DEF Event
<1>3. Append(history, e) \in Seq(Event) /\ Len(Append(history, e)) = Len(history) + 1
  BY <1>1, <1>2
<1>4. history' = LastN(Append(history, e), MaxEventsPerTask)
  BY DEF Publish
<1> DEFINE s == Append(history, e)
<1> HIDE DEF s
<1>5. s \in Seq(Event) /\ Len(s) = Len(history) + 1 /\ history' = LastN(s, MaxEventsPerTask)
  BY <1>3, <1>4 DEF s
<1>6. /\ history' \in Seq(Event)
      /\ Len(history') = IF Len(s) > MaxEventsPerTask THEN MaxEventsPerTask ELSE Len(s)
      /\ \A i \in 1 .. Len(history') : history'[i] = s[Len(s) - Len(history') + i]
  BY <1>1, <1>5, LastNKeeps
<1>7. /\ Len(history') = IF Len(history) + 1 > MaxEventsPerTask
                             THEN MaxEventsPerTask ELSE Len(history) + 1
      /\ \A i \in 1 .. Len(history') : history'[i] = s[Len(history) + 1 - Len(history') + i]
  BY <1>5, <1>6
<1> QED
  BY <1>2, <1>6, <1>7 DEF s

\* What a publication makes of a relay.
LEMMA PublishReader ==
  ASSUME Inv, NEW end \in BOOLEAN, Publish(end), NEW r \in Readers
  PROVE  /\ reader'[r] \in Reader
         /\ reader'[r].late = reader[r].late /\ reader'[r].excused = reader[r].excused
         /\ r \in listeners => reader'[r].open = ~end
         /\ r \notin listeners => reader'[r] = reader[r]
         /\ Follows(reader'[r], Offset)
         /\ ~reader[r].excused =>
              /\ Whole(reader'[r])
              /\ r \in listeners => reader'[r].stored = published + 1
<1> DEFINE e == [id |-> nextId, n |-> published + 1, end |-> end]
           es == <<e>>
           base == nextId - 1
<1>0. TypeOK /\ Follows(reader[r], Offset)
  BY DEF Inv, Texts
<1>1. /\ nextId \in Nat \ {0} /\ published \in Nat /\ MaxPublished \in Nat
      /\ reader[r] \in Reader
  BY <1>0, BoundAssumption DEF TypeOK
<1>2. e \in Event
  BY PublishHistory
<1>3. reader'[r] = IF r \in listeners THEN [Store(r, es) EXCEPT !.open = ~end] ELSE reader[r]
  BY DEF Publish
<1>4. base \in Int /\ Offset \in Int
  BY <1>1 DEF Offset
<1>5. e.id = base + 1 /\ e.n = e.id + Offset
  BY <1>1 DEF Offset
<1> HIDE DEF base, e
<1>6. es \in Seq(Event) /\ Len(es) = 1 /\ DOMAIN es = {1} /\ es[1] = e
  BY <1>2
<1> HIDE DEF es
<1>7. \A i \in DOMAIN es : es[i].id = base + i /\ es[i].n = es[i].id + Offset
  BY <1>5, <1>6
<1>8. CASE r \notin listeners
  BY <1>0, <1>1, <1>3, <1>8 DEF Inv, Complete
<1>9. CASE r \in listeners
  <2> DEFINE rec == Store(r, es)
  <2>1. Follows(rec, Offset)
    BY <1>0, <1>4, <1>6, <1>7, StoreFollows
  <2>2. reader[r].stored \in Nat
    BY <1>1 DEF Reader
  <2>3. After(es, reader[r].stored) \in Seq(Event)
    <3>1. \A i \in DOMAIN es : es[i].id = base + i
      BY <1>7
    <3> QED
      BY <1>4, <1>6, <2>2, <3>1, AfterIsSuffix
  <2>4. /\ rec \in Reader /\ rec.open = reader[r].open
        /\ rec.late = reader[r].late /\ rec.excused = reader[r].excused
    BY <1>0, <2>3, StoreShape DEF Appended
  <2>5. ~reader[r].excused => Whole(rec) /\ rec.stored = published + 1
    <3> SUFFICES ASSUME ~reader[r].excused PROVE Whole(rec) /\ rec.stored = published + 1
      OBVIOUS
    <3>1. Offset = 0 /\ Whole(reader[r]) /\ reader[r].stored = published
      BY <1>9 DEF Inv, Complete
    <3>2. base = published
      BY <1>1, <3>1 DEF Offset, base
    <3>3. \A i \in DOMAIN es : es[i].id = base + i /\ es[i].n = es[i].id
      BY <1>5, <1>6, <3>1, <1>4, <1>2 DEF Event
    <3>4. Len(es) > 0 => base <= reader[r].stored
      BY <1>1, <3>1, <3>2
    <3>5. /\ Whole(rec)
          /\ rec.stored = IF Len(es) > 0 /\ base + Len(es) > reader[r].stored
                            THEN base + Len(es) ELSE reader[r].stored
      BY <1>0, <1>4, <1>6, <3>1, <3>3, <3>4, StoreWhole
    <3> QED
      BY <1>1, <1>6, <3>1, <3>2, <3>5
  <2>6. reader'[r] = [rec EXCEPT !.open = ~end, !.late = rec.late, !.excused = rec.excused]
    <3>1. reader'[r] = [rec EXCEPT !.open = ~end]
      BY <1>3, <1>9
    <3> HIDE DEF rec
    <3> QED
      BY <2>4, <3>1 DEF Reader
  <2>7. rec.late \in BOOLEAN /\ rec.excused \in BOOLEAN
    BY <2>4 DEF Reader
  <2> DEFINE closed == ~end
  <2>8. closed \in BOOLEAN
    OBVIOUS
  <2>9. reader'[r] = [rec EXCEPT !.open = closed, !.late = rec.late, !.excused = rec.excused]
    BY <2>6
  <2> HIDE DEF rec, closed
  <2>10. /\ reader'[r] \in Reader
         /\ reader'[r].open = closed /\ reader'[r].late = rec.late /\ reader'[r].excused = rec.excused
         /\ reader'[r].text = rec.text /\ reader'[r].stored = rec.stored
    BY <2>4, <2>7, <2>8, <2>9 DEF Reader
  <2>11. Follows(reader'[r], Offset)
    BY <2>1, <2>10 DEF Follows
  <2>12. Whole(rec) => Whole(reader'[r])
    BY <2>10 DEF Whole
  <2> QED
    BY <1>9, <2>4, <2>5, <2>10, <2>11, <2>12 DEF closed
<1> QED
  BY <1>8, <1>9

\* publish: the event is the next one, its number and its place go on.
LEMMA PublishInv ==
  ASSUME Inv, NEW end \in BOOLEAN, Publish(end)
  PROVE  Inv'
<1> DEFINE e == [id |-> nextId, n |-> published + 1, end |-> end]
           len == Len(history)
           later == Len(history')
<1>1. /\ nextId \in Nat \ {0} /\ published \in Nat /\ MaxPublished \in Nat
      /\ nextId <= published + 1 /\ published < MaxPublished
      /\ history \in Seq(Event) /\ len \in Nat /\ len < nextId /\ len <= MaxEventsPerTask
      /\ DOMAIN history = 1 .. len
      /\ MaxEventsPerTask \in Nat \ {0} /\ Retention \in Nat \ {0}
  BY BoundAssumption, CapAssumption, RetainAssumption DEF Inv, TypeOK, Numbered, Publish
<1>2. /\ nextId' = nextId + 1 /\ published' = published + 1
      /\ listeners' = IF end THEN {} ELSE listeners
      /\ cleanup' = IF end THEN Retention ELSE cleanup
      /\ sinceEnd' = IF end THEN 0 ELSE sinceEnd
      /\ restarts' = restarts
      /\ reader' = [r \in Readers |-> reader'[r]]
  BY DEF Publish
<1>3. e.id = nextId /\ e.n = published + 1 /\ e.end = end
  OBVIOUS
<1>4. /\ e \in Event
      /\ history' \in Seq(Event)
      /\ later = IF len + 1 > MaxEventsPerTask THEN MaxEventsPerTask ELSE len + 1
      /\ \A i \in 1 .. later : history'[i] = Append(history, e)[len + 1 - later + i]
  BY PublishHistory
<1> HIDE DEF e
<1>5. /\ \A i \in 1 .. len : Append(history, e)[i] = history[i]
      /\ Append(history, e)[len + 1] = e
  BY <1>1, <1>4
<1>6. later \in 1 .. len + 1 /\ later <= MaxEventsPerTask /\ DOMAIN history' = 1 .. later
  BY <1>1, <1>4
<1> HIDE DEF len, later
<1>7. Offset' = Offset /\ Offset \in Nat
  BY <1>1, <1>2 DEF Offset
<1>8. TypeOK'
  <2>1. reader' \in [Readers -> Reader]
    <3>1. \A r \in Readers : reader'[r] \in Reader
      BY PublishReader
    <3> QED
      BY <1>2, <3>1
  <2>2. nextId' \in 1 .. MaxPublished + 1 /\ published' \in 0 .. MaxPublished
    BY <1>1, <1>2
  <2>3. /\ cleanup' \in {Off} \cup 0 .. Retention /\ sinceEnd' \in 0 .. Retention
        /\ restarts' \in 0 .. MaxRestarts
    BY <1>1, <1>2 DEF Inv, TypeOK
  <2>4. listeners' \in SUBSET Readers
    BY <1>2 DEF Inv, TypeOK
  <2>5. history' \in Seq(Event) /\ Len(history') <= MaxEventsPerTask
    BY <1>4, <1>6 DEF later
  <2> QED
    BY <2>1, <2>2, <2>3, <2>4, <2>5 DEF TypeOK
<1>9. Numbered'
  <2>1. ASSUME NEW i \in DOMAIN history'
        PROVE  /\ history'[i].id = nextId' - 1 - later + i
               /\ history'[i].n = history'[i].id + Offset'
    <3> DEFINE j == len + 1 - later + i
    <3>1. i \in 1 .. later /\ j \in 1 .. len + 1
      BY <1>1, <1>6
    <3>2. history'[i] = Append(history, e)[j]
      BY <1>4, <3>1
    <3>3. CASE j = len + 1
      <4>1. history'[i] = e /\ i = later
        BY <1>1, <1>5, <1>6, <3>1, <3>2, <3>3
      <4> QED
        BY <1>1, <1>2, <1>3, <1>6, <1>7, <4>1 DEF Offset
    <3>4. CASE j # len + 1
      <4>1. j \in 1 .. len
        BY <1>1, <3>1, <3>4
      <4>2. history'[i] = history[j]
        BY <1>5, <3>2, <4>1
      <4>3. history[j].id = nextId - 1 - len + j /\ history[j].n = history[j].id + Offset
        BY <1>1, <4>1 DEF Inv, Numbered, len
      <4>4. nextId - 1 - len + j = nextId' - 1 - later + i
        BY <1>1, <1>2, <1>6, <3>1, SMTT(20)
      <4> QED
        BY <1>7, <4>2, <4>3, <4>4
    <3> QED
      BY <3>3, <3>4
  <2>2. nextId' <= published' + 1 /\ later < nextId' /\ history' # << >>
    BY <1>1, <1>2, <1>4, <1>6 DEF later
  <2> QED
    BY <2>1, <2>2 DEF Numbered, later
<1>10. Texts'
  BY <1>7, PublishReader DEF Texts
<1>11. Complete'
  <2> SUFFICES ASSUME NEW r \in Readers, ~reader'[r].excused
               PROVE  /\ Offset' = 0 /\ Whole(reader'[r])
                      /\ reader'[r].stored <= published'
                      /\ r \in listeners' => reader'[r].stored = published'
    BY DEF Complete, Whole
  <2>1. ~reader[r].excused /\ Whole(reader'[r])
    BY PublishReader
  <2>2. /\ Offset = 0 /\ reader[r].stored <= published
        /\ r \in listeners => reader'[r].stored = published + 1
        /\ r \notin listeners => reader'[r] = reader[r]
    BY <2>1, PublishReader DEF Inv, Complete
  <2>3. reader[r].stored \in Nat
    <3>1. reader[r] \in Reader
      BY DEF Inv, TypeOK
    <3> QED
      BY <1>1, <3>1 DEF Reader
  <2>4. reader'[r].stored <= published'
    BY <1>1, <1>2, <2>2, <2>3
  <2>5. r \in listeners' => r \in listeners
    BY <1>2
  <2> QED
    BY <1>2, <1>7, <2>1, <2>2, <2>4, <2>5
<1>12. OpenEarly'
  <2> SUFFICES ASSUME NEW r \in Readers
               PROVE  /\ reader'[r].open /\ ~reader'[r].late => r \in listeners' /\ cleanup' = Off
                      /\ r \in listeners' => reader'[r].open
    BY DEF OpenEarly
  <2>1. CASE r \notin listeners
    <3>1. reader'[r] = reader[r] /\ r \notin listeners'
      BY <1>2, <2>1, PublishReader
    <3> QED
      BY <2>1, <3>1 DEF Inv, OpenEarly
  <2>2. CASE r \in listeners
    <3>1. reader[r].open /\ reader'[r].open = ~end /\ reader'[r].late = reader[r].late
      BY <2>2, PublishReader DEF Inv, OpenEarly
    <3>2. CASE end
      BY <1>2, <3>1, <3>2
    <3>3. CASE ~end
      BY <1>2, <2>2, <3>1, <3>3 DEF Inv, OpenEarly
    <3> QED
      BY <3>2, <3>3
  <2> QED
    BY <2>1, <2>2
<1>13. Retained'
  <2> SUFFICES ASSUME sinceEnd' < Retention
               PROVE  /\ cleanup' = Retention - sinceEnd'
                      /\ HasEnd(history') \/ Len(history') = MaxEventsPerTask
    BY DEF Retained, HasEnd
  <2>1. history'[later] = e /\ later \in DOMAIN history'
    <3>1. later \in 1 .. later /\ len + 1 - later + later = len + 1
      BY <1>1, <1>6
    <3> QED
      BY <1>4, <1>5, <1>6, <3>1
  <2>2. CASE end
    <3>1. HasEnd(history')
      BY <1>3, <2>1, <2>2 DEF HasEnd
    <3> QED
      BY <1>1, <1>2, <2>2, <3>1
  <2>3. CASE ~end
    <3>1. /\ cleanup = Retention - sinceEnd
          /\ HasEnd(history) \/ len = MaxEventsPerTask
      BY <1>2, <2>3 DEF Inv, Retained, len
    <3>2. CASE len + 1 > MaxEventsPerTask
      BY <1>2, <1>4, <2>3, <3>1, <3>2 DEF later
    <3>3. CASE ~(len + 1 > MaxEventsPerTask)
      <4>1. PICK i \in 1 .. len : history[i].end
        BY <1>1, <3>1, <3>3 DEF HasEnd
      <4>2. later = len + 1
        BY <1>4, <3>3
      <4>3. i \in 1 .. later /\ len + 1 - later + i = i
        BY <1>1, <4>2
      <4>4. history'[i] = history[i]
        BY <1>4, <1>5, <4>3
      <4> QED
        BY <1>2, <1>6, <2>3, <3>1, <4>1, <4>3, <4>4 DEF HasEnd
    <3> QED
      BY <3>2, <3>3
  <2> QED
    BY <2>2, <2>3
<1> QED
  BY <1>8, <1>9, <1>10, <1>11, <1>12, <1>13 DEF Inv

\* What a replay is: the numbered rest of the history.
LEMMA ReplayShape ==
  ASSUME Inv, NEW r \in Readers
  PROVE  \E k \in 0 .. Len(history) :
           /\ Replay(reader[r].stored) \in Seq(Event)
           /\ Len(Replay(reader[r].stored)) = Len(history) - k
           /\ \A j \in DOMAIN Replay(reader[r].stored) :
                /\ Replay(reader[r].stored)[j].id = nextId - 1 - Len(history) + k + j
                /\ Replay(reader[r].stored)[j].n = Replay(reader[r].stored)[j].id + Offset
           /\ k > 0 => nextId - 1 - Len(history) + k <= reader[r].stored
           /\ k < Len(history) => reader[r].stored < nextId - Len(history) + k
<1> DEFINE id == reader[r].stored
           base == nextId - 1 - Len(history)
           replay == After(history, id)
<1>1. /\ nextId \in Nat /\ history \in Seq(Event) /\ Len(history) \in Nat
      /\ DOMAIN history = 1 .. Len(history)
      /\ id \in Nat /\ base \in Int
  <2>1. reader[r] \in Reader /\ MaxPublished \in Nat /\ history \in Seq(Event) /\ nextId \in 1 .. MaxPublished + 1
    BY BoundAssumption DEF Inv, TypeOK
  <2> QED
    BY <2>1 DEF Reader
<1>2. \A i \in DOMAIN history : history[i].id = base + i /\ history[i].n = history[i].id + Offset
  BY DEF Inv, Numbered
<1>3. Replay(reader[r].stored) = replay
  BY DEF Replay
<1> HIDE DEF id, base
<1>4. \A i \in DOMAIN history : history[i].id = base + i
  BY <1>2
<1>5. /\ replay \in Seq(Event)
      /\ \E k \in 0 .. Len(history) :
           /\ \A i \in DOMAIN history : history[i].id <= id <=> i <= k
           /\ Len(replay) = Len(history) - k
           /\ \A j \in 1 .. Len(history) - k : replay[j] = history[k + j]
  BY <1>1, <1>4, AfterIsSuffix
<1> HIDE DEF replay
<1>6. PICK k \in 0 .. Len(history) :
        /\ \A i \in DOMAIN history : history[i].id <= id <=> i <= k
        /\ Len(replay) = Len(history) - k
        /\ \A j \in 1 .. Len(history) - k : replay[j] = history[k + j]
  BY <1>5
<1>7. k \in Nat /\ DOMAIN replay = 1 .. Len(replay)
  BY <1>1, <1>5
<1>8. ASSUME NEW j \in DOMAIN replay
      PROVE  replay[j].id = base + k + j /\ replay[j].n = replay[j].id + Offset
  <2>1. j \in 1 .. Len(history) - k /\ k + j \in DOMAIN history
    BY <1>1, <1>6, <1>7
  <2>2. history[k + j].id = base + (k + j)
    BY <1>4, <2>1
  <2>3. history[k + j].n = history[k + j].id + Offset
    BY <1>2, <2>1
  <2>4. base + (k + j) = base + k + j
    BY <1>1, <1>7, <2>1
  <2> QED
    BY <1>6, <2>1, <2>2, <2>3, <2>4
<1>9. k > 0 => base + k <= id
  <2> SUFFICES ASSUME k > 0 PROVE base + k <= id
    OBVIOUS
  <2>1. k \in DOMAIN history
    BY <1>1, <1>7
  <2>2. history[k].id <= id
    BY <1>6, <1>7, <2>1
  <2> QED
    BY <1>4, <2>1, <2>2
<1>10. k < Len(history) => id < base + k + 1
  <2> SUFFICES ASSUME k < Len(history) PROVE id < base + k + 1
    OBVIOUS
  <2>1. k + 1 \in DOMAIN history /\ ~(k + 1 <= k)
    BY <1>1, <1>7
  <2>2. ~(history[k + 1].id <= id)
    BY <1>6, <2>1
  <2>3. history[k + 1].id = base + (k + 1)
    BY <1>4, <2>1
  <2> QED
    BY <1>1, <1>7, <2>2, <2>3
<1>11. base + k + 1 = nextId - Len(history) + k
  BY <1>1, <1>7 DEF base
<1>12. /\ replay \in Seq(Event) /\ Len(replay) = Len(history) - k
       /\ \A j \in DOMAIN replay :
            replay[j].id = nextId - 1 - Len(history) + k + j /\ replay[j].n = replay[j].id + Offset
       /\ k > 0 => nextId - 1 - Len(history) + k <= reader[r].stored
       /\ k < Len(history) => reader[r].stored < nextId - Len(history) + k
  BY <1>5, <1>6, <1>8, <1>9, <1>10, <1>11 DEF base, id
<1> QED
  BY <1>3, <1>12

\* What opening its stream makes of a relay.
LEMMA OpenReader ==
  ASSUME Inv, NEW r \in Readers, OpenStream(r)
  PROVE  /\ reader'[r] \in Reader
         /\ reader'[r].open => r \in listeners'
         /\ r \in listeners' => reader'[r].open
         /\ ~reader'[r].late => cleanup = Off
         /\ Follows(reader'[r], Offset)
         /\ ~reader'[r].excused =>
              /\ Offset = 0
              /\ Whole(reader'[r])
              /\ reader'[r].stored = published
<1> DEFINE replay == Replay(reader[r].stored)
           ended == replay # <<>> /\ Last(replay).end
           rec == Store(r, replay)
           missing == Missing(r)
           open == ~ended
           late == cleanup # Off
           excused == rec.excused \/ missing
<1>0. TypeOK /\ Follows(reader[r], Offset)
  BY DEF Inv, Texts
<1>1. /\ nextId \in Nat \ {0} /\ published \in Nat /\ MaxPublished \in Nat
      /\ history \in Seq(Event) /\ Len(history) \in Nat
      /\ reader[r] \in Reader /\ reader \in [Readers -> Reader]
  BY <1>0, BoundAssumption DEF TypeOK
<1>2. reader[r].stored \in Nat
  BY <1>1 DEF Reader
<1>3. PICK k \in 0 .. Len(history) :
        /\ replay \in Seq(Event)
        /\ Len(replay) = Len(history) - k
        /\ \A j \in DOMAIN replay :
             /\ replay[j].id = nextId - 1 - Len(history) + k + j
             /\ replay[j].n = replay[j].id + Offset
        /\ k > 0 => nextId - 1 - Len(history) + k <= reader[r].stored
        /\ k < Len(history) => reader[r].stored < nextId - Len(history) + k
  BY ReplayShape
<1>4. reader' = [reader EXCEPT ![r] = [rec EXCEPT !.open = open, !.late = late, !.excused = excused]]
  BY DEF OpenStream
<1>5. listeners' = IF ended THEN listeners ELSE listeners \cup {r}
  BY DEF OpenStream
<1>6. ~reader[r].open
  BY DEF OpenStream
<1> HIDE DEF replay, ended, missing
<1> DEFINE base == nextId - 1 - Len(history) + k
<1>7. base \in Int /\ Offset \in Int
  BY <1>1 DEF Offset
<1>8. \A j \in DOMAIN replay : replay[j].id = base + j /\ replay[j].n = replay[j].id + Offset
  BY <1>3
<1> HIDE DEF base
<1>9. Follows(rec, Offset)
  BY <1>0, <1>3, <1>7, <1>8, StoreFollows
<1>10. After(replay, reader[r].stored) \in Seq(Event)
  <2>1. \A j \in DOMAIN replay : replay[j].id = base + j
    BY <1>8
  <2> QED
    BY <1>2, <1>3, <1>7, <2>1, AfterIsSuffix
<1>11. rec \in Reader /\ rec.excused = reader[r].excused
  BY <1>0, <1>10, StoreShape DEF Appended
<1>12. ~reader[r].excused /\ ~missing => /\ Offset = 0 /\ Whole(rec) /\ rec.stored = published
  <2> SUFFICES ASSUME ~reader[r].excused, ~missing
               PROVE  Offset = 0 /\ Whole(rec) /\ rec.stored = published
    OBVIOUS
  <2>1. Offset = 0 /\ Whole(reader[r])
    BY DEF Inv, Complete
  <2>2. published = nextId - 1
    BY <1>1, <2>1 DEF Offset
  <2>3. /\ reader[r].stored < nextId
        /\ history = << >> => published = 0
        /\ history # << >> => history[1].id <= reader[r].stored + 1
    <3>1. /\ ~(nextId <= reader[r].stored)
          /\ ~(history = << >> /\ published > 0)
          /\ ~(history # << >> /\ Head(history).id > reader[r].stored + 1)
      BY DEF missing, Missing
    <3>2. history # << >> => Head(history) = history[1] /\ history[1].id \in Int
      <4>1. history # << >> => Head(history) = history[1] /\ history[1] \in Event
        BY <1>1
      <4> QED
        BY <1>1, <4>1 DEF Event
    <3> QED
      BY <1>1, <1>2, <3>1, <3>2
  <2>4. history # << >> => nextId - Len(history) <= reader[r].stored + 1
    <3> SUFFICES ASSUME history # << >> PROVE nextId - Len(history) <= reader[r].stored + 1
      OBVIOUS
    <3>1. 1 \in DOMAIN history
      BY <1>1
    <3>2. history[1].id = nextId - 1 - Len(history) + 1
      BY <3>1 DEF Inv, Numbered
    <3> QED
      BY <1>1, <2>3, <3>2
  <2>5. Len(replay) > 0 => base <= reader[r].stored
    <3> SUFFICES ASSUME Len(replay) > 0 PROVE base <= reader[r].stored
      OBVIOUS
    <3>1. history # << >>
      BY <1>1, <1>3
    <3> QED
      BY <1>1, <1>2, <1>3, <2>4, <3>1 DEF base
  <2>6. \A j \in DOMAIN replay : replay[j].id = base + j /\ replay[j].n = replay[j].id
    <3> SUFFICES ASSUME NEW j \in DOMAIN replay
                 PROVE  replay[j].id = base + j /\ replay[j].n = replay[j].id
      OBVIOUS
    <3>1. j \in Int
      BY <1>3
    <3> QED
      BY <1>7, <1>8, <2>1, <3>1
  <2>7. /\ Whole(rec)
        /\ rec.stored = IF Len(replay) > 0 /\ base + Len(replay) > reader[r].stored
                          THEN base + Len(replay) ELSE reader[r].stored
    BY <1>0, <1>3, <1>7, <2>1, <2>5, <2>6, StoreWhole
  <2> HIDE DEF rec
  <2>8. rec.stored = nextId - 1
    <3>1. CASE Len(replay) > 0
      <4>1. k < Len(history) /\ base + Len(replay) = nextId - 1
        BY <1>1, <1>3, <3>1 DEF base
      <4>2. reader[r].stored < nextId - Len(history) + k
        BY <1>3, <4>1
      <4>3. reader[r].stored < nextId
        BY <2>3
      <4> QED
        BY <1>1, <1>2, <2>7, <3>1, <4>1, <4>3
    <3>2. CASE ~(Len(replay) > 0)
      <4>1. k = Len(history) /\ rec.stored = reader[r].stored
        BY <1>1, <1>3, <2>7, <3>2
      <4>2. CASE history = << >>
        BY <1>1, <1>2, <2>2, <2>3, <4>1, <4>2
      <4>3. CASE history # << >>
        <5>1. Len(history) > 0
          BY <1>1, <4>3
        <5>2. nextId - 1 - Len(history) + k <= reader[r].stored
          BY <1>1, <1>3, <4>1, <5>1
        <5> QED
          BY <1>1, <1>2, <2>3, <4>1, <5>2
      <4> QED
        BY <4>2, <4>3
    <3> QED
      BY <3>1, <3>2
  <2> QED
    BY <2>1, <2>2, <2>7, <2>8
<1> HIDE DEF rec
<1>13. open \in BOOLEAN /\ late \in BOOLEAN /\ excused \in BOOLEAN
  OBVIOUS
<1>14. excused <=> (reader[r].excused \/ missing)
  BY <1>11
<1>15. (open <=> ~ended) /\ (late <=> cleanup # Off)
  OBVIOUS
<1> HIDE DEF open, late, excused
<1>16. /\ reader'[r] \in Reader
       /\ reader'[r].open = open /\ reader'[r].late = late /\ reader'[r].excused = excused
       /\ reader'[r].text = rec.text /\ reader'[r].stored = rec.stored
  <2>1. reader'[r] = [rec EXCEPT !.open = open, !.late = late, !.excused = excused]
    BY <1>1, <1>4
  <2> QED
    BY <1>11, <1>13, <2>1 DEF Reader
<1>17. Follows(reader'[r], Offset)
  BY <1>9, <1>16 DEF Follows
<1>18. Whole(rec) => Whole(reader'[r])
  BY <1>16 DEF Whole
<1>19. r \notin listeners
  BY <1>6 DEF Inv, OpenEarly
<1> QED
  BY <1>5, <1>12, <1>14, <1>15, <1>16, <1>17, <1>18, <1>19

\* Steps that leave the history and its numbers alone.
LEMMA HistoryUnchanged ==
  ASSUME Inv, UNCHANGED <<history, nextId, published>>
  PROVE  Numbered' /\ Offset' = Offset
BY DEF Inv, Numbered, Offset

\* events: the replay and the subscription are one step.
LEMMA OpenStreamInv ==
  ASSUME Inv, NEW r \in Readers, OpenStream(r)
  PROVE  Inv'
<1>1. /\ UNCHANGED <<history, nextId, cleanup, published, sinceEnd, restarts>>
      /\ listeners' \in {listeners, listeners \cup {r}}
      /\ reader' \in [Readers -> Reader]
      /\ \A x \in Readers \ {r} : reader'[x] = reader[x]
  <2> DEFINE rec == reader'[r]
  <2>1. \E new : reader' = [reader EXCEPT ![r] = new]
    BY DEF OpenStream
  <2>2. reader \in [Readers -> Reader] /\ reader'[r] \in Reader
    BY OpenReader DEF Inv, TypeOK
  <2> QED
    BY <2>1, <2>2 DEF OpenStream
<1>2. TypeOK'
  BY <1>1 DEF Inv, TypeOK
<1>3. Numbered' /\ Offset' = Offset
  BY <1>1, HistoryUnchanged
<1>4. Texts'
  <2>1. Follows(reader'[r], Offset)
    BY OpenReader
  <2> QED
    BY <1>1, <1>3, <2>1 DEF Inv, Texts
<1>5. Complete'
  <2> SUFFICES ASSUME NEW x \in Readers, ~reader'[x].excused
               PROVE  /\ Offset' = 0 /\ Whole(reader'[x])
                      /\ reader'[x].stored <= published'
                      /\ x \in listeners' => reader'[x].stored = published'
    BY DEF Complete, Whole
  <2>1. CASE x = r
    <3>1. Offset = 0 /\ Whole(reader'[r]) /\ reader'[r].stored = published
      BY <2>1, OpenReader
    <3>2. published \in Int
      BY BoundAssumption DEF Inv, TypeOK
    <3> QED
      BY <1>1, <1>3, <2>1, <3>1, <3>2
  <2>2. CASE x # r
    BY <1>1, <1>3, <2>2 DEF Inv, Complete
  <2> QED
    BY <2>1, <2>2
<1>6. OpenEarly'
  <2>1. /\ reader'[r].open /\ ~reader'[r].late => r \in listeners' /\ cleanup = Off
        /\ r \in listeners' => reader'[r].open
    BY OpenReader
  <2> QED
    BY <1>1, <2>1 DEF Inv, OpenEarly
<1>7. Retained'
  BY <1>1 DEF Inv, Retained, HasEnd
<1> QED
  BY <1>2, <1>3, <1>4, <1>5, <1>6, <1>7 DEF Inv

\* A closed stream is not subscribed.
LEMMA CloseStreamInv ==
  ASSUME Inv, NEW r \in Readers, CloseStream(r)
  PROVE  Inv'
<1>1. /\ UNCHANGED <<history, nextId, cleanup, published, sinceEnd, restarts>>
      /\ listeners' = listeners \ {r}
      /\ reader' = [reader EXCEPT ![r] = [reader[r] EXCEPT !.open = FALSE]]
  BY DEF CloseStream
<1>2. reader \in [Readers -> Reader] /\ reader[r] \in Reader
  BY DEF Inv, TypeOK
<1>3. /\ reader'[r] \in Reader /\ reader'[r].open = FALSE
      /\ reader'[r].late = reader[r].late /\ reader'[r].excused = reader[r].excused
      /\ reader'[r].text = reader[r].text /\ reader'[r].stored = reader[r].stored
      /\ \A x \in Readers \ {r} : reader'[x] = reader[x]
  BY <1>1, <1>2 DEF Reader
<1>4. TypeOK'
  BY <1>1, <1>2, <1>3 DEF Inv, TypeOK
<1>5. Numbered' /\ Offset' = Offset
  BY <1>1, HistoryUnchanged
<1>6. Texts'
  BY <1>3, <1>5 DEF Inv, Texts, Follows
<1>7. Complete'
  BY <1>1, <1>3, <1>5 DEF Inv, Complete, Whole
<1>8. OpenEarly'
  BY <1>1, <1>3 DEF Inv, OpenEarly
<1>9. Retained'
  BY <1>1 DEF Inv, Retained, HasEnd
<1> QED
  BY <1>4, <1>5, <1>6, <1>7, <1>8, <1>9 DEF Inv

\* What a reset makes of the relays.
Excused ==
  /\ reader' \in [Readers -> Reader]
  /\ \A r \in Readers :
       /\ reader'[r].excused
       /\ reader'[r].late = reader[r].late
       /\ reader'[r].text = reader[r].text /\ reader'[r].stored = reader[r].stored
       /\ reader'[r].open => reader[r].open /\ cleanup # Off

\* When the broker forgets, by its cleanup timer or in a restart, places run
\* further ahead of ids and every relay is excused.
LEMMA ForgetInv ==
  ASSUME Inv, Forget, UNCHANGED published, Excused,
         restarts' \in 0 .. MaxRestarts, sinceEnd' = Retention
  PROVE  Inv'
<1>2. /\ history' = << >> /\ nextId' = 1 /\ cleanup' = Off /\ listeners' = {}
      /\ nextId \in Nat /\ published \in Nat /\ nextId <= published + 1
      /\ MaxPublished \in Nat /\ Retention \in Nat /\ MaxEventsPerTask \in Nat
      /\ published <= MaxPublished
  <2>1. MaxPublished \in Nat /\ Retention \in Nat /\ MaxEventsPerTask \in Nat
    BY BoundAssumption, RetainAssumption, CapAssumption
  <2>2. history' = << >> /\ nextId' = 1 /\ cleanup' = Off /\ listeners' = {}
    BY DEF Forget
  <2>3. nextId \in 1 .. MaxPublished + 1 /\ published \in 0 .. MaxPublished /\ nextId <= published + 1
    BY DEF Inv, TypeOK, Numbered
  <2> QED
    BY <2>1, <2>2, <2>3
<1>3. ASSUME NEW r \in Readers
      PROVE  /\ reader'[r].excused
             /\ reader'[r].late = reader[r].late
             /\ reader'[r].text = reader[r].text /\ reader'[r].stored = reader[r].stored
             /\ reader'[r].open => reader[r].open /\ cleanup # Off
  BY DEF Excused
<1>4. TypeOK'
  <2>1. reader' \in [Readers -> Reader]
    BY DEF Excused
  <2> QED
    BY <1>2, <2>1 DEF TypeOK, Off
<1>5. Numbered'
  BY <1>2 DEF Numbered
<1>6. Offset \in Int /\ Offset' \in Int /\ Offset <= Offset'
  BY <1>2 DEF Inv, Numbered, Offset
<1>7. Texts'
  <2> SUFFICES ASSUME NEW r \in Readers PROVE Follows(reader'[r], Offset')
    BY DEF Texts
  <2>1. reader[r] \in Reader /\ Follows(reader[r], Offset)
    BY DEF Inv, Texts, TypeOK
  <2>2. Follows(reader[r], Offset')
    BY <1>6, <2>1, FollowsHigher
  <2>3. reader'[r].text = reader[r].text /\ reader'[r].stored = reader[r].stored
    BY <1>3
  <2> QED
    BY <2>2, <2>3 DEF Follows
<1>8. Complete'
  BY <1>3 DEF Complete
<1>9. OpenEarly'
  <2> SUFFICES ASSUME NEW r \in Readers, reader'[r].open, ~reader'[r].late PROVE FALSE
    BY <1>2 DEF OpenEarly
  <2>1. reader[r].open /\ ~reader[r].late /\ cleanup # Off
    BY <1>3
  <2> QED
    BY <2>1 DEF Inv, OpenEarly
<1>10. Retained'
  BY <1>2 DEF Retained
<1> QED
  BY <1>4, <1>5, <1>7, <1>8, <1>9, <1>10 DEF Inv

\* The cleanup timer fires: it has run for the retention since the last end.
LEMMA CleanupInv ==
  ASSUME Inv, CleanupFires
  PROVE  Inv'
<1>1. cleanup = 0 /\ sinceEnd \in 0 .. Retention /\ Retention \in Nat
  BY RetainAssumption DEF CleanupFires, Inv, TypeOK
<1>2. sinceEnd' = Retention /\ restarts' \in 0 .. MaxRestarts
  BY <1>1 DEF CleanupFires, Inv, TypeOK, Retained
<1>3. Excused
  <2>1. reader \in [Readers -> Reader]
    BY DEF Inv, TypeOK
  <2>2. reader' = [r \in Readers |-> [reader[r] EXCEPT !.excused = TRUE]]
    BY DEF CleanupFires
  <2> QED
    <3>1. reader' \in [Readers -> Reader]
      BY <2>1, <2>2 DEF Reader
    <3>2. \A r \in Readers :
            /\ reader'[r].excused
            /\ reader'[r].late = reader[r].late /\ reader'[r].open = reader[r].open
            /\ reader'[r].text = reader[r].text /\ reader'[r].stored = reader[r].stored
      BY <2>1, <2>2 DEF Reader
    <3>3. cleanup # Off
      BY <1>1 DEF Off
    <3> QED
      BY <3>1, <3>2, <3>3 DEF Excused
<1> QED
  BY <1>2, <1>3, ForgetInv DEF CleanupFires

\* The adapter restarts with an empty broker and no stream open.
LEMMA RestartInv ==
  ASSUME Inv, Restart
  PROVE  Inv'
<1>1. restarts' \in 0 .. MaxRestarts
  <2>1. restarts \in 0 .. MaxRestarts /\ MaxRestarts \in Nat
    BY BoundAssumption DEF Inv, TypeOK
  <2>2. restarts < MaxRestarts /\ restarts' = restarts + 1
    BY DEF Restart
  <2> QED
    BY <2>1, <2>2
<1>2. Excused
  <2>1. reader \in [Readers -> Reader]
    BY DEF Inv, TypeOK
  <2>2. reader' = [r \in Readers |-> [reader[r] EXCEPT !.open = FALSE, !.excused = TRUE]]
    BY DEF Restart
  <2> QED
    BY <2>1, <2>2 DEF Excused, Reader
<1> QED
  BY <1>1, <1>2, ForgetInv DEF Restart

\* Time passes for the timer and since the end alike.
LEMMA TickInv ==
  ASSUME Inv, Tick
  PROVE  Inv'
<1>1. /\ UNCHANGED <<history, nextId, listeners, reader, published, restarts>>
      /\ cleanup # 0
      /\ cleanup'  = IF cleanup = Off THEN Off ELSE cleanup - 1
      /\ sinceEnd' = IF sinceEnd < Retention THEN sinceEnd + 1 ELSE sinceEnd
      /\ Retention \in Nat /\ sinceEnd \in 0 .. Retention
      /\ cleanup \in {Off} \cup 0 .. Retention
  BY RetainAssumption DEF Tick, Inv, TypeOK
<1>2. TypeOK'
  BY <1>1 DEF Inv, TypeOK, Off
<1>3. Numbered' /\ Offset' = Offset
  BY <1>1, HistoryUnchanged
<1>4. Texts' /\ Complete'
  BY <1>1, <1>3 DEF Inv, Texts, Complete, Whole
<1>5. OpenEarly'
  BY <1>1 DEF Inv, OpenEarly
<1>6. Retained'
  BY <1>1 DEF Inv, Retained, HasEnd, Off
<1> QED
  BY <1>2, <1>3, <1>4, <1>5, <1>6 DEF Inv

\* Every step.
LEMMA NextInv == Inv /\ [Next]_vars => Inv'
<1> SUFFICES ASSUME Inv, [Next]_vars PROVE Inv'
  OBVIOUS
<1>1. ASSUME NEW end \in BOOLEAN, Publish(end) PROVE Inv'
  BY <1>1, PublishInv
<1>2. ASSUME NEW r \in Readers, OpenStream(r) PROVE Inv'
  BY <1>2, OpenStreamInv
<1>3. ASSUME NEW r \in Readers, CloseStream(r) PROVE Inv'
  BY <1>3, CloseStreamInv
<1>4. CASE CleanupFires
  BY <1>4, CleanupInv
<1>5. CASE Tick
  BY <1>5, TickInv
<1>6. CASE Restart
  BY <1>6, RestartInv
<1>7. CASE UNCHANGED vars
  BY <1>7 DEF vars, brokerVars, Inv, TypeOK, Numbered, Texts, Complete, OpenEarly, Retained,
              Offset, HasEnd, Whole
<1> QED
  BY <1>1, <1>2, <1>3, <1>4, <1>5, <1>6, <1>7 DEF Next

\* The invariant holds in every state of every behaviour.
LEMMA AlwaysInv == Spec => []Inv
<1> QED
  BY InitInv, NextInv, PTL DEF Spec

-----------------------------------------------------------------------------
(* The promise of EventFeed.                                               *)

\* The first n of a list.
LEMMA FirstOf ==
  ASSUME NEW S, NEW s \in Seq(S), NEW n \in 0 .. Len(s)
  PROVE  /\ SubSeq(s, 1, n) \in Seq(S)
         /\ Len(SubSeq(s, 1, n)) = n
         /\ \A i \in 1 .. n : SubSeq(s, 1, n)[i] = s[i]
<1>1. Len(s) \in Nat /\ n \in Nat
  OBVIOUS
<1>2. \A i \in 1 .. n : s[i] \in S
  BY <1>1
<1>3. /\ SubSeq(s, 1, n) \in Seq(S)
      /\ Len(SubSeq(s, 1, n)) = IF 1 <= n THEN n - 1 + 1 ELSE 0
      /\ \A i \in 1 .. n - 1 + 1 : SubSeq(s, 1, n)[i] = s[1 + i - 1]
  BY <1>1, <1>2, SubSeqProperties
<1>4. n - 1 + 1 = n /\ \A i \in 1 .. n : 1 + i - 1 = i
  BY <1>1
<1>5. \A i \in 1 .. n : SubSeq(s, 1, n)[i] = s[i]
  BY <1>3, <1>4
<1> QED
  BY <1>1, <1>3, <1>4, <1>5

\* A list begins with another when it has its elements first.
LEMMA PrefixOf ==
  ASSUME NEW S, NEW s \in Seq(S), NEW t \in Seq(S), Len(s) <= Len(t),
         \A i \in 1 .. Len(s) : t[i] = s[i]
  PROVE  IsPrefix(s, t)
<1> DEFINE n == Len(s)
           fs == SubSeq(s, 1, n)
           ft == SubSeq(t, 1, n)
<1>1. n \in 0 .. Len(s) /\ n \in 0 .. Len(t)
  OBVIOUS
<1> HIDE DEF n
<1>2. fs \in Seq(S) /\ Len(fs) = n /\ \A i \in 1 .. n : fs[i] = s[i]
  BY <1>1, FirstOf
<1>3. ft \in Seq(S) /\ Len(ft) = n /\ \A i \in 1 .. n : ft[i] = t[i]
  BY <1>1, FirstOf
<1> HIDE DEF fs, ft
<1>4. fs = ft
  BY <1>2, <1>3, SeqEqual DEF n
<1> QED
  BY <1>4 DEF IsPrefix, fs, ft, n

\* A relay that stores nothing keeps its text, and one that stores an event
\* appends it.
LEMMA AppendedText ==
  ASSUME NEW after, NEW rd \in Reader, NEW new \in Seq(Event), Appended(after, rd, new)
  PROVE  /\ Len(new) = 0 => after.text = rd.text
         /\ Len(new) = 1 => after.text = Append(rd.text, new[1].n)
         /\ IsPrefix(rd.text, after.text)
         /\ Len(after.text) = Len(rd.text) + Len(new)
<1> DEFINE s == rd.text
           t == after.text
<1>1. MaxPublished \in Nat
  BY BoundAssumption
<1>2. /\ s \in Seq(1 .. MaxPublished) /\ t \in Seq(1 .. MaxPublished)
      /\ Len(s) \in Nat /\ Len(t) \in Nat /\ Len(new) \in Nat
  <2>1. after \in Reader
    BY DEF Appended
  <2>2. s \in Seq(1 .. MaxPublished) /\ t \in Seq(1 .. MaxPublished)
    BY <2>1 DEF Reader
  <2> QED
    BY <2>2
<1>3. /\ Len(t) = Len(s) + Len(new)
      /\ \A i \in 1 .. Len(s) : t[i] = s[i]
      /\ \A j \in 1 .. Len(new) : t[Len(s) + j] = new[j].n
  BY DEF Appended
<1>4. \A i \in 1 .. Len(new) : new[i].n \in 1 .. MaxPublished
  <2>1. \A i \in 1 .. Len(new) : new[i] \in Event
    OBVIOUS
  <2> QED
    BY <2>1 DEF Event
<1> HIDE DEF s, t
<1>5. Len(new) = 0 => t = s
  BY <1>2, <1>3, SeqEqual
<1>6. Len(new) = 1 => t = Append(s, new[1].n)
  <2> SUFFICES ASSUME Len(new) = 1 PROVE t = Append(s, new[1].n)
    OBVIOUS
  <2> DEFINE n == new[1].n
  <2>1. n \in 1 .. MaxPublished /\ t[Len(s) + 1] = n
    BY <1>3, <1>4
  <2> HIDE DEF n
  <2>2. /\ Append(s, n) \in Seq(1 .. MaxPublished) /\ Len(Append(s, n)) = Len(s) + 1
        /\ \A i \in 1 .. Len(s) : Append(s, n)[i] = s[i]
        /\ Append(s, n)[Len(s) + 1] = n
    BY <1>2, <2>1
  <2>3. \A i \in 1 .. Len(t) : t[i] = Append(s, n)[i]
    BY <1>2, <1>3, <2>1, <2>2
  <2>4. t = Append(s, n)
    BY <1>2, <1>3, <2>2, <2>3, SeqEqual
  <2> QED
    BY <2>4 DEF n
<1>7. IsPrefix(s, t)
  <2>1. Len(s) <= Len(t)
    BY <1>2, <1>3
  <2> QED
    BY <1>2, <1>3, <2>1, PrefixOf
<1> QED
  BY <1>3, <1>5, <1>6, <1>7 DEF s, t

\* A subscribed relay hears what is published, unless a reset left its position
\* ahead of the ids; no other relay does.
LEMMA PublishText ==
  ASSUME Inv, NEW end \in BOOLEAN, Publish(end), NEW r \in Readers
  PROVE  \/ r \in listeners /\ reader'[r].text = Append(reader[r].text, published + 1)
         \/ /\ r \notin listeners \/ reader[r].excused
            /\ reader'[r].text = reader[r].text
<1> DEFINE e == [id |-> nextId, n |-> published + 1, end |-> end]
           es == <<e>>
           base == nextId - 1
           new == After(es, reader[r].stored)
           rec == Store(r, es)
<1>0. TypeOK
  BY DEF Inv
<1>1. nextId \in Nat /\ published \in Nat /\ reader[r] \in Reader /\ reader[r].stored \in Nat
  <2>1. reader[r] \in Reader /\ nextId \in 1 .. MaxPublished + 1 /\ published \in 0 .. MaxPublished
    BY <1>0 DEF TypeOK
  <2> QED
    BY <2>1, BoundAssumption DEF Reader
<1>2. e \in Event /\ e.id = base + 1 /\ e.n = published + 1
  BY <1>1, PublishHistory
<1>3. CASE r \notin listeners
  BY <1>3, PublishReader
<1>4. CASE r \in listeners
  <2>1. reader'[r] = [rec EXCEPT !.open = ~end]
    BY <1>4 DEF Publish
  <2> HIDE DEF e
  <2>2. es \in Seq(Event) /\ Len(es) = 1 /\ DOMAIN es = {1} /\ es[1] = e
    BY <1>2
  <2> HIDE DEF es
  <2>3. base \in Int /\ \A i \in DOMAIN es : es[i].id = base + i
    BY <1>1, <1>2, <2>2
  <2> HIDE DEF base
  <2>4. /\ new \in Seq(Event)
        /\ \E k \in 0 .. Len(es) :
             /\ Len(new) = Len(es) - k
             /\ \A j \in 1 .. Len(es) - k : new[j] = es[k + j]
    BY <1>1, <2>2, <2>3, AfterIsSuffix
  <2>5. Appended(rec, reader[r], new)
    BY <1>0, <2>4, StoreShape
  <2> HIDE DEF new, rec
  <2>6. PICK k \in {0, 1} : Len(new) = 1 - k /\ \A j \in 1 .. 1 - k : new[j] = es[k + j]
    BY <2>2, <2>4
  <2>7. /\ Len(new) = 0 => rec.text = reader[r].text
        /\ Len(new) = 1 => rec.text = Append(reader[r].text, new[1].n)
        /\ Len(rec.text) = Len(reader[r].text) + Len(new)
    BY <1>1, <2>4, <2>5, AppendedText
  <2>8. reader'[r].text = rec.text
    <3>1. rec \in Reader
      BY <2>5 DEF Appended
    <3> QED
      BY <2>1, <3>1 DEF Reader
  <2>9. CASE k = 0
    <3>1. Len(new) = 1 /\ new[1] = es[1]
      BY <2>6, <2>9
    <3> QED
      BY <1>2, <1>4, <2>2, <2>7, <2>8, <3>1
  <2>10. CASE k = 1
    <3>1. Len(new) = 0 /\ rec.text = reader[r].text
      BY <2>6, <2>7, <2>10
    <3>2. reader[r].excused
      <4> SUFFICES ASSUME ~reader[r].excused PROVE FALSE
        OBVIOUS
      <4>1. Whole(reader'[r]) /\ reader'[r].stored = published + 1
        BY <1>4, PublishReader
      <4>2. Whole(reader[r]) /\ reader[r].stored = published
        BY <1>4 DEF Inv, Complete
      <4> QED
        BY <1>1, <2>8, <3>1, <4>1, <4>2 DEF Whole
    <3> QED
      BY <2>8, <3>1, <3>2
  <2> QED
    BY <2>6, <2>9, <2>10
<1> QED
  BY <1>3, <1>4

\* What a relay stores of a replay is all of it, and it ends as the history does.
LEMMA ReplayNews ==
  ASSUME Inv, NEW r \in Readers,
         NEW replay, replay = Replay(reader[r].stored),
         NEW new, new = After(replay, reader[r].stored)
  PROVE  /\ replay \in Seq(Event) /\ new \in Seq(Event)
         /\ Len(new) = Len(replay)
         /\ \A j \in 1 .. Len(new) : new[j].n \in 1 .. published
         /\ Len(replay) > 0 => Len(history) > 0 /\ replay[Len(replay)] = history[Len(history)]
<1> DEFINE id == reader[r].stored
           base == nextId - 1 - Len(history)
<1>1. /\ nextId \in Nat /\ published \in Nat
      /\ history \in Seq(Event) /\ Len(history) \in Nat
      /\ DOMAIN history = 1 .. Len(history)
      /\ id \in Nat /\ base \in Int
  <2>1. /\ reader[r] \in Reader /\ MaxPublished \in Nat /\ history \in Seq(Event)
        /\ nextId \in 1 .. MaxPublished + 1 /\ published \in 0 .. MaxPublished
    BY BoundAssumption DEF Inv, TypeOK
  <2> QED
    BY <2>1 DEF Reader
<1>2. \A i \in DOMAIN history : history[i].id = base + i /\ history[i].n = history[i].id + Offset
  BY DEF Inv, Numbered
<1>3. replay = After(history, id) /\ new = After(replay, id)
  BY DEF Replay
<1>4. base + Len(history) + Offset = published
  BY <1>1 DEF Offset
<1> HIDE DEF id, base
<1>5. \A i \in DOMAIN history : history[i].id = base + i
  BY <1>2
<1>6. /\ replay \in Seq(Event)
      /\ \E k \in 0 .. Len(history) :
           /\ \A i \in DOMAIN history : history[i].id <= id <=> i <= k
           /\ Len(replay) = Len(history) - k
           /\ \A j \in 1 .. Len(history) - k : replay[j] = history[k + j]
  <2>1. /\ After(history, id) \in Seq(Event)
        /\ \E k \in 0 .. Len(history) :
             /\ \A i \in DOMAIN history : history[i].id <= id <=> i <= k
             /\ Len(After(history, id)) = Len(history) - k
             /\ \A j \in 1 .. Len(history) - k : After(history, id)[j] = history[k + j]
    BY <1>1, <1>5, AfterIsSuffix
  <2> QED
    BY <1>3, <2>1
<1>7. PICK k \in 0 .. Len(history) :
        /\ \A i \in DOMAIN history : history[i].id <= id <=> i <= k
        /\ Len(replay) = Len(history) - k
        /\ \A j \in 1 .. Len(history) - k : replay[j] = history[k + j]
  BY <1>6
<1>8. k \in Nat /\ Len(replay) \in Nat /\ DOMAIN replay = 1 .. Len(replay) /\ base + k \in Int
  BY <1>1, <1>6
<1>9. \A j \in DOMAIN replay : /\ replay[j].id = (base + k) + j /\ replay[j].n = replay[j].id + Offset
                               /\ ~(replay[j].id <= id)
  <2> SUFFICES ASSUME NEW j \in DOMAIN replay
               PROVE  /\ replay[j].id = (base + k) + j /\ replay[j].n = replay[j].id + Offset
                      /\ ~(replay[j].id <= id)
    OBVIOUS
  <2>1. j \in 1 .. Len(history) - k /\ k + j \in DOMAIN history /\ ~(k + j <= k)
    BY <1>1, <1>7, <1>8
  <2>2. /\ history[k + j].id = base + (k + j) /\ history[k + j].n = history[k + j].id + Offset
        /\ ~(history[k + j].id <= id)
    BY <1>2, <1>7, <2>1
  <2>3. base + (k + j) = (base + k) + j
    BY <1>1, <1>8, <2>1
  <2> QED
    BY <1>7, <2>1, <2>2, <2>3
<1>10. \A j \in DOMAIN replay : replay[j].id = (base + k) + j
  BY <1>9
<1> DEFINE from == base + k
<1>11. from \in Int /\ \A j \in DOMAIN replay : replay[j].id = from + j
  BY <1>8, <1>10
<1> HIDE DEF from
<1>12. /\ new \in Seq(Event)
       /\ \E m \in 0 .. Len(replay) :
            /\ \A i \in DOMAIN replay : replay[i].id <= id <=> i <= m
            /\ Len(new) = Len(replay) - m
            /\ \A j \in 1 .. Len(replay) - m : new[j] = replay[m + j]
  <2>1. /\ After(replay, id) \in Seq(Event)
        /\ \E m \in 0 .. Len(replay) :
             /\ \A i \in DOMAIN replay : replay[i].id <= id <=> i <= m
             /\ Len(After(replay, id)) = Len(replay) - m
             /\ \A j \in 1 .. Len(replay) - m : After(replay, id)[j] = replay[m + j]
    <3>1. replay \in Seq(Event)
      BY <1>6
    <3> QED
      BY <1>1, <1>11, <3>1, AfterIsSuffix
  <2> QED
    BY <1>3, <2>1
<1>13. PICK m \in 0 .. Len(replay) :
            /\ \A i \in DOMAIN replay : replay[i].id <= id <=> i <= m
            /\ Len(new) = Len(replay) - m
            /\ \A j \in 1 .. Len(replay) - m : new[j] = replay[m + j]
  BY <1>12
<1>14. m = 0
  <2>1. m > 0 => m \in DOMAIN replay /\ m <= m
    BY <1>8
  <2> QED
    BY <1>8, <1>9, <1>13, <2>1
<1>15. Len(new) = Len(replay) /\ \A j \in 1 .. Len(new) : new[j] = replay[j]
  <2>1. \A j \in 1 .. Len(replay) : m + j = j
    BY <1>8, <1>14
  <2> QED
    BY <1>8, <1>13, <1>14, <2>1
<1>16. \A j \in 1 .. Len(new) : new[j].n \in 1 .. published
  <2> SUFFICES ASSUME NEW j \in 1 .. Len(new) PROVE new[j].n \in 1 .. published
    OBVIOUS
  <2>1. j \in DOMAIN replay /\ new[j] = replay[j] /\ new[j] \in Event
    BY <1>8, <1>12, <1>15
  <2>2. new[j].n = (base + k) + j + Offset /\ new[j].n \in 1 .. MaxPublished
    BY <1>9, <2>1 DEF Event
  <2>3. k + j <= Len(history)
    BY <1>1, <1>7, <1>8, <2>1
  <2>4. Offset \in Int /\ MaxPublished \in Nat
    BY <1>1, BoundAssumption DEF Offset
  <2> QED
    BY <1>1, <1>4, <1>8, <2>1, <2>2, <2>3, <2>4
<1>17. Len(replay) > 0 => Len(history) > 0 /\ replay[Len(replay)] = history[Len(history)]
  <2> SUFFICES ASSUME Len(replay) > 0 PROVE Len(history) > 0 /\ replay[Len(replay)] = history[Len(history)]
    OBVIOUS
  <2>1. Len(replay) \in 1 .. Len(history) - k /\ k + Len(replay) = Len(history)
    BY <1>1, <1>7, <1>8
  <2> QED
    BY <1>1, <1>7, <1>8, <2>1
<1> QED
  BY <1>6, <1>12, <1>15, <1>16, <1>17

\* Nothing published, nothing kept.
LEMMA FeedInit == Init => Feed!Init
<1> SUFFICES ASSUME Init PROVE Feed!Init
  OBVIOUS
<1>1. Len(history) = 0 /\ published = 0 /\ listeners = {}
  BY DEF Init
<1>2. (history # << >> /\ Last(history).end) = FALSE
  BY DEF Init
<1>3. \A r \in Readers : reader[r].text = << >> /\ ~reader[r].excused
  BY DEF Init, Fresh
<1> QED
  BY <1>1, <1>2, <1>3 DEF Feed!Init

\* publish is a publication: kept up to the cap, heard by the subscribed.
LEMMA FeedPublish ==
  ASSUME Inv, NEW end \in BOOLEAN, Publish(end)
  PROVE  Feed!Publish(end)
<1> DEFINE e == [id |-> nextId, n |-> published + 1, end |-> end]
<1>1. /\ history \in Seq(Event) /\ Len(history) \in Nat /\ Len(history) <= MaxEventsPerTask
      /\ MaxEventsPerTask \in Nat \ {0}
  BY CapAssumption DEF Inv, TypeOK
<1>2. e.end = end
  OBVIOUS
<1>3. /\ e \in Event
      /\ history' \in Seq(Event)
      /\ Len(history') = IF Len(history) + 1 > MaxEventsPerTask
                           THEN MaxEventsPerTask ELSE Len(history) + 1
      /\ \A i \in 1 .. Len(history') :
           history'[i] = Append(history, e)[Len(history) + 1 - Len(history') + i]
  BY PublishHistory
<1> HIDE DEF e
<1>4. Append(history, e)[Len(history) + 1] = e
  BY <1>1, <1>3
<1>5. Len(history') = IF Len(history) < MaxEventsPerTask THEN Len(history) + 1 ELSE Len(history)
  BY <1>1, <1>3
<1>6. (history' # << >> /\ Last(history').end) = end
  <2>1. Len(history') \in 1 .. Len(history') /\ Len(history) + 1 - Len(history') + Len(history') = Len(history) + 1
    BY <1>1, <1>5
  <2>2. history'[Len(history')] = e
    BY <1>3, <1>4, <2>1
  <2>3. history' # << >> /\ Last(history') = e
    BY <1>3, <2>1, <2>2 DEF Last
  <2> QED
    BY <1>2, <2>3
<1>7. published' = published + 1 /\ listeners' = IF end THEN {} ELSE listeners
  BY DEF Publish
<1>8. {r \in Readers : reader'[r].excused} = {r \in Readers : reader[r].excused}
  BY PublishReader
<1>9. ASSUME NEW r \in Readers
      PROVE  \/ r \in listeners /\ reader'[r].text = Append(reader[r].text, published + 1)
             \/ (r \notin listeners \/ reader[r].excused) /\ reader'[r].text = reader[r].text
  BY PublishText
<1> QED
  BY <1>5, <1>6, <1>7, <1>8, <1>9 DEF Feed!Publish, Feed!Hears, Feed!Misses

\* What opening its stream makes of a relay's text.
LEMMA OpenText ==
  ASSUME Inv, NEW r \in Readers, OpenStream(r)
  PROVE  /\ IsPrefix(reader[r].text, reader'[r].text)
         /\ \A i \in Len(reader[r].text) + 1 .. Len(reader'[r].text) :
              reader'[r].text[i] \in 1 .. published
         /\ reader'[r].excused <=> reader[r].excused \/ Missing(r)
         /\ listeners' = IF /\ history # << >> /\ Last(history).end
                            /\ reader'[r].text # reader[r].text
                           THEN listeners ELSE listeners \cup {r}
<1> DEFINE replay == Replay(reader[r].stored)
           ended == replay # <<>> /\ Last(replay).end
           rec == Store(r, replay)
           new == After(replay, reader[r].stored)
           open == ~ended
           late == cleanup # Off
           excused == rec.excused \/ Missing(r)
<1>1. reader[r] \in Reader /\ reader \in [Readers -> Reader] /\ history \in Seq(Event)
  BY DEF Inv, TypeOK
<1>2. /\ replay \in Seq(Event) /\ new \in Seq(Event)
      /\ Len(new) = Len(replay)
      /\ \A j \in 1 .. Len(new) : new[j].n \in 1 .. published
      /\ Len(replay) > 0 => Len(history) > 0 /\ replay[Len(replay)] = history[Len(history)]
  BY ReplayNews
<1>3. Appended(rec, reader[r], new)
  BY <1>2, StoreShape DEF Inv
<1>4. reader' = [reader EXCEPT ![r] = [rec EXCEPT !.open = open, !.late = late, !.excused = excused]]
  BY DEF OpenStream
<1>5. listeners' = IF ended THEN listeners ELSE listeners \cup {r}
  BY DEF OpenStream
<1>6. ended <=> replay # << >> /\ Last(replay).end
  OBVIOUS
<1>7. excused <=> rec.excused \/ Missing(r)
  OBVIOUS
<1>8. excused \in BOOLEAN
  OBVIOUS
<1> HIDE DEF replay, ended, rec, new, open, late, excused
<1>9. rec \in Reader /\ rec.excused = reader[r].excused
  BY <1>3 DEF Appended
<1>10. reader'[r].text = rec.text /\ (reader'[r].excused <=> excused)
  <2>1. reader'[r] = [rec EXCEPT !.open = open, !.late = late, !.excused = excused]
    BY <1>1, <1>4
  <2> QED
    BY <1>9, <2>1 DEF Reader
<1>11. /\ Len(new) = 0 => rec.text = reader[r].text
       /\ IsPrefix(reader[r].text, rec.text)
       /\ Len(rec.text) = Len(reader[r].text) + Len(new)
  BY <1>1, <1>2, <1>3, AppendedText
<1>12. Len(new) \in Nat /\ Len(reader[r].text) \in Nat
  <2>1. reader[r].text \in Seq(1 .. MaxPublished)
    BY <1>1 DEF Reader
  <2> QED
    BY <1>2, <2>1
<1>13. \A j \in 1 .. Len(new) : rec.text[Len(reader[r].text) + j] = new[j].n
  BY <1>3 DEF Appended
<1>14. ASSUME NEW i \in Len(reader[r].text) + 1 .. Len(rec.text)
       PROVE  rec.text[i] \in 1 .. published
  <2>1. i - Len(reader[r].text) \in 1 .. Len(new) /\ Len(reader[r].text) + (i - Len(reader[r].text)) = i
    BY <1>11, <1>12
  <2> QED
    BY <1>2, <1>13, <2>1
<1>15. ended <=> /\ history # << >> /\ Last(history).end
                 /\ rec.text # reader[r].text
  <2>1. CASE Len(new) = 0
    <3>1. replay = << >>
      <4>1. replay \in Seq(Event) /\ Len(replay) = 0
        BY <1>2, <2>1
      <4> QED
        BY <4>1
    <3> QED
      BY <1>6, <1>11, <2>1, <3>1
  <2>2. CASE Len(new) > 0
    <3>1. Len(rec.text) # Len(reader[r].text)
      BY <1>11, <1>12, <2>2
    <3>2. replay # << >> /\ history # << >>
      BY <1>1, <1>2, <2>2
    <3>3. Last(replay) = Last(history)
      BY <1>2, <2>2 DEF Last
    <3> QED
      BY <1>6, <3>1, <3>2, <3>3
  <2> QED
    BY <1>12, <2>1, <2>2
<1> QED
  BY <1>5, <1>7, <1>9, <1>10, <1>11, <1>14, <1>15

\* An event is missing for a relay that has missed none if and only if those
\* that are kept do not go back to its last one.
LEMMA MissingIsNotKept ==
  ASSUME Inv, NEW r \in Readers, ~reader[r].excused
  PROVE  Missing(r) <=> Len(reader[r].text) + Len(history) < published
<1>1. /\ nextId \in Nat /\ published \in Nat /\ history \in Seq(Event) /\ Len(history) \in Nat
      /\ reader[r].stored \in Nat
  <2>1. /\ reader[r] \in Reader /\ history \in Seq(Event)
        /\ nextId \in 1 .. MaxPublished + 1 /\ published \in 0 .. MaxPublished
    BY DEF Inv, TypeOK
  <2> QED
    BY <2>1, BoundAssumption DEF Reader
<1>2. /\ published + 1 - nextId = 0
      /\ Len(reader[r].text) = reader[r].stored /\ reader[r].stored <= published
  BY DEF Inv, Complete, Whole, Offset
<1>3. Len(history) < nextId /\ (history = << >> => nextId = 1)
  BY DEF Inv, Numbered
<1>4. CASE history = << >>
  BY <1>1, <1>2, <1>3, <1>4 DEF Missing
<1>5. CASE history # << >>
  <2>1. 1 \in DOMAIN history /\ Head(history) = history[1]
    BY <1>1, <1>5
  <2>2. Head(history).id = nextId - 1 - Len(history) + 1
    BY <2>1 DEF Inv, Numbered
  <2> QED
    BY <1>1, <1>2, <1>3, <1>5, <2>2 DEF Missing
<1> QED
  BY <1>4, <1>5

\* Opening a stream brings the relay up to date and attaches it in one step.
LEMMA FeedAttach ==
  ASSUME Inv, NEW r \in Readers, OpenStream(r)
  PROVE  Feed!Attach(r)
<1>1. /\ UNCHANGED <<history, nextId, cleanup, published, sinceEnd, restarts>>
      /\ ~reader[r].open
      /\ \A x \in Readers \ {r} : reader'[x] = reader[x]
  BY DEF OpenStream, Inv, TypeOK
<1>2. r \notin listeners
  BY <1>1 DEF Inv, OpenEarly
<1>3. /\ IsPrefix(reader[r].text, reader'[r].text)
      /\ \A i \in Len(reader[r].text) + 1 .. Len(reader'[r].text) :
           reader'[r].text[i] \in 1 .. published
      /\ reader'[r].excused <=> reader[r].excused \/ Missing(r)
      /\ listeners' = IF /\ history # << >> /\ Last(history).end
                         /\ reader'[r].text # reader[r].text
                        THEN listeners ELSE listeners \cup {r}
  BY OpenText
<1>4. {x \in Readers : reader'[x].excused} =
        IF Len(reader[r].text) + Len(history) < published
          THEN {x \in Readers : reader[x].excused} \cup {r}
          ELSE {x \in Readers : reader[x].excused}
  <2>1. CASE reader[r].excused
    BY <1>1, <1>3, <2>1
  <2>2. CASE ~reader[r].excused
    BY <1>1, <1>3, <2>2, MissingIsNotKept
  <2> QED
    BY <2>1, <2>2
<1>5. \A i \in 1 .. Len(reader'[r].text) - 1 : reader'[r].text[i] < reader'[r].text[i + 1]
  BY OpenReader DEF Follows
<1>6. r \notin {x \in Readers : reader'[x].excused} => Len(reader'[r].text) = published
  BY OpenReader DEF Whole
<1> QED
  BY <1>1, <1>2, <1>3, <1>4, <1>5, <1>6
  DEF Feed!Attach, Feed!Misses, Feed!Ascends, Feed!IsPrefix, IsPrefix

\* A stream that closes detaches its relay.
LEMMA FeedDetach ==
  ASSUME Inv, NEW r \in Readers, CloseStream(r)
  PROVE  Feed!Detach(r)
<1>1. /\ UNCHANGED <<history, published>>
      /\ listeners' = listeners \ {r}
      /\ \A x \in Readers : /\ reader'[x].text = reader[x].text
                            /\ reader'[x].excused = reader[x].excused
  <2>1. reader \in [Readers -> Reader] /\ reader[r] \in Reader
    BY DEF Inv, TypeOK
  <2>2. reader' = [reader EXCEPT ![r] = [reader[r] EXCEPT !.open = FALSE]]
    BY DEF CloseStream
  <2>3. /\ reader'[r].text = reader[r].text /\ reader'[r].excused = reader[r].excused
        /\ \A x \in Readers \ {r} : reader'[x] = reader[x]
    BY <2>1, <2>2 DEF Reader
  <2> QED
    BY <2>3 DEF CloseStream
<1> QED
  BY <1>1 DEF Feed!Detach

\* The cleanup and a restart forget, and excuse every relay.
LEMMA FeedForget ==
  ASSUME Inv, Forget, UNCHANGED published,
         \A r \in Readers : reader'[r].text = reader[r].text /\ reader'[r].excused
  PROVE  Feed!Forget
<1>1. history' = << >> /\ listeners' = {} /\ published' = published
  BY DEF Forget
<1>2. Len(history') = 0 /\ (history' # << >> /\ Last(history').end) = FALSE
  BY <1>1
<1>3. {r \in Readers : reader'[r].excused} = Readers
  OBVIOUS
<1> QED
  BY <1>1, <1>2, <1>3 DEF Feed!Forget

\* Every step is a step of the feed or none.
LEMMA FeedStep == Inv /\ [Next]_vars => [Feed!Next]_(Feed!vars)
<1> SUFFICES ASSUME Inv, [Next]_vars PROVE Feed!Next \/ UNCHANGED Feed!vars
  OBVIOUS
<1>0. reader \in [Readers -> Reader]
  BY DEF Inv, TypeOK
<1>1. ASSUME NEW end \in BOOLEAN, Publish(end) PROVE Feed!Next
  BY <1>1, FeedPublish DEF Feed!Next
<1>2. ASSUME NEW r \in Readers, OpenStream(r) PROVE Feed!Next
  BY <1>2, FeedAttach DEF Feed!Next
<1>3. ASSUME NEW r \in Readers, CloseStream(r) PROVE Feed!Next
  BY <1>3, FeedDetach DEF Feed!Next
<1>4. CASE CleanupFires
  <2>1. \A r \in Readers : reader'[r].text = reader[r].text /\ reader'[r].excused
    <3>1. reader' = [r \in Readers |-> [reader[r] EXCEPT !.excused = TRUE]]
      BY <1>4 DEF CleanupFires
    <3> QED
      BY <1>0, <3>1 DEF Reader
  <2>2. Forget /\ UNCHANGED published
    BY <1>4 DEF CleanupFires
  <2> QED
    BY <2>1, <2>2, FeedForget DEF Feed!Next
<1>5. CASE Restart
  <2>1. \A r \in Readers : reader'[r].text = reader[r].text /\ reader'[r].excused
    <3>1. reader' = [r \in Readers |-> [reader[r] EXCEPT !.open = FALSE, !.excused = TRUE]]
      BY <1>5 DEF Restart
    <3> QED
      BY <1>0, <3>1 DEF Reader
  <2>2. Forget /\ UNCHANGED published
    BY <1>5 DEF Restart
  <2> QED
    BY <2>1, <2>2, FeedForget DEF Feed!Next
<1>6. CASE Tick
  BY <1>6 DEF Tick, Feed!vars
<1>7. CASE UNCHANGED vars
  BY <1>7 DEF vars, brokerVars, Feed!vars
<1> QED
  BY <1>1, <1>2, <1>3, <1>4, <1>5, <1>6, <1>7 DEF Next

-----------------------------------------------------------------------------
(* Theorems.                                                               *)

\* The types, among them the cap on what publish keeps of a task.
THEOREM BrokerTypeCorrect == Spec => []TypeOK
<1>1. Inv => TypeOK
  BY DEF Inv
<1> QED
  BY <1>1, AlwaysInv, PTL

\* A relay that resumes after the last id it stored stores no event twice and
\* none out of order, over any sequence of reconnections, caps, cleanups and
\* restarts of the adapter: ids that start again are lower than the events'
\* places, so an old position hides new events but never lets an old one in.
THEOREM NothingRepeats == Spec => []NeverRepeats
<1>1. Inv => NeverRepeats
  BY DEF Inv, Texts, Follows, NeverRepeats
<1> QED
  BY <1>1, AlwaysInv, PTL

\* Replay and live events leave no gap: events reads the history and
\* subscribes with nothing published in between.
THEOREM GapsAreForgotten == Spec => []GapOnlyIfForgotten
<1>1. Inv => GapOnlyIfForgotten
  <2> SUFFICES ASSUME Inv, NEW r \in Readers, ~reader[r].excused
               PROVE  reader[r].text = [i \in 1 .. Len(reader[r].text) |-> i]
    BY DEF GapOnlyIfForgotten
  <2>1. reader[r].text \in Seq(1 .. MaxPublished)
    BY DEF Inv, TypeOK, Reader
  <2>2. \A i \in DOMAIN reader[r].text : reader[r].text[i] = i
    BY DEF Inv, Complete, Whole
  <2> QED
    BY <2>1, <2>2
<1> QED
  BY <1>1, AlwaysInv, PTL

\* scheduleCleanup clears the timer of an earlier end, so that the last one
\* can be replayed for the whole retention, unless later events filled the cap.
THEOREM EndsAreRetained == Spec => []EndIsRetained
<1>1. Inv => EndIsRetained
  BY DEF Inv, Retained, EndIsRetained
<1> QED
  BY <1>1, AlwaysInv, PTL

\* A stream that was opened before an end is either subscribed or closed: the
\* cleanup, which forgets the listeners, cannot leave it open and silent.
THEOREM OpenStreamsAreSubscribed == Spec => []OpenIsSubscribed
<1>1. Inv => OpenIsSubscribed
  BY DEF Inv, OpenEarly, OpenIsSubscribed
<1> QED
  BY <1>1, AlwaysInv, PTL
\* The broker and its relays implement EventFeed: whatever order of streams,
\* ends, cleanups and restarts, a relay that nothing was lost to hears every
\* event, an event is lost only if it is further back than what is kept, and
\* what any relay has only ever grows by later events.
THEOREM BrokerImplementsFeed == Spec => ImplementsFeed
<1>1. Inv /\ [Next]_vars => [Feed!Next]_(Feed!vars)
  BY FeedStep
<1> QED
  BY <1>1, FeedInit, AlwaysInv, PTL DEF Spec, ImplementsFeed, Feed!Spec

=============================================================================
