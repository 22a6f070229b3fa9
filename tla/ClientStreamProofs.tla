-------------------------- MODULE ClientStreamProofs --------------------------
(***************************************************************************)
(* The safety of the client's stream for any number of tasks and any       *)
(* bounds.  A subscription, the connection under it and what it has handed *)
(* over go together (Linked); ids ascend along them (Ordered); and what    *)
(* lies before a sent event is sent as well (Gaps), because an event that  *)
(* is stored and not sent is either in the reads and the queue of the      *)
(* connection or has still to be published (Covered).                      *)
(***************************************************************************)
EXTENDS ClientStream, FiniteSetTheorems, WellFoundedInduction, SequenceTheorems, TLAPS

Failing == {"failed", "cancelled"}

\* A task that is shown, or asked about, has a row and with it a session.
Known(t) == t # NoTask => t \in Tasks /\ root[t] \in Tasks

AllKnown ==
  /\ \A i \in DOMAIN created : Known(created[i])
  /\ \A t \in Tasks : Known(current[t])
  /\ \A a \in asks : Known(a.parent) /\ (a.at = "created" => Known(a.task))
  /\ Known(store.task) /\ Known(news.task)

\* The types that what is shown does not enter; Values has the others.
ApiTyped ==
  /\ created \in Seq(Tasks) /\ root \in [Tasks -> Tasks \cup {NoTask}]
  /\ current \in [Tasks -> Tasks \cup {NoTask}]
  /\ log \in [Tasks -> Seq(EventType)] /\ \A t \in Tasks : Len(log[t]) <= MaxLog
  /\ posting \in [Tasks -> SUBSET Post]

Seen == [task : Tasks \cup {NoTask}, ids : Seq(Ids)]

ScreenTyped ==
  /\ conn \in Conn /\ sub \in Sub /\ seen \in Seen
  /\ store = [task |-> store.task, status |-> store.status, text |-> store.text]
  /\ mounted \in BOOLEAN

AskTyped == asks \subseteq Ask /\ asked \in 0 .. N

Types == ApiTyped /\ ScreenTyped /\ AskTyped

\* An event beside the relay is an end, and is the only one with an id above an
\* event that the relay has yet to publish.
LogOK(t) ==
  /\ \A i, j \in DOMAIN log[t] : log[t][i] \in Ends /\ log[t][j] \in Ends => i = j
  /\ \A p \in posting[t] : p.id \in DOMAIN log[t]
  /\ \A p \in posting[t] : p.by = "other" => log[t][p.id] \in Failing
  /\ \A p \in posting[t] : p.by = "relay" =>
       /\ p.stored /\ log[t][p.id] \notin Failing /\ log[t][p.id] # "void"
       /\ \A i \in DOMAIN log[t] : i > p.id => i = p.id + 1 /\ log[t][i] \in Failing
  /\ \A p, q \in posting[t] : p.by = q.by => p = q

Logs == \A t \in Tasks : LogOK(t)

\* An open subscription is the one of the task at work on the screen, and is
\* connected or waits to be.
Linked ==
  /\ sub.task # NoTask => /\ mounted /\ sub.task = store.task /\ store.status \in Active
                          /\ seen.task = sub.task
  /\ sub.waits => sub.task # NoTask
  /\ conn.at = "none" => conn = NoConn
  /\ conn.at # "none" <=> sub.task # NoTask /\ ~sub.waits
  /\ conn.at # "none" => conn.task = sub.task

Ascends(s) == \A i, j \in DOMAIN s : i < j => s[i] < s[j]

\* The last id sent is the last one on the wire, or the last one handed over.
Ordered(su, co, se) ==
  /\ Ascends(se.ids)
  /\ su.task # NoTask =>
       /\ \A i \in ToSet(se.ids) : i <= su.lastId
       /\ su.lastId = 0 \/ su.lastId \in ToSet(se.ids)
  /\ co.at # "none" =>
       /\ su.lastId <= co.sent
       /\ Ascends(co.wire)
       /\ \A i \in ToSet(co.wire) : su.lastId < i /\ i <= co.sent
       /\ co.sent = su.lastId \/ co.sent \in ToSet(co.wire)

\* What is committed below an event that was sent was sent, but for an end, and
\* for the event before an end.
NoGap(t, last, sent) ==
  \A i \in Committed(t) : i < last /\ i \notin sent =>
    \/ log[t][i] \in Failing
    \/ log[t][last] \in Failing /\ i = last - 1

SeenGaps(su, se) ==
  se.ids # <<>> =>
    /\ se.task \in Tasks /\ ToSet(se.ids) \subseteq Committed(se.task)
    /\ \A last \in ToSet(se.ids) : NoGap(se.task, last, ToSet(se.ids))
    /\ su.task # NoTask => \A i \in ToSet(se.ids) : log[se.task][i] \notin Ends

WireGaps(co, se) ==
  co.at # "none" =>
    /\ ToSet(co.wire) \subseteq Committed(co.task)
    /\ \A last \in ToSet(co.wire) : NoGap(co.task, last, ToSet(se.ids) \cup ToSet(co.wire))
    /\ \A i \in ToSet(co.wire) : log[co.task][i] \in Ends => co.at = "done"

Posted(t, i) == \E p \in posting[t] : p.id = i

\* An end was published; nothing is added to the log any more.
EndPublished(t) == \E i \in EndIds(t) : ~Posted(t, i)

\* Only the last event of the relay, or the one before an end, can be missed by
\* who does not listen any more.
Missable(t, i) ==
  \/ i = Len(log[t])
  \/ i = Len(log[t]) - 1 /\ log[t][Len(log[t])] \in Failing

\* Until it has sent an end, a connection has read or queued what is committed, or
\* is told of it.
Covered(co) ==
  LET t    == co.task
      read == co.snapshot \cup co.queue
  IN  co.at \in {"reading", "read", "live"} =>
        /\ ~co.listens => EndPublished(t)
        /\ read \subseteq Committed(t)
        /\ co.at = "read" => \A i \in Committed(t) : i > co.sent /\ i \notin read =>
             Posted(t, i) \/ (~co.listens /\ Missable(t, i))
        /\ co.at = "live" /\ co.listens =>
             \A i \in Committed(t) : i > co.sent => Posted(t, i)

StreamOK(su, co, se) ==
  Ordered(su, co, se) /\ SeenGaps(su, se) /\ WireGaps(co, se) /\ Covered(co)

Inv == Types /\ AllKnown /\ Logs /\ Linked /\ LiveTaskIsFollowed /\ StreamOK(sub, conn, seen)

-----------------------------------------------------------------------------
(* Sequences of ids.                                                       *)

\* Ids are numbers.
LEMMA IdsAreNumbers == Ids \subseteq Nat \ {0} /\ IsFiniteSet(Ids)
<1>1. MaxLog \in Nat
  BY BoundsAssumption
<1>2. IsFiniteSet(1 .. MaxLog)
  BY <1>1, FS_Interval
<1> QED
  BY <1>1, <1>2 DEF Ids

\* What is in a concatenation.
LEMMA ConcatIds ==
  ASSUME NEW s \in Seq(Ids), NEW r \in Seq(Ids)
  PROVE  /\ s \o r \in Seq(Ids)
         /\ ToSet(s \o r) = ToSet(s) \cup ToSet(r)
<1> DEFINE c == s \o r
<1>1. /\ c \in Seq(Ids) /\ Len(c) = Len(s) + Len(r)
      /\ \A i \in 1 .. Len(s) : c[i] = s[i]
      /\ \A i \in 1 .. Len(r) : c[Len(s) + i] = r[i]
  OBVIOUS
<1>2. /\ Len(s) \in Nat /\ Len(r) \in Nat
      /\ DOMAIN s = 1 .. Len(s) /\ DOMAIN r = 1 .. Len(r) /\ DOMAIN c = 1 .. Len(s) + Len(r)
  BY <1>1
<1> HIDE DEF c
<1>3. \A i \in DOMAIN c : c[i] \in ToSet(s) \cup ToSet(r)
  <2> SUFFICES ASSUME NEW i \in DOMAIN c PROVE c[i] \in ToSet(s) \cup ToSet(r)
    OBVIOUS
  <2>1. CASE i <= Len(s)
    BY <1>1, <1>2, <2>1 DEF ToSet
  <2>2. CASE i > Len(s)
    <3> DEFINE j == i - Len(s)
    <3>1. j \in 1 .. Len(r) /\ i = Len(s) + j
      BY <1>2, <2>2
    <3>2. c[i] = r[j] /\ j \in DOMAIN r
      BY <1>1, <1>2, <3>1
    <3> QED
      BY <3>2 DEF ToSet
  <2> QED
    BY <1>2, <2>1, <2>2
<1>4. \A i \in DOMAIN s : s[i] \in ToSet(c)
  BY <1>1, <1>2 DEF ToSet
<1>5. \A i \in DOMAIN r : r[i] \in ToSet(c)
  <2> SUFFICES ASSUME NEW i \in DOMAIN r PROVE r[i] \in ToSet(c)
    OBVIOUS
  <2>1. Len(s) + i \in DOMAIN c /\ c[Len(s) + i] = r[i]
    BY <1>1, <1>2
  <2> QED
    BY <2>1 DEF ToSet
<1> QED
  BY <1>1, <1>3, <1>4, <1>5 DEF ToSet, c

\* Ascending sequences may be joined where the second goes on above the first.
LEMMA ConcatAscends ==
  ASSUME NEW s \in Seq(Ids), NEW r \in Seq(Ids), Ascends(s), Ascends(r),
         NEW m \in Nat, \A i \in ToSet(s) : i <= m, \A i \in ToSet(r) : i > m
  PROVE  Ascends(s \o r)
<1> DEFINE c == s \o r
<1>1. /\ c \in Seq(Ids) /\ Len(c) = Len(s) + Len(r)
      /\ \A i \in 1 .. Len(s) : c[i] = s[i]
      /\ \A i \in 1 .. Len(r) : c[Len(s) + i] = r[i]
  OBVIOUS
<1>2. /\ Len(s) \in Nat /\ Len(r) \in Nat
      /\ DOMAIN s = 1 .. Len(s) /\ DOMAIN r = 1 .. Len(r) /\ DOMAIN c = 1 .. Len(s) + Len(r)
  BY <1>1
<1> HIDE DEF c
<1>3. \A i \in DOMAIN c : IF i <= Len(s) THEN i \in DOMAIN s /\ c[i] = s[i]
                          ELSE i - Len(s) \in DOMAIN r /\ c[i] = r[i - Len(s)]
  <2> SUFFICES ASSUME NEW i \in DOMAIN c, i > Len(s)
               PROVE  i - Len(s) \in DOMAIN r /\ c[i] = r[i - Len(s)]
    BY <1>1, <1>2
  <2> DEFINE j == i - Len(s)
  <2>1. j \in 1 .. Len(r) /\ i = Len(s) + j
    BY <1>2
  <2>2. c[i] = r[j] /\ j \in DOMAIN r
    BY <1>1, <1>2, <2>1
  <2> QED
    BY <2>2
<1>4. /\ \A i \in DOMAIN s : s[i] <= m /\ s[i] \in Nat
      /\ \A i \in DOMAIN r : r[i] > m /\ r[i] \in Nat
  <2>1. /\ \A i \in DOMAIN s : s[i] \in Ids /\ s[i] \in ToSet(s)
        /\ \A i \in DOMAIN r : r[i] \in Ids /\ r[i] \in ToSet(r)
    BY DEF ToSet
  <2> QED
    BY <2>1, IdsAreNumbers
<1>5. SUFFICES ASSUME NEW i \in DOMAIN c, NEW j \in DOMAIN c, i < j PROVE c[i] < c[j]
  BY DEF Ascends, c
<1>6. CASE j <= Len(s)
  <2>1. i \in DOMAIN s /\ j \in DOMAIN s /\ c[i] = s[i] /\ c[j] = s[j]
    BY <1>2, <1>3, <1>5, <1>6
  <2> QED
    BY <1>5, <2>1 DEF Ascends
<1>7. CASE i > Len(s)
  <2>1. /\ i - Len(s) \in DOMAIN r /\ j - Len(s) \in DOMAIN r
        /\ c[i] = r[i - Len(s)] /\ c[j] = r[j - Len(s)] /\ i - Len(s) < j - Len(s)
    BY <1>2, <1>3, <1>5, <1>7
  <2> QED
    BY <2>1 DEF Ascends
<1>8. CASE i <= Len(s) /\ j > Len(s)
  <2>1. /\ i \in DOMAIN s /\ c[i] = s[i]
        /\ j - Len(s) \in DOMAIN r /\ c[j] = r[j - Len(s)]
    BY <1>2, <1>3, <1>5, <1>8
  <2>2. s[i] <= m /\ r[j - Len(s)] > m /\ s[i] \in Nat /\ r[j - Len(s)] \in Nat
    BY <1>4, <2>1
  <2> QED
    BY <2>1, <2>2
<1> QED
  BY <1>2, <1>6, <1>7, <1>8

\* An ascending sequence cut in two.
LEMMA CutIds ==
  ASSUME NEW s \in Seq(Ids), Ascends(s), NEW k \in 1 .. Len(s)
  PROVE  LET head == SubSeq(s, 1, k)
             rest == SubSeq(s, k + 1, Len(s))
         IN  /\ head \in Seq(Ids) /\ rest \in Seq(Ids)
             /\ Ascends(head) /\ Ascends(rest)
             /\ ToSet(s) = ToSet(head) \cup ToSet(rest)
             /\ head # <<>> /\ Last(head) = s[k] /\ s[k] \in ToSet(head)
             /\ \A i \in ToSet(head) : i <= s[k]
             /\ \A i \in ToSet(rest) : i > s[k]
             /\ \A i \in ToSet(head) : i # s[k] => \E j \in 1 .. k - 1 : i = s[j]
<1> DEFINE head == SubSeq(s, 1, k)
           n    == Len(s)
           from == k + 1
           rest == SubSeq(s, from, n)
<1>1. n \in Nat /\ DOMAIN s = 1 .. n /\ k \in 1 .. n /\ from \in 2 .. n + 1 /\ from = k + 1
  OBVIOUS
<1>2. \A i \in 1 .. n : s[i] \in Ids
  OBVIOUS
<1>3. /\ head \in Seq(Ids) /\ Len(head) = k /\ \A i \in 1 .. k : head[i] = s[i]
  BY <1>1, <1>2
<1>4. /\ rest \in Seq(Ids) /\ Len(rest) = n - k
      /\ \A i \in 1 .. n - k : rest[i] = s[k + i]
  <2> HIDE DEF from, n
  <2>1. /\ rest \in Seq(Ids) /\ Len(rest) = IF from <= n THEN n - from + 1 ELSE 0
        /\ \A i \in 1 .. n - from + 1 : rest[i] = s[from + i - 1]
    BY <1>1, <1>2
  <2>2. n - from + 1 = n - k /\ \A i \in 1 .. n - k : from + i - 1 = k + i
    BY <1>1
  <2> QED
    BY <1>1, <2>1, <2>2
<1> HIDE DEF head, rest, n, from
<1>5. DOMAIN head = 1 .. k /\ DOMAIN rest = 1 .. n - k
  BY <1>1, <1>3, <1>4
<1>6. \A i, j \in 1 .. n : i < j => s[i] < s[j]
  BY <1>1 DEF Ascends
<1>7. Ascends(head)
  BY <1>1, <1>3, <1>5, <1>6 DEF Ascends
<1>8. Ascends(rest)
  <2> SUFFICES ASSUME NEW i \in 1 .. n - k, NEW j \in 1 .. n - k, i < j PROVE rest[i] < rest[j]
    BY <1>5 DEF Ascends
  <2>1. k + i \in 1 .. n /\ k + j \in 1 .. n /\ k + i < k + j
    BY <1>1
  <2> QED
    BY <1>4, <1>6, <2>1
<1>9. \A i \in ToSet(head) : \E j \in 1 .. k : i = s[j]
  BY <1>3, <1>5 DEF ToSet
<1>10. \A i \in ToSet(rest) : \E j \in from .. n : i = s[j]
  <2> SUFFICES ASSUME NEW i \in 1 .. n - k PROVE \E j \in from .. n : rest[i] = s[j]
    BY <1>5 DEF ToSet
  <2>1. k + i \in from .. n /\ rest[i] = s[k + i]
    BY <1>1, <1>4
  <2> QED
    BY <2>1
<1>11. \A j \in 1 .. k : s[j] \in ToSet(head)
  BY <1>3, <1>5 DEF ToSet
<1>12. \A j \in from .. n : s[j] \in ToSet(rest)
  <2> SUFFICES ASSUME NEW j \in from .. n PROVE s[j] \in ToSet(rest)
    OBVIOUS
  <2>1. j - k \in 1 .. n - k /\ k + (j - k) = j
    BY <1>1
  <2>2. rest[j - k] = s[j]
    BY <1>4, <2>1
  <2> QED
    BY <1>5, <2>1, <2>2 DEF ToSet
<1>13. ToSet(s) = ToSet(head) \cup ToSet(rest)
  <2>1. \A j \in 1 .. n : j \in 1 .. k \/ j \in from .. n
    BY <1>1
  <2>2. \A j \in 1 .. n : s[j] \in ToSet(head) \cup ToSet(rest)
    BY <1>11, <1>12, <2>1
  <2>3. \A i \in ToSet(head) \cup ToSet(rest) : \E j \in 1 .. n : i = s[j]
    <3>1. \A j \in 1 .. k : j \in 1 .. n
      BY <1>1
    <3>2. \A j \in from .. n : j \in 1 .. n
      BY <1>1
    <3> QED
      BY <1>9, <1>10, <3>1, <3>2
  <2> QED
    BY <1>1, <2>2, <2>3 DEF ToSet
<1>14. head # <<>> /\ Last(head) = s[k] /\ s[k] \in ToSet(head)
  BY <1>1, <1>3, <1>11 DEF Last
<1>15. \A i \in ToSet(head) : i <= s[k]
  <2> SUFFICES ASSUME NEW j \in 1 .. k PROVE s[j] <= s[k]
    BY <1>9
  <2>1. j \in 1 .. n
    BY <1>1
  <2>2. s[j] \in Nat /\ s[k] \in Nat
    BY <1>1, <1>2, <2>1, IdsAreNumbers
  <2> QED
    BY <1>1, <1>6, <2>1, <2>2
<1>16. \A i \in ToSet(rest) : i > s[k]
  <2> SUFFICES ASSUME NEW j \in from .. n PROVE s[j] > s[k]
    BY <1>10
  <2>1. j \in 1 .. n /\ k < j
    BY <1>1
  <2>2. s[j] \in Nat /\ s[k] \in Nat
    BY <1>1, <1>2, <2>1, IdsAreNumbers
  <2> QED
    BY <1>1, <1>6, <2>1, <2>2
<1>17. \A i \in ToSet(head) : i # s[k] => \E j \in 1 .. k - 1 : i = s[j]
  <2> SUFFICES ASSUME NEW j \in 1 .. k, s[j] # s[k] PROVE j \in 1 .. k - 1
    BY <1>9
  <2> QED
    BY <1>1
<1> QED
  BY <1>3, <1>4, <1>7, <1>8, <1>13, <1>14, <1>15, <1>16, <1>17 DEF head, rest, n, from

\* The ids of a set in their order: all of them, once each.
LEMMA InOrderIds ==
  ASSUME NEW ids \in SUBSET Ids, NEW s \in InOrder(ids)
  PROVE  /\ s \in Seq(Ids) /\ Ascends(s) /\ ToSet(s) = ids
         /\ s = <<>> <=> ids = {}
         /\ s # <<>> => Last(s) \in ids /\ \A i \in ids : i <= Last(s)
<1>2. IsFiniteSet(ids)
  BY IdsAreNumbers, FS_Subset
<1> DEFINE n == Cardinality(ids)
<1>3. n \in Nat
  BY <1>2, FS_CardinalityType
<1>4. s \in [1 .. n -> ids] /\ \A i, j \in DOMAIN s : i < j => s[i] < s[j]
  BY DEF InOrder
<1> HIDE DEF n
<1>5. s \in Seq(Ids) /\ Len(s) = n /\ DOMAIN s = 1 .. n
  <2>1. s \in [1 .. n -> Ids]
    BY <1>4
  <2> QED
    BY <1>3, <2>1
<1>6. \A i \in 1 .. n : s[i] \in ids /\ s[i] \in Nat
  BY <1>4, IdsAreNumbers
<1>7. IsInjective(s)
  <2> SUFFICES ASSUME NEW i \in 1 .. n, NEW j \in 1 .. n, s[i] = s[j] PROVE i = j
    BY <1>5 DEF IsInjective
  <2>1. i < j => s[i] < s[j]
    BY <1>4, <1>5
  <2>2. j < i => s[j] < s[i]
    BY <1>4, <1>5
  <2> QED
    BY <1>6, <2>1, <2>2
<1>8. s \in Surjection(1 .. n, ids)
  <2>1. IsFiniteSet(1 .. n) /\ Cardinality(1 .. n) = n
    BY <1>3, FS_Interval
  <2>2. s \in Injection(1 .. n, ids)
    BY <1>4, <1>7 DEF Injection
  <2> QED
    BY <1>2, <2>1, <2>2, FS_Injection DEF n
<1>9. ToSet(s) = ids
  BY <1>5, <1>6, <1>8 DEF Surjection, ToSet
<1>10. Ascends(s)
  BY <1>4 DEF Ascends
<1>11. s = <<>> <=> ids = {}
  <2>1. s = <<>> => n = 0
    BY <1>5
  <2>2. n = 0 => s = <<>>
    BY <1>5
  <2>3. n = 0 <=> ids = {}
    BY <1>2, FS_EmptySet DEF n
  <2> QED
    BY <2>1, <2>2, <2>3
<1>12. ASSUME s # <<>> PROVE Last(s) \in ids /\ \A i \in ids : i <= Last(s)
  <2>1. n \in 1 .. n /\ Last(s) = s[n]
    BY <1>3, <1>5, <1>12 DEF Last
  <2>2. \A j \in 1 .. n : s[j] <= s[n]
    <3> SUFFICES ASSUME NEW j \in 1 .. n PROVE s[j] <= s[n]
      OBVIOUS
    <3>1. j < n => s[j] < s[n]
      BY <1>4, <1>5, <2>1
    <3> QED
      BY <1>3, <1>6, <2>1, <3>1
  <2>3. \A i \in ids : \E j \in 1 .. n : i = s[j]
    BY <1>8 DEF Surjection
  <2> QED
    BY <1>6, <2>1, <2>2, <2>3
<1> QED
  BY <1>5, <1>9, <1>10, <1>11, <1>12

-----------------------------------------------------------------------------
(* What the screen makes of its subscription.                              *)

\* The effect opens a subscription, closes the one there is, or has nothing to do.
Opened(t) ==
  t # NoTask /\ sub' = [NoSub EXCEPT !.task = t] /\ conn' = AskFor(t, 0) /\ seen' = SeenOf(t)

Closed(se) == sub' = NoSub /\ conn' = NoConn /\ seen' \in {SeenOf(NoTask), se}

Kept(su, co, se) == sub' = su /\ conn' = co /\ seen' = se

\* What a handler leaves of a subscription goes with what it leaves of the store,
\* unless the effect is going to look at it.
Fits(st, su, co, se) ==
  mounted /\ <<st.task, st.status>> = <<store.task, store.status>> =>
    /\ su.task # NoTask => su.task = st.task /\ st.status \in Active /\ se.task = su.task
    /\ su.waits => su.task # NoTask
    /\ co.at = "none" => co = NoConn
    /\ co.at # "none" <=> su.task # NoTask /\ ~su.waits
    /\ co.at # "none" => co.task = su.task
    /\ st.task # NoTask /\ st.status \in Active =>
         su.task = st.task /\ (su.waits \/ co.at # "none")

\* What the effect does depends on whether the shown task or its status has changed.
LEMMA RenderedCases ==
  ASSUME NEW st, NEW mo \in BOOLEAN, NEW su, NEW co, NEW se, mounted \in BOOLEAN,
         Rendered(st, mo, su, co, se), Fits(st, su, co, se)
  PROVE  /\ Linked' /\ LiveTaskIsFollowed'
         /\ Opened(st.task) \/ Closed(se) \/ Kept(su, co, se)
<1> DEFINE moved == mo /\ (~mounted \/ <<st.task, st.status>> # <<store.task, store.status>>)
           opens == moved /\ st.task # NoTask /\ st.status \in Active
<1>1. /\ store' = st /\ mounted' = mo
      /\ sub'  = IF opens THEN [NoSub EXCEPT !.task = st.task]
                 ELSE IF moved \/ ~mo THEN NoSub ELSE su
      /\ conn' = IF opens THEN AskFor(st.task, 0) ELSE IF moved \/ ~mo THEN NoConn ELSE co
      /\ seen' = IF opens THEN SeenOf(st.task)
                 ELSE IF (moved \/ ~mo) /\ se = seen THEN SeenOf(NoTask) ELSE se
  BY DEF Rendered
<1>2. CASE opens
  <2>1. Opened(st.task)
    BY <1>1, <1>2 DEF Opened
  <2>2. /\ sub'.task = st.task /\ sub'.waits = FALSE
        /\ conn'.at = "reading" /\ conn'.task = st.task /\ seen'.task = st.task
    BY <2>1 DEF Opened, NoSub, AskFor, Subscribe, NoConn, SeenOf
  <2> QED
    BY <1>1, <1>2, <2>1, <2>2 DEF Linked, LiveTaskIsFollowed
<1>3. CASE ~opens /\ (moved \/ ~mo)
  <2>1. Closed(se)
    BY <1>1, <1>3 DEF Closed
  <2>2. /\ sub'.task = NoTask /\ sub'.waits = FALSE
        /\ conn'.at = "none" /\ conn' = NoConn
    BY <2>1 DEF Closed, NoSub, NoConn
  <2> QED
    BY <1>1, <1>3, <2>1, <2>2 DEF Linked, LiveTaskIsFollowed
<1>4. CASE ~moved /\ mo
  <2>1. Kept(su, co, se)
    BY <1>1, <1>4 DEF Kept
  <2>2. mounted /\ <<st.task, st.status>> = <<store.task, store.status>>
    BY <1>4
  <2> QED
    BY <1>1, <1>4, <2>1, <2>2 DEF Linked, LiveTaskIsFollowed, Fits, Kept
<1> QED
  BY <1>2, <1>3, <1>4

\* A subscription that was just opened has sent nothing.
LEMMA OpenedOK ==
  ASSUME NEW t \in Tasks, Opened(t)
  PROVE  StreamOK(sub, conn, seen)'
<1>1. /\ sub'.task = t /\ sub'.lastId = 0
      /\ conn'.at = "reading" /\ conn'.task = t /\ conn'.wire = <<>> /\ conn'.sent = 0
      /\ conn'.listens /\ conn'.snapshot = {} /\ conn'.queue = {}
      /\ seen'.ids = <<>>
  BY DEF Opened, NoSub, AskFor, Subscribe, NoConn, SeenOf
<1>2. ToSet(<<>>) = {} /\ Ascends(<<>>)
  BY DEF ToSet, Ascends
<1>3. Ordered(sub, conn, seen)'
  BY <1>1, <1>2 DEF Ordered
<1>4. SeenGaps(sub, seen)' /\ WireGaps(conn, seen)'
  BY <1>1, <1>2 DEF SeenGaps, WireGaps
<1>5. Covered(conn)'
  BY <1>1 DEF Covered
<1> QED
  BY <1>3, <1>4, <1>5 DEF StreamOK

\* What a closed one has handed over stays as it is.
LEMMA ClosedOK ==
  ASSUME NEW se, Closed(se), Ascends(se.ids), SeenGaps(NoSub, se)'
  PROVE  StreamOK(sub, conn, seen)'
<1>1. /\ sub' = NoSub /\ sub'.task = NoTask /\ conn'.at = "none"
      /\ seen' = SeenOf(NoTask) \/ seen' = se
  BY DEF Closed, NoSub, NoConn
<1>2. SeenOf(NoTask).ids = <<>> /\ Ascends(<<>>)
  BY DEF Ascends, SeenOf
<1>3. Ordered(sub, conn, seen)'
  BY <1>1, <1>2 DEF Ordered
<1>4. SeenGaps(sub, seen)'
  BY <1>1, <1>2 DEF SeenGaps
<1>5. WireGaps(conn, seen)' /\ Covered(conn)'
  BY <1>1 DEF WireGaps, Covered
<1> QED
  BY <1>3, <1>4, <1>5 DEF StreamOK

\* The log stays as it is.
LEMMA KeptOK ==
  ASSUME NEW su, NEW co, NEW se, Kept(su, co, se), StreamOK(su, co, se), UNCHANGED <<log, posting>>
  PROVE  StreamOK(sub, conn, seen)'
BY DEF Kept, StreamOK, Ordered, SeenGaps, WireGaps, Covered, NoGap, Committed, EndPublished,
       EndIds, Posted, Missable

\* What a step of the screen has to show.
LEMMA ScreenStep ==
  ASSUME NEW st, st.task \in Tasks \cup {NoTask}, NEW mo \in BOOLEAN, NEW su, NEW co, NEW se,
         mounted \in BOOLEAN, Rendered(st, mo, su, co, se), Fits(st, su, co, se),
         StreamOK(su, co, se), UNCHANGED <<log, posting>>
  PROVE  Linked' /\ LiveTaskIsFollowed' /\ StreamOK(sub, conn, seen)'
<1>1. /\ Linked' /\ LiveTaskIsFollowed'
      /\ Opened(st.task) \/ Closed(se) \/ Kept(su, co, se)
  BY RenderedCases
<1>2. CASE Opened(st.task)
  <2>1. st.task \in Tasks
    BY <1>2 DEF Opened
  <2> QED
    BY <1>1, <1>2, <2>1, OpenedOK
<1>3. CASE Closed(se)
  <2>1. Ascends(se.ids)
    BY DEF StreamOK, Ordered
  <2>2. NoSub.task = NoTask
    BY DEF NoSub
  <2>3. SeenGaps(NoSub, se)'
    BY <2>2 DEF StreamOK, SeenGaps, NoGap, Committed
  <2> QED
    BY <1>1, <1>3, <2>1, <2>3, ClosedOK
<1>4. CASE Kept(su, co, se)
  BY <1>1, <1>4, KeptOK
<1> QED
  BY <1>1, <1>2, <1>3, <1>4

-----------------------------------------------------------------------------
(* Types.                                                                  *)

\* The bounds are numbers.
LEMMA NumbersOfBounds == N \in Nat /\ MaxLog \in Nat /\ RetryLimit \in Nat /\ 0 \notin Tasks
BY BoundsAssumption DEF Tasks

\* A known task is a task, or none.
LEMMA KnownType == ASSUME NEW t, Known(t) PROVE t \in Tasks \cup {NoTask}
BY DEF Known

\* Sessions are given once.
LEMMA KnownStays ==
  ASSUME NEW t, Known(t), \A u \in Tasks : root[u] \in Tasks => root'[u] \in Tasks
  PROVE  Known(t)'
BY DEF Known

\* The connections and subscriptions that are made.
LEMMA FreshTypes ==
  /\ NoConn \in Conn /\ NoSub \in Sub /\ SeenOf(NoTask) \in Seen
  /\ \A t \in Tasks : [NoSub EXCEPT !.task = t] \in Sub /\ SeenOf(t) \in Seen
  /\ \A t \in Tasks, after \in 0 .. MaxLog : AskFor(t, after) \in Conn
<1>1. <<>> \in Seq(Ids) /\ {} \in SUBSET Ids /\ 0 \in 0 .. MaxLog /\ 0 \in 0 .. RetryLimit
  BY NumbersOfBounds
<1> QED
  BY <1>1 DEF NoConn, Conn, NoSub, Sub, SeenOf, Seen, AskFor, Subscribe

\* The screen keeps the types.
LEMMA RenderedTypes ==
  ASSUME NEW st, st = [task |-> st.task, status |-> st.status, text |-> st.text],
         st.task \in Tasks \cup {NoTask},
         NEW mo \in BOOLEAN, NEW su \in Sub, NEW co \in Conn, NEW se \in Seen,
         Rendered(st, mo, su, co, se)
  PROVE  ScreenTyped' /\ store' = st
<1> DEFINE moved == mo /\ (~mounted \/ <<st.task, st.status>> # <<store.task, store.status>>)
           opens == moved /\ st.task # NoTask /\ st.status \in Active
<1>1. /\ store' = st /\ mounted' = mo
      /\ sub'  = IF opens THEN [NoSub EXCEPT !.task = st.task]
                 ELSE IF moved \/ ~mo THEN NoSub ELSE su
      /\ conn' = IF opens THEN AskFor(st.task, 0) ELSE IF moved \/ ~mo THEN NoConn ELSE co
      /\ seen' = IF opens THEN SeenOf(st.task)
                 ELSE IF (moved \/ ~mo) /\ se = seen THEN SeenOf(NoTask) ELSE se
  BY DEF Rendered
<1>2. opens => st.task \in Tasks
  OBVIOUS
<1>3. 0 \in 0 .. MaxLog
  BY NumbersOfBounds
<1> HIDE DEF moved, opens
<1>4. sub' \in Sub /\ conn' \in Conn /\ seen' \in Seen
  BY <1>1, <1>2, <1>3, FreshTypes
<1>5. store' = st /\ mounted' \in BOOLEAN
  BY <1>1
<1> QED
  BY <1>4, <1>5 DEF ScreenTyped

\* What was committed has an id.
LEMMA CommittedIds ==
  ASSUME ApiTyped, NEW t \in Tasks
  PROVE  /\ Len(log[t]) \in 0 .. MaxLog /\ DOMAIN log[t] = 1 .. Len(log[t])
         /\ DOMAIN log[t] \subseteq Ids /\ Committed(t) \subseteq DOMAIN log[t]
         /\ \A i \in DOMAIN log[t] : log[t][i] \in EventType
<1>1. log[t] \in Seq(EventType) /\ Len(log[t]) <= MaxLog
  BY DEF ApiTyped
<1>2. Len(log[t]) \in Nat /\ DOMAIN log[t] = 1 .. Len(log[t])
  BY <1>1
<1> QED
  BY <1>1, <1>2, NumbersOfBounds DEF Committed, Ids

\* What a connection becomes when it sends some ids.
LEMMA SentFields ==
  ASSUME NEW c \in Conn, NEW ids \in SUBSET Ids, NEW d \in Sent(c, ids)
  PROVE  /\ d \in Conn /\ d.task = c.task /\ d.snapshot = c.snapshot /\ d.queue = c.queue
         /\ \E s \in InOrder(ids) : d.wire = c.wire \o s
                                   /\ d.sent = IF ids = {} THEN c.sent ELSE Last(s)
         /\ LET ended == \E i \in ids : log[c.task][i] \in Ends
            IN  d.at = (IF ended THEN "done" ELSE c.at) /\ d.listens = (c.listens /\ ~ended)
<1> DEFINE ended == \E i \in ids : log[c.task][i] \in Ends
<1>1. PICK s \in InOrder(ids) :
        d = [c EXCEPT !.wire = @ \o s, !.sent = IF s = <<>> THEN @ ELSE Last(s),
                      !.at = IF ended THEN "done" ELSE @, !.listens = @ /\ ~ended]
  BY DEF Sent
<1>2. s \in Seq(Ids) /\ (s = <<>> <=> ids = {}) /\ (s # <<>> => Last(s) \in ids)
  BY InOrderIds
<1>3. /\ c.at \in {"none", "reading", "read", "live", "done"} /\ c.listens \in BOOLEAN
      /\ c.sent \in 0 .. MaxLog /\ c.wire \in Seq(Ids)
      /\ c.task \in Tasks \cup {NoTask} /\ c.snapshot \in SUBSET Ids /\ c.queue \in SUBSET Ids
  BY DEF Conn
<1>4. c.wire \o s \in Seq(Ids)
  BY <1>2, <1>3
<1>5. Ids \subseteq 0 .. MaxLog
  BY NumbersOfBounds DEF Ids
<1> HIDE DEF ended
<1>6. ended \in BOOLEAN
  BY DEF ended
<1>7. d = [at |-> IF ended THEN "done" ELSE c.at, task |-> c.task, snapshot |-> c.snapshot,
           queue |-> c.queue, sent |-> IF s = <<>> THEN c.sent ELSE Last(s),
           listens |-> c.listens /\ ~ended, wire |-> c.wire \o s]
  BY <1>1 DEF Conn
<1>8. d \in Conn
  <2>1. (IF s = <<>> THEN c.sent ELSE Last(s)) \in 0 .. MaxLog
    BY <1>2, <1>3, <1>5
  <2>2. (c.listens /\ ~ended) \in BOOLEAN
    OBVIOUS
  <2>3. (IF ended THEN "done" ELSE c.at) \in {"none", "reading", "read", "live", "done"}
    BY <1>3
  <2> QED
    BY <1>3, <1>4, <1>7, <2>1, <2>2, <2>3 DEF Conn
<1>9. d.wire = c.wire \o s /\ d.sent = IF ids = {} THEN c.sent ELSE Last(s)
  BY <1>2, <1>7
<1>10. d.at = (IF ended THEN "done" ELSE c.at) /\ d.listens = (c.listens /\ ~ended)
  BY <1>7
<1>11. d.task = c.task /\ d.snapshot = c.snapshot /\ d.queue = c.queue
  BY <1>7
<1> QED
  BY <1>8, <1>9, <1>10, <1>11 DEF ended

-----------------------------------------------------------------------------
(* What the user does, and the answers.                                    *)

ScreenInv == ScreenTyped /\ Linked /\ LiveTaskIsFollowed /\ StreamOK(sub, conn, seen)

IsStore(st) ==
  /\ st = [task |-> st.task, status |-> st.status, text |-> st.text]
  /\ st.task \in Tasks \cup {NoTask}

\* A change of the store alone.
LEMMA ShowsStep ==
  ASSUME Inv, NEW st, IsStore(st), NEW mo \in BOOLEAN, Shows(st, mo), UNCHANGED <<log, posting>>
  PROVE  ScreenInv' /\ store' = st
<1>1. /\ mounted \in BOOLEAN /\ sub \in Sub /\ conn \in Conn /\ seen \in Seen
      /\ StreamOK(sub, conn, seen)
  BY DEF Inv, Types, ScreenTyped
<1>2. Rendered(st, mo, sub, conn, seen)
  BY DEF Shows
<1>3. Fits(st, sub, conn, seen)
  BY DEF Fits, Inv, Linked, LiveTaskIsFollowed
<1>4. ScreenTyped' /\ store' = st
  BY <1>1, <1>2, RenderedTypes DEF IsStore
<1>5. Linked' /\ LiveTaskIsFollowed' /\ StreamOK(sub, conn, seen)'
  BY <1>1, <1>2, <1>3, ScreenStep DEF IsStore
<1> QED
  BY <1>4, <1>5 DEF ScreenInv

\* A handler that closes the subscription and shows a task at rest.
LEMMA DropsStep ==
  ASSUME Inv, NEW st, IsStore(st), st.status \notin Active, NEW mo \in BOOLEAN,
         Rendered(st, mo, NoSub, NoConn, seen), UNCHANGED <<log, posting>>
  PROVE  ScreenInv' /\ store' = st
<1>1. mounted \in BOOLEAN /\ seen \in Seen /\ StreamOK(sub, conn, seen)
  BY DEF Inv, Types, ScreenTyped
<1>2. NoSub \in Sub /\ NoConn \in Conn
  BY FreshTypes
<1>3. Fits(st, NoSub, NoConn, seen)
  BY DEF Fits, NoSub, NoConn
<1>4. StreamOK(NoSub, NoConn, seen)
  BY <1>1 DEF StreamOK, Ordered, SeenGaps, WireGaps, Covered, NoSub, NoConn
<1>5. ScreenTyped' /\ store' = st
  BY <1>1, <1>2, RenderedTypes DEF IsStore
<1>6. Linked' /\ LiveTaskIsFollowed' /\ StreamOK(sub, conn, seen)'
  BY <1>1, <1>3, <1>4, ScreenStep DEF IsStore
<1> QED
  BY <1>5, <1>6 DEF ScreenInv

\* The screen stays as it is, and so do the logs.
LEMMA SameScreen ==
  ASSUME Inv, UNCHANGED <<screenVars, log, posting>>
  PROVE  ScreenInv' /\ store' = store
<1>1. UNCHANGED <<conn, sub, seen, store, mounted>>
  BY DEF screenVars
<1>2. ScreenTyped' /\ Linked' /\ LiveTaskIsFollowed'
  BY <1>1 DEF Inv, Types, ScreenTyped, Linked, LiveTaskIsFollowed
<1>3. StreamOK(sub, conn, seen)'
  BY <1>1, KeptOK DEF Kept, Inv
<1> QED
  BY <1>1, <1>2, <1>3 DEF ScreenInv

\* What the API has stays as it is.
LEMMA SameApi ==
  ASSUME Inv, UNCHANGED apiVars
  PROVE  /\ ApiTyped' /\ Logs' /\ UNCHANGED <<log, posting>>
         /\ \A i \in DOMAIN created' : Known(created[i])'
         /\ \A t \in Tasks : Known(current[t])'
         /\ \A t : Known(t) => Known(t)'
<1>1. UNCHANGED <<created, root, current, log, posting>>
  BY DEF apiVars
<1> QED
  BY <1>1 DEF Inv, Types, ApiTyped, Logs, LogOK, AllKnown, Known

\* Only the status changes.
LEMMA StatusChange ==
  ASSUME NEW st, NEW a, NEW b, NEW c, st = [task |-> a, status |-> b, text |-> c], NEW status
  PROVE  [st EXCEPT !.status = status] = [task |-> a, status |-> status, text |-> c]
OBVIOUS

\* A record that has the fields of the store.
LEMMA StoreRecord ==
  ASSUME NEW st, NEW a \in Tasks \cup {NoTask}, NEW b, NEW c, st = [task |-> a, status |-> b, text |-> c]
  PROVE  IsStore(st) /\ st.task = a /\ st.status = b
<1>1. st = [task |-> st.task, status |-> st.status, text |-> st.text] /\ st.task = a /\ st.status = b
  OBVIOUS
<1> QED
  BY <1>1 DEF IsStore

\* The store's changes are stores.
LEMMA StoreChanges ==
  ASSUME Inv
  PROVE  /\ IsStore(store) /\ Known(store.task) /\ Known(NoTask)
         /\ \A status : IsStore([store EXCEPT !.status = status])
                        /\ [store EXCEPT !.status = status].task = store.task
                        /\ [store EXCEPT !.status = status].status = status
         /\ \A t \in Tasks \cup {NoTask} : \A status :
              IsStore([store EXCEPT !.task = t, !.status = status])
              /\ [store EXCEPT !.task = t, !.status = status].task = t
         /\ IsStore(EmptyStore) /\ EmptyStore.task = NoTask
         /\ \A status : IsStore([EmptyStore EXCEPT !.status = status])
                        /\ [EmptyStore EXCEPT !.status = status].task = NoTask
<1>1. store = [task |-> store.task, status |-> store.status, text |-> store.text]
  BY DEF Inv, Types, ScreenTyped
<1>2. Known(store.task) /\ store.task \in Tasks \cup {NoTask} /\ Known(NoTask)
  BY KnownType DEF Inv, AllKnown, Known
<1>3. PICK a, b, c : store = [task |-> a, status |-> b, text |-> c]
  BY <1>1
<1>4. a \in Tasks \cup {NoTask} /\ store.task = a
  BY <1>2, <1>3
<1>8. IsStore(store)
  BY <1>1, <1>2 DEF IsStore
<1>9. EmptyStore = [task |-> NoTask, status |-> "none", text |-> NoText]
  BY DEF EmptyStore
<1>10. IsStore(EmptyStore) /\ EmptyStore.task = NoTask
  BY <1>9, StoreRecord
<1>11. ASSUME NEW status
       PROVE  /\ IsStore([store EXCEPT !.status = status])
              /\ [store EXCEPT !.status = status].task = store.task
              /\ [store EXCEPT !.status = status].status = status
  <2> DEFINE st == [store EXCEPT !.status = status]
  <2>1. st = [task |-> a, status |-> status, text |-> c]
    BY <1>3, StatusChange
  <2> HIDE DEF st
  <2>2. IsStore(st) /\ st.task = a /\ st.status = status
    BY <1>4, <2>1, StoreRecord
  <2> QED
    BY <1>4, <2>2 DEF st
<1>12. ASSUME NEW t \in Tasks \cup {NoTask}, NEW status
       PROVE  /\ IsStore([store EXCEPT !.task = t, !.status = status])
              /\ [store EXCEPT !.task = t, !.status = status].task = t
  <2> DEFINE moved == [store EXCEPT !.task = t]
             st    == [store EXCEPT !.task = t, !.status = status]
  <2>1. moved = [task |-> t, status |-> b, text |-> c]
    BY <1>3
  <2>2. st = [moved EXCEPT !.status = status]
    OBVIOUS
  <2> HIDE DEF moved, st
  <2>3. st = [task |-> t, status |-> status, text |-> c]
    BY <2>1, <2>2, StatusChange
  <2>4. IsStore(st) /\ st.task = t
    BY <2>3, StoreRecord
  <2> QED
    BY <2>4 DEF st
<1>13. ASSUME NEW status
       PROVE  /\ IsStore([EmptyStore EXCEPT !.status = status])
              /\ [EmptyStore EXCEPT !.status = status].task = NoTask
  <2> DEFINE st == [EmptyStore EXCEPT !.status = status]
  <2>1. st = [task |-> NoTask, status |-> status, text |-> NoText]
    BY <1>9, StatusChange
  <2> HIDE DEF st
  <2>2. IsStore(st) /\ st.task = NoTask
    BY <2>1, StoreRecord
  <2> QED
    BY <2>2 DEF st
<1> QED
  BY <1>2, <1>8, <1>10, <1>11, <1>12, <1>13

\* A request for a task.
LEMMA AskTypes ==
  ASSUME Inv, NEW parent, Known(parent), AsksFor(parent)
  PROVE  /\ AskTyped' /\ UNCHANGED apiVars /\ news' = news
         /\ \A a \in asks' : Known(a.parent)' /\ (a.at = "created" => Known(a.task)')
<1>1. /\ asked < N /\ asked' = asked + 1 /\ UNCHANGED apiVars /\ news' = news
      /\ asks' = asks \cup {[task |-> asked + 1, parent |-> parent, at |-> "asked"]}
  BY DEF AsksFor
<1>2. asked + 1 \in Tasks /\ asked + 1 \in 0 .. N /\ parent \in Tasks \cup {NoTask}
  BY <1>1, NumbersOfBounds, KnownType DEF Inv, Types, AskTyped, Tasks
<1>3. AskTyped'
  BY <1>1, <1>2 DEF Inv, Types, AskTyped, Ask
<1>4. \A t : Known(t) => Known(t)'
  BY <1>1, SameApi
<1>5. \A a \in asks' : Known(a.parent) /\ (a.at = "created" => Known(a.task))
  BY <1>1 DEF Inv, AllKnown
<1> QED
  BY <1>1, <1>3, <1>4, <1>5

\* The parts of the invariant, where the API has not moved.
LEMMA InvParts ==
  ASSUME Inv, UNCHANGED apiVars, ScreenInv', AskTyped', Known(store.task)', Known(news.task)',
         \A a \in asks' : Known(a.parent)' /\ (a.at = "created" => Known(a.task)')
  PROVE  Inv'
<1>1. /\ ApiTyped' /\ Logs'
      /\ \A i \in DOMAIN created' : Known(created[i])'
      /\ \A t \in Tasks : Known(current[t])'
  BY SameApi
<1> QED
  BY <1>1 DEF Inv, Types, AllKnown, ScreenInv

\* The requests and the answer on its way stay.
LEMMA SameAsks ==
  ASSUME Inv, UNCHANGED apiVars, asks' \subseteq asks, asked' = asked
  PROVE  /\ AskTyped'
         /\ \A a \in asks' : Known(a.parent)' /\ (a.at = "created" => Known(a.task)')
<1>1. \A t : Known(t) => Known(t)'
  BY SameApi
<1>2. \A a \in asks' : Known(a.parent) /\ (a.at = "created" => Known(a.task))
  BY DEF Inv, AllKnown
<1> QED
  BY <1>1, <1>2 DEF Inv, Types, AskTyped

\* Some places have a last one.
LEMMA LastPlace ==
  ASSUME NEW n \in Nat, NEW S, S \subseteq 1 .. n, S # {}
  PROVE  Max(S) \in S
<1> DEFINE R == {ss \in Nat \X Nat : ss[1] < ss[2]}
           T == {n - i : i \in S}
<1>1. IsWellFoundedOn(R, Nat)
  BY NatLessThanWellFounded DEF OpToRel
<1>2. T \subseteq Nat /\ T # {}
  <2>1. \A i \in S : n - i \in Nat
    OBVIOUS
  <2> QED
    BY <2>1
<1>3. PICK x \in T : \A y \in T : <<y, x>> \notin R
  <2> HIDE DEF R, T
  <2> QED
    BY <1>1, <1>2, WFMin, Zenon
<1>4. PICK m \in S : x = n - m
  BY <1>3
<1>5. \A k \in S : m >= k
  <2> SUFFICES ASSUME NEW k \in S PROVE m >= k
    OBVIOUS
  <2>1. n - k \in T /\ n - k \in Nat /\ x \in Nat
    BY <1>2, <1>3
  <2>2. ~(n - k < x)
    BY <1>3, <2>1
  <2> QED
    BY <1>4, <2>2
<1> QED
  BY <1>5 DEF Max

\* What the API answers is about tasks that have rows.
LEMMA AnswersAreKnown ==
  ASSUME Inv
  PROVE  /\ Known(NewestActive.task)
         /\ \A t \in Tasks : Known(t) => Known(Detail(t).task)
         /\ \A t \in ToSet(created) : Known(Detail(t).task)
         /\ Known(NoNews.task)
<1>1. Known(NewestActive.task)
  <2> DEFINE up == {i \in DOMAIN created : Status(created[i]) \in Active}
  <2>1. CASE up = {}
    BY <2>1 DEF NewestActive, NoNews, Known
  <2>2. CASE up # {}
    <3>1. created \in Seq(Tasks) /\ Len(created) \in Nat /\ up \subseteq 1 .. Len(created)
      BY DEF Inv, Types, ApiTyped
    <3> HIDE DEF up
    <3>2. Max(up) \in up
      BY <2>2, <3>1, LastPlace
    <3>3. Known(Latest(up))
      BY <3>2 DEF Latest, Inv, AllKnown, up
    <3>4. NewestActive.task = Latest(up)
      BY <2>2 DEF NewestActive, NoNews, up
    <3> QED
      BY <3>3, <3>4
  <2> QED
    BY <2>1, <2>2
<1>2. ASSUME NEW t \in Tasks, Known(t) PROVE Known(Detail(t).task)
  <2>1. t # NoTask
    BY NumbersOfBounds DEF NoTask
  <2>2. root[t] \in Tasks
    BY <1>2, <2>1 DEF Known
  <2>3. Detail(t).task = current[root[t]]
    BY DEF Detail
  <2> QED
    BY <2>2, <2>3 DEF Inv, AllKnown
<1>3. ASSUME NEW t \in ToSet(created) PROVE Known(Detail(t).task)
  <2>1. PICK i \in DOMAIN created : t = created[i]
    BY DEF ToSet
  <2>2. created \in Seq(Tasks) /\ Len(created) \in Nat
    BY DEF Inv, Types, ApiTyped
  <2>3. i \in 1 .. Len(created)
    BY <2>1, <2>2
  <2>4. t \in Tasks
    BY <2>1, <2>2, <2>3
  <2>5. Known(t)
    BY <2>1 DEF Inv, AllKnown
  <2> QED
    BY <1>2, <2>4, <2>5
<1>4. Known(NoNews.task)
  BY DEF Known, NoNews
<1> QED
  BY <1>1, <1>2, <1>3, <1>4

\* A user's action that asks for nothing.
LEMMA UserInv ==
  ASSUME Inv, UserStep
  PROVE  Inv'
<1> USE SameApi, StoreChanges
<1>a. TRUE \in BOOLEAN /\ FALSE \in BOOLEAN
  OBVIOUS
<1>1. CASE Start
  <2>1. AsksFor(NoTask) /\ Shows([EmptyStore EXCEPT !.status = "queued"], TRUE)
    BY <1>1 DEF Start
  <2>2. /\ AskTyped' /\ UNCHANGED apiVars /\ news' = news
        /\ \A a \in asks' : Known(a.parent)' /\ (a.at = "created" => Known(a.task)')
    BY <2>1, AskTypes
  <2>3. ScreenInv' /\ store' = [EmptyStore EXCEPT !.status = "queued"]
    BY <1>a, <2>1, <2>2, ShowsStep
  <2>4. Known(store.task)' /\ Known(news.task)'
    BY <2>2, <2>3 DEF Known, Inv, AllKnown, apiVars
  <2> QED
    BY <2>2, <2>3, <2>4, InvParts
<1>2. CASE SendMessage
  <2>1. AsksFor(store.task) /\ Shows(AppendFollowUp, TRUE)
    BY <1>2 DEF SendMessage
  <2>2. /\ AskTyped' /\ UNCHANGED apiVars /\ news' = news
        /\ \A a \in asks' : Known(a.parent)' /\ (a.at = "created" => Known(a.task)')
    BY <2>1, AskTypes
  <2>3. IsStore(AppendFollowUp) /\ AppendFollowUp.task = NoTask
    BY DEF AppendFollowUp
  <2>4. ScreenInv' /\ store' = AppendFollowUp
    BY <1>a, <2>1, <2>2, <2>3, ShowsStep
  <2>5. Known(store.task)' /\ Known(news.task)'
    BY <2>2, <2>3, <2>4 DEF Known, Inv, AllKnown, apiVars
  <2> QED
    BY <2>2, <2>4, <2>5, InvParts
<1>3. CASE RetryTask
  <2>1. AsksFor(store.task) /\ Shows([store EXCEPT !.status = "queued"], TRUE)
    BY <1>3 DEF RetryTask
  <2>2. /\ AskTyped' /\ UNCHANGED apiVars /\ news' = news
        /\ \A a \in asks' : Known(a.parent)' /\ (a.at = "created" => Known(a.task)')
    BY <2>1, AskTypes
  <2>3. ScreenInv' /\ store' = [store EXCEPT !.status = "queued"]
    BY <1>a, <2>1, <2>2, ShowsStep
  <2>4. Known(store.task)' /\ Known(news.task)'
    BY <2>2, <2>3 DEF Known, Inv, AllKnown, apiVars
  <2> QED
    BY <2>2, <2>3, <2>4, InvParts
<1>4. CASE CancelCurrentTask
  <2>1. UNCHANGED apiVars /\ UNCHANGED screenVars /\ UNCHANGED <<asks, news, asked>>
    BY <1>4 DEF CancelCurrentTask
  <2>2. ScreenInv' /\ store' = store
    BY <2>1, SameScreen
  <2>3. /\ AskTyped'
        /\ \A a \in asks' : Known(a.parent)' /\ (a.at = "created" => Known(a.task)')
    BY <2>1, SameAsks
  <2>4. Known(store.task)' /\ Known(news.task)'
    BY <2>1, <2>2 DEF Known, Inv, AllKnown, apiVars
  <2> QED
    BY <2>1, <2>2, <2>3, <2>4, InvParts
<1>5. CASE Leave
  <2>1. UNCHANGED apiVars /\ Shows(store, FALSE) /\ UNCHANGED <<asks, news, asked>>
    BY <1>5 DEF Leave, askVars
  <2>2. ScreenInv' /\ store' = store
    BY <1>a, <2>1, ShowsStep
  <2>3. /\ AskTyped'
        /\ \A a \in asks' : Known(a.parent)' /\ (a.at = "created" => Known(a.task)')
    BY <2>1, SameAsks
  <2>4. Known(store.task)' /\ Known(news.task)'
    BY <2>1, <2>2 DEF Known, Inv, AllKnown, apiVars
  <2> QED
    BY <2>1, <2>2, <2>3, <2>4, InvParts
<1>6. CASE Foreground \/ OpenConversation
  <2>1. UNCHANGED apiVars /\ UNCHANGED screenVars /\ UNCHANGED <<asks, asked>>
    BY <1>6 DEF Foreground, OpenConversation
  <2>2. ScreenInv' /\ store' = store
    BY <2>1, SameScreen
  <2>3. /\ AskTyped'
        /\ \A a \in asks' : Known(a.parent)' /\ (a.at = "created" => Known(a.task)')
    BY <2>1, SameAsks
  <2>4. Known(news'.task)
    <3>1. CASE Foreground
      BY <3>1, AnswersAreKnown DEF Foreground
    <3>2. CASE OpenConversation
      <4>1. PICK t \in ToSet(created) : news' = Detail(t)
        BY <3>2 DEF OpenConversation
      <4> QED
        BY <4>1, AnswersAreKnown
    <3> QED
      BY <1>6, <3>1, <3>2
  <2>5. Known(store.task)' /\ Known(news.task)'
    BY <2>1, <2>2, <2>4 DEF Known, Inv, AllKnown, apiVars
  <2> QED
    BY <2>1, <2>2, <2>3, <2>5, InvParts
<1>7. CASE SignOut
  <2>1. UNCHANGED apiVars /\ Shows(EmptyStore, FALSE) /\ news' = NoNews /\ UNCHANGED <<asks, asked>>
    BY <1>7 DEF SignOut
  <2>2. ScreenInv' /\ store' = EmptyStore
    BY <1>a, <2>1, ShowsStep
  <2>3. /\ AskTyped'
        /\ \A a \in asks' : Known(a.parent)' /\ (a.at = "created" => Known(a.task)')
    BY <2>1, SameAsks
  <2>4. Known(store.task)' /\ Known(news.task)'
    BY <2>1, <2>2, AnswersAreKnown DEF Known, apiVars
  <2> QED
    BY <2>1, <2>2, <2>3, <2>4, InvParts
<1> QED
  BY <1>1, <1>2, <1>3, <1>4, <1>5, <1>6, <1>7 DEF UserStep

\* The row of a task is inserted.
LEMMA CreateInv ==
  ASSUME Inv, NEW a \in asks, Create(a)
  PROVE  Inv'
<1>1. /\ a.at = "asked" /\ created' = Append(created, a.task)
      /\ root' = [root EXCEPT ![a.task] = IF a.parent = NoTask THEN a.task ELSE root[a.parent]]
      /\ current' = [current EXCEPT ![root'[a.task]] = a.task]
      /\ asks' = (asks \ {a}) \cup {[a EXCEPT !.at = "created"]}
      /\ UNCHANGED <<log, posting>> /\ UNCHANGED screenVars /\ news' = news /\ asked' = asked
  BY DEF Create
<1>2. /\ a \in Ask /\ a.task \in Tasks /\ Known(a.parent)
      /\ created \in Seq(Tasks) /\ root \in [Tasks -> Tasks \cup {NoTask}]
      /\ current \in [Tasks -> Tasks \cup {NoTask}]
  BY DEF Inv, Types, ApiTyped, AskTyped, Ask, AllKnown
<1> DEFINE home == IF a.parent = NoTask THEN a.task ELSE root[a.parent]
           new  == [a EXCEPT !.at = "created"]
<1>3. home \in Tasks
  BY <1>2 DEF Known
<1>4. new \in Ask /\ new.task = a.task /\ new.parent = a.parent
  BY <1>2 DEF Ask
<1> HIDE DEF home, new
<1>5. /\ root' \in [Tasks -> Tasks \cup {NoTask}] /\ root'[a.task] = home
      /\ \A u \in Tasks : u # a.task => root'[u] = root[u]
  BY <1>1, <1>2, <1>3 DEF home
<1>6. \A u \in Tasks : root[u] \in Tasks => root'[u] \in Tasks
  BY <1>3, <1>5
<1>7. /\ current' \in [Tasks -> Tasks \cup {NoTask}]
      /\ \A u \in Tasks : current'[u] \in {a.task, current[u]}
  BY <1>1, <1>2, <1>3, <1>5
<1>8. /\ created' \in Seq(Tasks)
      /\ \A i \in DOMAIN created' : \/ created'[i] = a.task
                                    \/ i \in DOMAIN created /\ created'[i] = created[i]
  BY <1>1, <1>2
<1>9. Known(a.task)'
  BY <1>2, <1>3, <1>5 DEF Known
<1>10. \A t : Known(t) => Known(t)'
  BY <1>6, KnownStays
<1>11. ScreenInv' /\ store' = store
  BY <1>1, SameScreen
<1>12. ApiTyped' /\ Logs'
  BY <1>1, <1>5, <1>7, <1>8 DEF Inv, Types, ApiTyped, Logs, LogOK
<1>13. AskTyped'
  BY <1>1, <1>4 DEF Inv, Types, AskTyped, new
<1>14. AllKnown'
  <2>1. \A i \in DOMAIN created' : Known(created[i])'
    BY <1>6, <1>8, <1>9 DEF Inv, AllKnown, Known
  <2>2. \A t \in Tasks : Known(current[t])'
    BY <1>6, <1>7, <1>9 DEF Inv, AllKnown, Known
  <2>3. \A b \in asks' : Known(b.parent)' /\ (b.at = "created" => Known(b.task)')
    <3> SUFFICES ASSUME NEW b \in asks'
                 PROVE  Known(b.parent)' /\ (b.at = "created" => Known(b.task)')
      OBVIOUS
    <3>1. CASE b = new
      BY <1>2, <1>4, <1>9, <1>10, <3>1
    <3>2. CASE b # new
      <4>1. b \in asks
        BY <1>1, <3>2 DEF new
      <4>2. Known(b.parent) /\ (b.at = "created" => Known(b.task))
        BY <4>1 DEF Inv, AllKnown
      <4> QED
        BY <1>10, <4>2
    <3> QED
      BY <3>1, <3>2
  <2>4. Known(store.task)' /\ Known(news.task)'
    <3>1. Known(store.task) /\ Known(news.task)
      BY DEF Inv, AllKnown
    <3> QED
      BY <1>1, <1>6, <1>11, <3>1 DEF Known
  <2> QED
    BY <2>1, <2>2, <2>3, <2>4 DEF AllKnown
<1> QED
  BY <1>11, <1>12, <1>13, <1>14 DEF Inv, Types, ScreenInv

\* An answer comes.
LEMMA AnswerInv ==
  ASSUME Inv, AnswerStep
  PROVE  Inv'
<1> USE SameApi, StoreChanges
<1>a. mounted \in BOOLEAN /\ TRUE \in BOOLEAN
  BY DEF Inv, Types, ScreenTyped
<1>1. CASE \E a \in asks : Create(a)
  BY <1>1, CreateInv
<1>2. ASSUME NEW a \in asks, TaskAnswered(a) PROVE Inv'
  <2>1. PICK st : /\ Shows([store EXCEPT !.task = a.task, !.status = st], mounted)
                  /\ UNCHANGED apiVars /\ asks' \subseteq asks /\ news' = news /\ asked' = asked
                  /\ a.at = "created"
    BY <1>2 DEF TaskAnswered
  <2> DEFINE new == [store EXCEPT !.task = a.task, !.status = st]
  <2>2. Known(a.task) /\ a.task \in Tasks \cup {NoTask}
    BY <2>1, KnownType DEF Inv, AllKnown
  <2>3. IsStore(new) /\ new.task = a.task
    BY <2>2
  <2> HIDE DEF new
  <2>4. ScreenInv' /\ store' = new
    BY <1>a, <2>1, <2>3, ShowsStep DEF new
  <2>5. /\ AskTyped'
        /\ \A b \in asks' : Known(b.parent)' /\ (b.at = "created" => Known(b.task)')
    BY <2>1, SameAsks
  <2>6. Known(store.task)' /\ Known(news.task)'
    BY <2>1, <2>2, <2>3, <2>4 DEF Known, Inv, AllKnown, apiVars
  <2> QED
    BY <2>1, <2>4, <2>5, <2>6, InvParts
<1>3. ASSUME Shows(SetTaskError, mounted), UNCHANGED apiVars, asks' \subseteq asks,
             asked' = asked, news' = news
      PROVE  Inv'
  <2>1. IsStore(SetTaskError) /\ SetTaskError.task = store.task
    BY DEF SetTaskError
  <2>2. ScreenInv' /\ store' = SetTaskError
    BY <1>a, <1>3, <2>1, ShowsStep
  <2>3. /\ AskTyped'
        /\ \A b \in asks' : Known(b.parent)' /\ (b.at = "created" => Known(b.task)')
    BY <1>3, SameAsks
  <2>4. Known(store.task)' /\ Known(news.task)'
    BY <1>3, <2>1, <2>2 DEF Known, Inv, AllKnown, apiVars
  <2> QED
    BY <1>3, <2>2, <2>3, <2>4, InvParts
<1>4. CASE \E a \in asks : TaskRefused(a)
  BY <1>3, <1>4 DEF TaskRefused
<1>5. CASE \E t \in Tasks : CancelRefused(t)
  BY <1>3, <1>5 DEF CancelRefused
<1>6. ASSUME NEW t \in Tasks, CancelAnswered(t) PROVE Inv'
  <2> DEFINE new == [store EXCEPT !.status = "cancelled"]
  <2>1. /\ Rendered(new, mounted, NoSub, NoConn, seen)
        /\ UNCHANGED apiVars /\ asks' = asks /\ news' = news /\ asked' = asked
    BY <1>6 DEF CancelAnswered
  <2>2. IsStore(new) /\ new.task = store.task /\ new.status = "cancelled"
    OBVIOUS
  <2> HIDE DEF new
  <2>a. new.status \notin Active
    BY <2>2 DEF Active
  <2>3. ScreenInv' /\ store' = new
    BY <1>a, <2>1, <2>2, <2>a, DropsStep
  <2>4. /\ AskTyped'
        /\ \A b \in asks' : Known(b.parent)' /\ (b.at = "created" => Known(b.task)')
    BY <2>1, SameAsks
  <2>5. Known(store.task)' /\ Known(news.task)'
    BY <2>1, <2>2, <2>3 DEF Known, Inv, AllKnown, apiVars
  <2> QED
    BY <2>1, <2>3, <2>4, <2>5, InvParts
<1>7. ASSUME NewsOfActive, news.task # NoTask PROVE Inv'
  <2> DEFINE new == RecoverActiveTask(news.task, news.status)
  <2>1. /\ Shows(new, TRUE) /\ news' = NoNews
        /\ UNCHANGED apiVars /\ asks' = asks /\ asked' = asked
    BY <1>7 DEF NewsOfActive
  <2>2. Known(news.task) /\ news.task \in Tasks \cup {NoTask}
    BY KnownType DEF Inv, AllKnown
  <2>3. IsStore(new) /\ Known(new.task)
    <3>1. CASE news.task = store.task
      BY <3>1 DEF RecoverActiveTask
    <3>2. CASE news.task # store.task
      <4>1. new = [task |-> news.task, status |-> news.status, text |-> NoText]
        BY <3>2 DEF RecoverActiveTask
      <4> HIDE DEF new
      <4>2. IsStore(new) /\ new.task = news.task
        BY <2>2, <4>1, StoreRecord
      <4> QED
        BY <2>2, <4>2
    <3> QED
      BY <3>1, <3>2
  <2> HIDE DEF new
  <2>4. ScreenInv' /\ store' = new
    BY <1>a, <2>1, <2>3, ShowsStep
  <2>5. /\ AskTyped'
        /\ \A b \in asks' : Known(b.parent)' /\ (b.at = "created" => Known(b.task)')
    BY <2>1, SameAsks
  <2>6. Known(store.task)' /\ Known(news.task)'
    BY <2>1, <2>3, <2>4, AnswersAreKnown DEF Known, apiVars
  <2> QED
    BY <2>1, <2>4, <2>5, <2>6, InvParts
<1>8. ASSUME NewsOfActive, news.task = NoTask PROVE Inv'
  <2>1. /\ news' = IF store.task = NoTask THEN NoNews ELSE Detail(store.task)
        /\ UNCHANGED screenVars
        /\ UNCHANGED apiVars /\ asks' = asks /\ asked' = asked
    BY <1>8 DEF NewsOfActive
  <2>2. ScreenInv' /\ store' = store
    BY <2>1, SameScreen
  <2>3. Known(news'.task)
    <3>1. store.task # NoTask => store.task \in Tasks /\ Known(store.task)
      BY DEF Known
    <3> QED
      BY <2>1, <3>1, AnswersAreKnown
  <2>4. /\ AskTyped'
        /\ \A b \in asks' : Known(b.parent)' /\ (b.at = "created" => Known(b.task)')
    BY <2>1, SameAsks
  <2>5. Known(store.task)' /\ Known(news.task)'
    BY <2>1, <2>2, <2>3 DEF Known, apiVars
  <2> QED
    BY <2>1, <2>2, <2>4, <2>5, InvParts
<1>9. CASE NewsOfDetail
  <2> DEFINE new == [task |-> news.task, status |-> news.status, text |-> news.text]
  <2>1. /\ Shows(new, TRUE) /\ news' = NoNews
        /\ UNCHANGED apiVars /\ asks' = asks /\ asked' = asked
    BY <1>9 DEF NewsOfDetail
  <2>2. Known(news.task) /\ news.task \in Tasks \cup {NoTask}
    BY KnownType DEF Inv, AllKnown
  <2>3. new = [task |-> news.task, status |-> news.status, text |-> news.text]
    OBVIOUS
  <2> HIDE DEF new
  <2>4. IsStore(new) /\ new.task = news.task
    BY <2>2, <2>3, StoreRecord
  <2>5. ScreenInv' /\ store' = new
    BY <1>a, <2>1, <2>4, ShowsStep
  <2>6. /\ AskTyped'
        /\ \A b \in asks' : Known(b.parent)' /\ (b.at = "created" => Known(b.task)')
    BY <2>1, SameAsks
  <2>7. Known(store.task)' /\ Known(news.task)'
    BY <2>1, <2>2, <2>4, <2>5, AnswersAreKnown DEF Known, apiVars
  <2> QED
    BY <2>1, <2>5, <2>6, <2>7, InvParts
<1> QED
  BY <1>1, <1>2, <1>4, <1>5, <1>6, <1>7, <1>8, <1>9 DEF AnswerStep

-----------------------------------------------------------------------------
(* Events are stored.                                                      *)

\* What was committed stays, and only an end can appear among it; all else gets
\* an id above.
LogGrows(t) ==
  /\ Committed(t) \subseteq Committed(t)'
  /\ \A i \in Committed(t) : log'[t][i] = log[t][i]
  /\ \A i \in Committed(t)' : i \in Committed(t) \/ log'[t][i] \in Failing \/ i \notin DOMAIN log[t]

LogsGrow == ApiTyped /\ ApiTyped' /\ \A t \in Tasks : LogGrows(t)

\* So no gap opens behind what was sent.
LEMMA NoGapStays ==
  ASSUME LogsGrow, NEW t \in Tasks, NEW sent, NEW last \in Committed(t), NoGap(t, last, sent)
  PROVE  NoGap(t, last, sent)'
<1> SUFFICES ASSUME NEW i \in Committed(t)', i < last, i \notin sent
             PROVE  log'[t][i] \in Failing \/ (log'[t][last] \in Failing /\ i = last - 1)
  BY DEF NoGap
<1>1. /\ log'[t][last] = log[t][last]
      /\ i \in Committed(t) \/ log'[t][i] \in Failing \/ i \notin DOMAIN log[t]
      /\ i \in Committed(t) => log'[t][i] = log[t][i]
  BY DEF LogsGrow, LogGrows
<1>2. last \in 1 .. Len(log[t]) /\ Len(log[t]) \in Nat /\ DOMAIN log[t] = 1 .. Len(log[t])
  BY CommittedIds, NumbersOfBounds DEF LogsGrow
<1>3. i \in DOMAIN log'[t]
  BY DEF Committed
<1>4. log'[t] \in Seq(EventType)
  BY DEF LogsGrow, ApiTyped
<1>5. i \in Nat \ {0}
  BY <1>3, <1>4
<1>6. i \in DOMAIN log[t]
  BY <1>2, <1>5
<1>7. CASE i \in Committed(t)
  <2>1. log[t][i] \in Failing \/ (log[t][last] \in Failing /\ i = last - 1)
    BY <1>7 DEF NoGap
  <2> QED
    BY <1>1, <1>7, <2>1
<1> QED
  BY <1>1, <1>6, <1>7

\* What was handed over has no gaps, whoever closes the subscription meanwhile.
LEMMA SeenGapsStay ==
  ASSUME LogsGrow, NEW su, NEW se, SeenGaps(su, se), NEW after,
         after.task # NoTask => su.task # NoTask
  PROVE  SeenGaps(after, se)'
<1> SUFFICES ASSUME se.ids # <<>>
             PROVE  /\ se.task \in Tasks /\ ToSet(se.ids) \subseteq Committed(se.task)'
                    /\ \A last \in ToSet(se.ids) : NoGap(se.task, last, ToSet(se.ids))'
                    /\ after.task # NoTask =>
                         \A i \in ToSet(se.ids) : log'[se.task][i] \notin Ends
  BY DEF SeenGaps
<1>1. /\ se.task \in Tasks /\ ToSet(se.ids) \subseteq Committed(se.task)
      /\ \A last \in ToSet(se.ids) : NoGap(se.task, last, ToSet(se.ids))
      /\ su.task # NoTask => \A i \in ToSet(se.ids) : log[se.task][i] \notin Ends
  BY DEF SeenGaps
<1>2. LogGrows(se.task)
  BY <1>1 DEF LogsGrow
<1>3. /\ ToSet(se.ids) \subseteq Committed(se.task)'
      /\ \A i \in ToSet(se.ids) : log'[se.task][i] = log[se.task][i]
  BY <1>1, <1>2 DEF LogGrows
<1>4. \A last \in ToSet(se.ids) : NoGap(se.task, last, ToSet(se.ids))'
  BY <1>1, NoGapStays
<1> QED
  BY <1>1, <1>3, <1>4

\* The same of the wire.
LEMMA WireGapsStay ==
  ASSUME LogsGrow, NEW co, co.at # "none" => co.task \in Tasks, NEW se, WireGaps(co, se)
  PROVE  WireGaps(co, se)'
<1> SUFFICES ASSUME co.at # "none"
             PROVE  /\ ToSet(co.wire) \subseteq Committed(co.task)'
                    /\ \A last \in ToSet(co.wire) :
                         NoGap(co.task, last, ToSet(se.ids) \cup ToSet(co.wire))'
                    /\ \A i \in ToSet(co.wire) : log'[co.task][i] \in Ends => co.at = "done"
  BY DEF WireGaps
<1>1. /\ co.task \in Tasks /\ ToSet(co.wire) \subseteq Committed(co.task)
      /\ \A last \in ToSet(co.wire) : NoGap(co.task, last, ToSet(se.ids) \cup ToSet(co.wire))
      /\ \A i \in ToSet(co.wire) : log[co.task][i] \in Ends => co.at = "done"
  BY DEF WireGaps
<1>2. LogGrows(co.task)
  BY <1>1 DEF LogsGrow
<1>3. /\ ToSet(co.wire) \subseteq Committed(co.task)'
      /\ \A i \in ToSet(co.wire) : log'[co.task][i] = log[co.task][i]
  BY <1>1, <1>2 DEF LogGrows
<1>4. \A last \in ToSet(co.wire) : NoGap(co.task, last, ToSet(se.ids) \cup ToSet(co.wire))'
  BY <1>1, NoGapStays
<1> QED
  BY <1>1, <1>3, <1>4

\* A connection is for a task.
LEMMA ConnHasTask ==
  ASSUME Inv
  PROVE  /\ conn.at # "none" => conn.task \in Tasks /\ conn.task = sub.task /\ seen.task = sub.task
         /\ sub.task # NoTask => sub.task \in Tasks
<1>1. sub.task \in Tasks \cup {NoTask}
  BY DEF Inv, Types, ScreenTyped, Sub
<1> QED
  BY <1>1 DEF Inv, Linked

\* A step that adds to the logs and leaves the screen alone.
LEMMA EventStepOK ==
  ASSUME Inv, LogsGrow, Logs', UNCHANGED <<created, root, screenVars, askVars>>,
         \A t \in Tasks : Known(current'[t]), Covered(conn)'
  PROVE  Inv'
<1>1. UNCHANGED <<conn, sub, seen, store, mounted, asks, news, asked>>
  BY DEF screenVars, askVars
<1>2. ScreenTyped' /\ Linked' /\ LiveTaskIsFollowed' /\ AskTyped'
  BY <1>1 DEF Inv, Types, ScreenTyped, Linked, LiveTaskIsFollowed, AskTyped
<1>3. AllKnown'
  BY <1>1 DEF Inv, AllKnown, Known
<1>4. SeenGaps(sub, seen)'
  <2>1. SeenGaps(sub, seen)
    BY DEF Inv, StreamOK
  <2>2. \A su, se : SeenGaps(su, se) => SeenGaps(su, se)'
    BY SeenGapsStay
  <2> QED
    BY <1>1, <2>1, <2>2 DEF SeenGaps
<1>5. WireGaps(conn, seen)'
  <2>1. WireGaps(conn, seen) /\ (conn.at # "none" => conn.task \in Tasks)
    BY ConnHasTask DEF Inv, StreamOK
  <2>2. \A co, se : (co.at # "none" => co.task \in Tasks) /\ WireGaps(co, se) => WireGaps(co, se)'
    BY WireGapsStay
  <2> QED
    BY <1>1, <2>1, <2>2 DEF WireGaps
<1>6. Ordered(sub, conn, seen)'
  BY <1>1 DEF Inv, StreamOK, Ordered
<1> QED
  BY <1>2, <1>3, <1>4, <1>5, <1>6 DEF Inv, Types, StreamOK, LogsGrow

\* A task whose log and posts stay.
LEMMA SameLog ==
  ASSUME ApiTyped, NEW t \in Tasks, log'[t] = log[t], posting'[t] = posting[t]
  PROVE  /\ Committed(t)' = Committed(t) /\ LogGrows(t)
         /\ LogOK(t) => LogOK(t)'
         /\ \A i : Posted(t, i)' <=> Posted(t, i)
         /\ EndPublished(t) => EndPublished(t)'
         /\ \A i : Missable(t, i) => Missable(t, i)'
<1>1. Committed(t)' = Committed(t)
  BY DEF Committed
<1>2. LogGrows(t)
  BY <1>1 DEF LogGrows
<1> QED
  BY <1>1, <1>2 DEF LogOK, Posted, EndPublished, EndIds, Missable

\* So a connection of another task is covered as before.
LEMMA OthersCovered ==
  ASSUME Inv, conn.at # "none" => log'[conn.task] = log[conn.task]
                                  /\ posting'[conn.task] = posting[conn.task],
         UNCHANGED conn
  PROVE  Covered(conn)'
<1> SUFFICES ASSUME conn.at \in {"reading", "read", "live"} PROVE Covered(conn)'
  BY DEF Covered
<1>1. Covered(conn) /\ conn.task \in Tasks /\ ApiTyped
  BY ConnHasTask DEF Inv, StreamOK, Types
<1>2. /\ Committed(conn.task)' = Committed(conn.task)
      /\ \A i : Posted(conn.task, i)' <=> Posted(conn.task, i)
      /\ EndPublished(conn.task) => EndPublished(conn.task)'
      /\ \A i : Missable(conn.task, i) => Missable(conn.task, i)'
  <2> DEFINE t == conn.task
  <2>1. \A u \in Tasks : log'[u] = log[u] /\ posting'[u] = posting[u] =>
          /\ Committed(u)' = Committed(u)
          /\ \A i : Posted(u, i)' <=> Posted(u, i)
          /\ EndPublished(u) => EndPublished(u)'
          /\ \A i : Missable(u, i) => Missable(u, i)'
    BY <1>1, SameLog
  <2> QED
    BY <1>1, <2>1 DEF Committed, Posted, EndPublished, EndIds, Missable
<1> QED
  BY <1>1, <1>2 DEF Covered

\* What an insert makes of the log of the task.
LEMMA InsertFacts ==
  ASSUME ApiTyped, NEW t \in Tasks, LogOK(t), NEW by \in {"relay", "other"},
         NEW e \in EventType \ {"void"}, Inserts(t, by, e),
         NEW n, n = Len(log[t])
  PROVE  /\ n \in Nat /\ DOMAIN log[t] = 1 .. n /\ DOMAIN log'[t] = 1 .. n + 1 /\ n + 1 <= MaxLog
         /\ Len(log'[t]) = n + 1
         /\ log'[t] \in Seq(EventType) /\ log'[t][n + 1] = e
         /\ \A i \in 1 .. n : log'[t][i] = log[t][i]
         /\ [id |-> n + 1, stored |-> by = "relay", by |-> by] \in Post
         /\ posting'[t] = posting[t] \cup {[id |-> n + 1, stored |-> by = "relay", by |-> by]}
         /\ \A u \in Tasks : u # t => log'[u] = log[u] /\ posting'[u] = posting[u]
         /\ DOMAIN log' = Tasks /\ DOMAIN posting' = Tasks
<1>1. /\ log' = [log EXCEPT ![t] = Append(@, e)]
      /\ posting' = [posting EXCEPT ![t] =
           @ \cup {[id |-> Len(log[t]) + 1, stored |-> by = "relay", by |-> by]}]
      /\ Len(log[t]) < LogBound(t)
  BY DEF Inserts
<1>2. /\ log \in [Tasks -> Seq(EventType)] /\ posting \in [Tasks -> SUBSET Post]
      /\ log[t] \in Seq(EventType)
  BY DEF ApiTyped
<1>3. n \in Nat /\ DOMAIN log[t] = 1 .. n
  BY <1>2
<1>4. n + 1 <= MaxLog
  BY <1>1, <1>3, BoundsAssumption DEF LogBound
<1>5. log'[t] = Append(log[t], e)
  BY <1>1, <1>2
<1>6. /\ Len(log'[t]) = n + 1 /\ DOMAIN log'[t] = 1 .. n + 1 /\ log'[t] \in Seq(EventType)
      /\ log'[t][n + 1] = e /\ \A i \in 1 .. n : log'[t][i] = log[t][i]
  BY <1>2, <1>3, <1>5
<1>7. [id |-> n + 1, stored |-> by = "relay", by |-> by] \in Post
  BY <1>3, <1>4, NumbersOfBounds DEF Post, Ids
<1>8. posting'[t] = posting[t] \cup {[id |-> n + 1, stored |-> by = "relay", by |-> by]}
  BY <1>1, <1>2
<1>9. \A u \in Tasks : u # t => log'[u] = log[u] /\ posting'[u] = posting[u]
  BY <1>1, <1>2
<1> QED
  BY <1>1, <1>2, <1>3, <1>4, <1>6, <1>7, <1>8, <1>9

\* The types after it.
LEMMA InsertTypes ==
  ASSUME ApiTyped, NEW t \in Tasks, LogOK(t), NEW by \in {"relay", "other"},
         NEW e \in EventType \ {"void"}, Inserts(t, by, e),
         current' \in [Tasks -> Tasks \cup {NoTask}]
  PROVE  ApiTyped'
<1> DEFINE n   == Len(log[t])
           new == [id |-> n + 1, stored |-> by = "relay", by |-> by]
<1>a. n = Len(log[t]) /\ new = [id |-> n + 1, stored |-> by = "relay", by |-> by]
  OBVIOUS
<1> HIDE DEF n, new
<1>1. /\ n \in Nat /\ n + 1 <= MaxLog /\ Len(log'[t]) = n + 1 /\ log'[t] \in Seq(EventType)
      /\ new \in Post /\ posting'[t] = posting[t] \cup {new}
      /\ \A u \in Tasks : u # t => log'[u] = log[u] /\ posting'[u] = posting[u]
  BY <1>a, InsertFacts
<1>2. /\ log' = [log EXCEPT ![t] = Append(@, e)]
      /\ posting' = [posting EXCEPT ![t] = @ \cup {new}]
      /\ created' = created /\ root' = root
  BY <1>a DEF Inserts
<1>3. /\ log \in [Tasks -> Seq(EventType)] /\ posting \in [Tasks -> SUBSET Post]
      /\ \A u \in Tasks : Len(log[u]) <= MaxLog
      /\ created \in Seq(Tasks) /\ root \in [Tasks -> Tasks \cup {NoTask}]
  BY DEF ApiTyped
<1>4. \A u \in Tasks : log'[u] \in Seq(EventType) /\ Len(log'[u]) <= MaxLog
  BY <1>1, <1>3
<1>5. log' \in [Tasks -> Seq(EventType)]
  BY <1>2, <1>3, <1>4
<1>6. posting' \in [Tasks -> SUBSET Post]
  <2>1. posting[t] \cup {new} \in SUBSET Post
    BY <1>1, <1>3
  <2> QED
    BY <1>2, <1>3, <2>1
<1> QED
  BY <1>2, <1>3, <1>4, <1>5, <1>6 DEF ApiTyped

\* The relay's insert is committed with it.
LEMMA InsertCommits ==
  ASSUME ApiTyped, NEW t \in Tasks, LogOK(t), NEW by \in {"relay", "other"},
         NEW e \in EventType \ {"void"}, Inserts(t, by, e)
  PROVE  /\ Committed(t)' = Committed(t) \cup (IF by = "relay" THEN {Len(log[t]) + 1} ELSE {})
         /\ \A u \in Tasks : LogGrows(u)
         /\ \A i : Posted(t, i)' <=> (Posted(t, i) \/ i = Len(log[t]) + 1)
<1> DEFINE n   == Len(log[t])
           new == [id |-> n + 1, stored |-> by = "relay", by |-> by]
<1>a. n = Len(log[t]) /\ new = [id |-> n + 1, stored |-> by = "relay", by |-> by]
  OBVIOUS
<1> HIDE DEF n, new
<1>1. /\ n \in Nat /\ DOMAIN log[t] = 1 .. n /\ DOMAIN log'[t] = 1 .. n + 1
      /\ log'[t][n + 1] = e /\ \A i \in 1 .. n : log'[t][i] = log[t][i]
      /\ posting'[t] = posting[t] \cup {new}
      /\ \A u \in Tasks : u # t => log'[u] = log[u] /\ posting'[u] = posting[u]
  BY <1>a, InsertFacts
<1>2. new.id = n + 1 /\ (new.stored <=> by = "relay")
  BY <1>a
<1>3. \A p \in posting[t] : p.id \in 1 .. n
  BY <1>1 DEF LogOK
<1>4. \A i \in 1 .. n : i \in Committed(t)' <=> i \in Committed(t)
  <2> SUFFICES ASSUME NEW i \in 1 .. n PROVE i \in Committed(t)' <=> i \in Committed(t)
    OBVIOUS
  <2>1. i # new.id /\ i \in DOMAIN log[t] /\ i \in DOMAIN log'[t] /\ log'[t][i] = log[t][i]
    BY <1>1, <1>2
  <2> QED
    BY <1>1, <2>1 DEF Committed
<1>5. n + 1 \in Committed(t)' <=> by = "relay"
  <2>1. \A p \in posting[t] : p.id # n + 1
    BY <1>1, <1>3
  <2>2. n + 1 \in DOMAIN log'[t] /\ log'[t][n + 1] # "void"
    BY <1>1
  <2> QED
    BY <1>1, <1>2, <2>1, <2>2 DEF Committed
<1>6. Committed(t)' \subseteq 1 .. n + 1 /\ Committed(t) \subseteq 1 .. n
  BY <1>1 DEF Committed
<1>7. Committed(t)' = Committed(t) \cup (IF by = "relay" THEN {n + 1} ELSE {})
  BY <1>1, <1>4, <1>5, <1>6
<1>8. LogGrows(t)
  <2>1. n + 1 \notin DOMAIN log[t]
    BY <1>1
  <2>2. \A i \in Committed(t)' : i \in Committed(t) \/ i \notin DOMAIN log[t]
    BY <1>7, <2>1
  <2> QED
    BY <1>1, <1>6, <1>7, <2>2 DEF LogGrows
<1>9. \A u \in Tasks : LogGrows(u)
  BY <1>1, <1>8, SameLog
<1>10. \A i : Posted(t, i)' <=> (Posted(t, i) \/ i = n + 1)
  BY <1>1, <1>2 DEF Posted
<1> QED
  BY <1>7, <1>9, <1>10 DEF n

\* The rules of the log, after it.
LEMMA InsertLogOK ==
  ASSUME ApiTyped, NEW t \in Tasks, LogOK(t), NEW by \in {"relay", "other"},
         NEW e \in EventType \ {"void"}, Inserts(t, by, e),
         e \in Ends => \A i \in DOMAIN log[t] : log[t][i] \notin Ends,
         by = "other" => e \in Failing, by = "relay" => e \notin Failing
  PROVE  LogOK(t)'
<1> DEFINE n   == Len(log[t])
           new == [id |-> n + 1, stored |-> by = "relay", by |-> by]
<1>a. n = Len(log[t]) /\ new = [id |-> n + 1, stored |-> by = "relay", by |-> by]
  OBVIOUS
<1> HIDE DEF n, new
<1>1. /\ n \in Nat /\ DOMAIN log[t] = 1 .. n /\ DOMAIN log'[t] = 1 .. n + 1
      /\ log'[t][n + 1] = e /\ \A i \in 1 .. n : log'[t][i] = log[t][i]
      /\ posting'[t] = posting[t] \cup {new}
  BY <1>a, InsertFacts
<1>2. new.id = n + 1 /\ (new.stored <=> by = "relay") /\ new.by = by
  BY <1>a
<1>3. \A p \in posting[t] : p.by # by
  BY DEF Inserts
<1>4. \A p \in posting[t] : p.id \in 1 .. n /\ log'[t][p.id] = log[t][p.id]
  BY <1>1 DEF LogOK
<1>5. \A i \in 1 .. n + 1 : i \in 1 .. n \/ i = n + 1
  BY <1>1
<1>6. \A i, j \in DOMAIN log'[t] : log'[t][i] \in Ends /\ log'[t][j] \in Ends => i = j
  <2> SUFFICES ASSUME NEW i \in 1 .. n + 1, NEW j \in 1 .. n + 1,
                      log'[t][i] \in Ends, log'[t][j] \in Ends
               PROVE  i = j
    BY <1>1
  <2> QED
    BY <1>1, <1>5 DEF LogOK
<1>7. \A p \in posting'[t] : p.id \in DOMAIN log'[t]
  BY <1>1, <1>2, <1>4
<1>8. \A p \in posting'[t] : p.by = "other" => log'[t][p.id] \in Failing
  BY <1>1, <1>2, <1>4 DEF LogOK
<1>9. ASSUME NEW p \in posting'[t], p.by = "relay"
      PROVE  /\ p.stored /\ log'[t][p.id] \notin Failing /\ log'[t][p.id] # "void"
             /\ \A i \in DOMAIN log'[t] : i > p.id => i = p.id + 1 /\ log'[t][i] \in Failing
  <2>1. CASE p = new
    <3>1. by = "relay"
      BY <1>2, <1>9, <2>1
    <3>2. \A i \in 1 .. n + 1 : ~(i > n + 1)
      BY <1>1
    <3> QED
      BY <1>1, <1>2, <2>1, <3>1, <3>2
  <2>2. CASE p \in posting[t]
    <3>1. by = "other"
      BY <1>3, <1>9, <2>2
    <3>2. /\ p.stored /\ log[t][p.id] \notin Failing /\ log[t][p.id] # "void"
          /\ \A i \in 1 .. n : i > p.id => i = p.id + 1 /\ log[t][i] \in Failing
      BY <1>1, <1>9, <2>2 DEF LogOK
    <3>3. p.id = n
      <4>1. p.id \in 1 .. n
        BY <1>4, <2>2
      <4>2. \A i \in 1 .. n : log[t][i] \notin Failing
        BY <1>1, <3>1 DEF Failing, Ends
      <4>3. ~(n > p.id)
        <5> SUFFICES ASSUME n > p.id PROVE FALSE
          OBVIOUS
        <5>1. n \in 1 .. n
          BY <1>1, <4>1
        <5> QED
          BY <3>2, <4>2, <5>1
      <4> QED
        BY <1>1, <4>1, <4>3
    <3>4. \A i \in 1 .. n + 1 : i > n => i = n + 1
      BY <1>1
    <3> QED
      BY <1>1, <1>4, <2>2, <3>1, <3>2, <3>3, <3>4
  <2> QED
    BY <1>1, <1>9, <2>1, <2>2
<1>10. \A p, q \in posting'[t] : p.by = q.by => p = q
  BY <1>1, <1>2, <1>3 DEF LogOK
<1> QED
  BY <1>6, <1>7, <1>8, <1>9, <1>10 DEF LogOK

\* Who is connected is told of it.
LEMMA InsertCovered ==
  ASSUME Inv, NEW t \in Tasks, NEW by \in {"relay", "other"},
         NEW e \in EventType \ {"void"}, Inserts(t, by, e)
  PROVE  Covered(conn)'
<1>1. conn' = conn /\ ApiTyped /\ LogOK(t) /\ Covered(conn) /\ ~HasEnd(t)
  BY DEF Inserts, screenVars, Inv, Types, Logs, StreamOK
<1>2. CASE conn.at # "none" /\ conn.task = t
  <2>1. SUFFICES ASSUME conn.at \in {"reading", "read", "live"} PROVE Covered(conn)'
    BY <1>1 DEF Covered
  <2>2. conn.listens
    BY <1>1, <1>2, <2>1 DEF Covered, EndPublished, HasEnd
  <2>3. /\ Committed(t) \subseteq Committed(t)'
        /\ \A i \in Committed(t)' : i \in Committed(t) \/ Posted(t, i)'
        /\ \A i : Posted(t, i) => Posted(t, i)'
    BY <1>1, InsertCommits
  <2>4. /\ conn.snapshot \cup conn.queue \subseteq Committed(t)
        /\ conn.at = "read" => \A i \in Committed(t) :
             i > conn.sent /\ i \notin conn.snapshot \cup conn.queue => Posted(t, i)
        /\ conn.at = "live" => \A i \in Committed(t) : i > conn.sent => Posted(t, i)
    BY <1>1, <1>2, <2>1, <2>2 DEF Covered
  <2>5. /\ conn.snapshot \cup conn.queue \subseteq Committed(t)'
        /\ conn.at = "read" => \A i \in Committed(t)' :
             i > conn.sent /\ i \notin conn.snapshot \cup conn.queue => Posted(t, i)'
        /\ conn.at = "live" => \A i \in Committed(t)' : i > conn.sent => Posted(t, i)'
    BY <2>3, <2>4
  <2> QED
    BY <1>1, <1>2, <2>2, <2>5 DEF Covered
<1>3. CASE conn.at # "none" => conn.task # t
  <2>1. conn.at # "none" => conn.task \in Tasks
    BY ConnHasTask
  <2>2. \A u \in Tasks : u # t => log'[u] = log[u] /\ posting'[u] = posting[u]
    BY <1>1 DEF Inserts, ApiTyped
  <2> QED
    BY <1>1, <1>3, <2>1, <2>2, OthersCovered
<1> QED
  BY <1>2, <1>3

\* An insert keeps the invariant.
LEMMA InsertInv ==
  ASSUME Inv, NEW t \in Tasks, NEW by \in {"relay", "other"},
         NEW e \in EventType \ {"void"}, Inserts(t, by, e),
         e \in Ends => \A i \in DOMAIN log[t] : log[t][i] \notin Ends,
         by = "other" => e \in Failing, by = "relay" => e \notin Failing,
         current' \in [Tasks -> Tasks \cup {NoTask}],
         \A u \in Tasks : Known(current'[u])
  PROVE  Inv'
<1>1. ApiTyped /\ LogOK(t) /\ \A u \in Tasks : LogOK(u)
  BY DEF Inv, Types, Logs
<1>2. ApiTyped'
  BY <1>1, InsertTypes
<1>3. \A u \in Tasks : LogGrows(u)
  BY <1>1, InsertCommits
<1>4. LogOK(t)'
  BY <1>1, InsertLogOK
<1>5. Logs'
  <2> SUFFICES ASSUME NEW u \in Tasks, u # t PROVE LogOK(u)'
    BY <1>4 DEF Logs
  <2>1. log'[u] = log[u] /\ posting'[u] = posting[u]
    BY <1>1 DEF Inserts, ApiTyped
  <2> QED
    BY <1>1, <2>1, SameLog
<1>6. Covered(conn)'
  BY InsertCovered
<1>7. UNCHANGED <<created, root, screenVars, askVars>>
  BY DEF Inserts
<1> QED
  BY <1>1, <1>2, <1>3, <1>5, <1>6, <1>7, EventStepOK DEF LogsGrow

\* The relay stores an event, or an end is stored beside it.
LEMMA InsertsInv ==
  ASSUME Inv, NEW t \in Tasks, RelayStores(t) \/ OtherInserts(t)
  PROVE  Inv'
<1>1. /\ current \in [Tasks -> Tasks \cup {NoTask}]
      /\ \A u \in Tasks : Known(current[u])
  BY DEF Inv, Types, ApiTyped, AllKnown
<1>2. CASE RelayStores(t)
  <2>1. PICK e \in {"accepted", "delta", "completed"} :
          /\ e = "completed" => \A i \in DOMAIN log[t] : log[t][i] \notin Ends
          /\ Inserts(t, "relay", e)
          /\ current' = IF e = "completed" THEN [current EXCEPT ![root[t]] = t] ELSE current
    BY <1>2 DEF RelayStores
  <2>2. e \in EventType \ {"void"} /\ e \notin Failing
        /\ (e \in Ends => \A i \in DOMAIN log[t] : log[t][i] \notin Ends)
    BY <2>1 DEF EventType, Failing, Ends
  <2>3. Known(t)
    <3>1. PICK i \in DOMAIN created : t = created[i]
      BY <2>1 DEF Inserts, IsCreated, ToSet
    <3> QED
      BY <3>1 DEF Inv, AllKnown
  <2>4. current' \in [Tasks -> Tasks \cup {NoTask}] /\ \A u \in Tasks : Known(current'[u])
    BY <1>1, <2>1, <2>3
  <2> QED
    BY <2>1, <2>2, <2>4, InsertInv
<1>3. CASE OtherInserts(t)
  <2>1. PICK e \in {"failed", "cancelled"} :
          /\ \A i \in DOMAIN log[t] : log[t][i] \notin Ends
          /\ Inserts(t, "other", e) /\ current' = current
    BY <1>3 DEF OtherInserts
  <2>2. e \in EventType \ {"void"} /\ e \in Failing
    BY <2>1 DEF EventType, Failing, Ends
  <2> QED
    BY <1>1, <2>1, <2>2, InsertInv
<1> QED
  BY <1>2, <1>3

\* What was inserted beside the relay is committed, and is still to be published.
LEMMA CommitInv ==
  ASSUME Inv, NEW t \in Tasks, NEW p \in posting[t], OtherCommits(t, p)
  PROVE  Inv'
<1> DEFINE q == [p EXCEPT !.stored = TRUE]
<1>1. /\ ~p.stored /\ log' = log /\ current' = current
      /\ posting' = [posting EXCEPT ![t] = (@ \ {p}) \cup {q}]
      /\ UNCHANGED <<created, root, screenVars, askVars>>
  BY DEF OtherCommits
<1>2. /\ ApiTyped /\ LogOK(t) /\ \A u \in Tasks : LogOK(u)
      /\ posting \in [Tasks -> SUBSET Post] /\ p \in Post
  BY DEF Inv, Types, Logs, ApiTyped
<1>3. q \in Post /\ q.id = p.id /\ q.by = p.by /\ q.stored
  BY <1>2 DEF Post
<1> HIDE DEF q
<1>4. p.by = "other" /\ log[t][p.id] \in Failing /\ p.id \in DOMAIN log[t]
  BY <1>1, <1>2 DEF LogOK, Post
<1>5. posting'[t] = (posting[t] \ {p}) \cup {q}
  BY <1>1, <1>2
<1>6. \A r \in posting'[t] : r = q \/ r \in posting[t]
  BY <1>5
<1>7. ApiTyped'
  <2>1. (posting[t] \ {p}) \cup {q} \in SUBSET Post
    BY <1>2, <1>3
  <2>2. posting' \in [Tasks -> SUBSET Post]
    BY <1>1, <1>2, <2>1
  <2> QED
    BY <1>1, <1>2, <2>2 DEF ApiTyped
<1>8. LogOK(t)'
  <2>1. \A r \in posting'[t] : r.id \in DOMAIN log[t]
    BY <1>2, <1>3, <1>4, <1>6 DEF LogOK
  <2>2. \A r \in posting'[t] : r.by = "other" => log[t][r.id] \in Failing
    BY <1>2, <1>3, <1>4, <1>6 DEF LogOK
  <2>3. \A r \in posting'[t] : r.by = "relay" => r \in posting[t]
    BY <1>3, <1>4, <1>6
  <2>4. ASSUME NEW r \in posting'[t], NEW o \in posting'[t], r.by = o.by PROVE r = o
    <3>1. \A s \in posting'[t] : s = q \/ (s \in posting[t] /\ s.by # "other")
      BY <1>2, <1>4, <1>5 DEF LogOK
    <3> QED
      BY <1>2, <1>3, <1>4, <2>4, <3>1 DEF LogOK
  <2> QED
    BY <1>1, <1>2, <2>1, <2>2, <2>3, <2>4 DEF LogOK
<1>9. \A u \in Tasks : u # t => log'[u] = log[u] /\ posting'[u] = posting[u]
  BY <1>1, <1>2
<1>10. Logs'
  BY <1>2, <1>8, <1>9, SameLog DEF Logs
<1>11. Committed(t) \subseteq Committed(t)' /\ Committed(t)' \subseteq Committed(t) \cup {p.id}
  <2>1. ASSUME NEW i \in Committed(t) PROVE i \in Committed(t)'
    BY <1>1, <1>3, <1>6, <2>1 DEF Committed
  <2>2. ASSUME NEW i \in Committed(t)', i # p.id PROVE i \in Committed(t)
    <3>1. \A r \in posting[t] : r.id = i => r \in posting'[t]
      BY <1>5, <2>2
    <3> QED
      BY <1>1, <2>2, <3>1 DEF Committed
  <2> QED
    BY <2>1, <2>2
<1>12. \A u \in Tasks : LogGrows(u)
  <2>1. LogGrows(t)
    BY <1>1, <1>4, <1>11 DEF LogGrows
  <2> QED
    BY <1>2, <1>9, <2>1, SameLog
<1>13. \A i : Posted(t, i)' <=> Posted(t, i)
  BY <1>3, <1>5 DEF Posted
<1>14. Covered(conn)'
  <2>1. conn' = conn /\ Covered(conn)
    BY <1>1 DEF screenVars, Inv, StreamOK
  <2>2. CASE conn.at # "none" => conn.task # t
    <3>1. conn.at # "none" => conn.task \in Tasks
      BY ConnHasTask
    <3> QED
      BY <1>9, <2>1, <2>2, <3>1, OthersCovered
  <2>3. CASE conn.at # "none" /\ conn.task = t
    <3>1. EndPublished(t) => EndPublished(t)'
      BY <1>1, <1>11, <1>13 DEF EndPublished, EndIds
    <3>2. \A i : Missable(t, i)' <=> Missable(t, i)
      BY <1>1 DEF Missable
    <3>3. Posted(t, p.id)
      BY DEF Posted
    <3>4. \A i \in Committed(t)' : i \in Committed(t) \/ Posted(t, i)'
      BY <1>11, <1>13, <3>3
    <3>5. conn.snapshot \cup conn.queue \subseteq Committed(t) =>
            conn.snapshot \cup conn.queue \subseteq Committed(t)'
      BY <1>11
    <3> QED
      BY <1>13, <2>1, <2>3, <3>1, <3>2, <3>4, <3>5 DEF Covered
  <2> QED
    BY <2>2, <2>3
<1>15. \A u \in Tasks : Known(current'[u])
  BY <1>1 DEF Inv, AllKnown
<1> QED
  BY <1>1, <1>2, <1>7, <1>10, <1>12, <1>14, <1>15, EventStepOK DEF LogsGrow

-----------------------------------------------------------------------------
(* Events are sent.                                                        *)

\* A step of the connection alone.
LEMMA ConnStepOK ==
  ASSUME Inv, UNCHANGED <<created, root, current, log, sub, seen, store, mounted, askVars>>,
         ApiTyped', Logs', \A t \in Tasks : Committed(t)' = Committed(t),
         conn' \in Conn, conn.at = "none" => conn' = conn,
         conn.at # "none" => conn'.at # "none" /\ conn'.task = conn.task,
         Ordered(sub, conn', seen), WireGaps(conn', seen), Covered(conn)'
  PROVE  Inv'
<1>1. UNCHANGED <<asks, news, asked>>
  BY DEF askVars
<1>2. ScreenTyped' /\ AskTyped' /\ AllKnown'
  BY <1>1 DEF Inv, Types, ScreenTyped, AskTyped, AllKnown, Known
<1>3. Linked' /\ LiveTaskIsFollowed'
  BY DEF Inv, Linked, LiveTaskIsFollowed
<1>4. Ordered(sub, conn, seen)'
  BY DEF Ordered
<1>5. SeenGaps(sub, seen)'
  BY DEF Inv, StreamOK, SeenGaps, NoGap
<1>6. conn'.at # "none" => conn'.task \in Tasks
  BY ConnHasTask
<1>7. WireGaps(conn, seen)'
  BY <1>6 DEF WireGaps, NoGap
<1> QED
  BY <1>2, <1>3, <1>4, <1>5, <1>7 DEF Inv, Types, StreamOK

\* A sequence of ids has numbers.
LEMMA SetOfIds ==
  ASSUME NEW s \in Seq(Ids)
  PROVE  ToSet(s) \subseteq Ids /\ \A i \in ToSet(s) : i \in Nat
<1>1. \A j \in DOMAIN s : s[j] \in Ids
  OBVIOUS
<1> QED
  BY <1>1, IdsAreNumbers DEF ToSet

\* What is sent after what was sent before leaves the gaps it leaves behind.
LEMMA SendsOK ==
  ASSUME NEW su, NEW c \in Conn, NEW se \in Seen,
         Ordered(su, c, se), SeenGaps(su, se), WireGaps(c, se), ApiTyped,
         c.at = "live", c.task \in Tasks, su.task = c.task, se.task = c.task,
         NEW S, S \subseteq Committed(c.task), \A i \in S : i > c.sent,
         \A i, j \in S : log[c.task][i] \in Ends /\ log[c.task][j] \in Ends => i = j,
         \A last \in S : \A i \in Committed(c.task) : c.sent < i /\ i < last /\ i \notin S =>
           log[c.task][i] \in Failing \/ (log[c.task][last] \in Failing /\ i = last - 1),
         NEW d \in Sent(c, S)
  PROVE  /\ d \in Conn /\ d.task = c.task /\ d.snapshot = c.snapshot /\ d.queue = c.queue
         /\ Ordered(su, d, se) /\ WireGaps(d, se)
         /\ \A i \in S : i <= d.sent
         /\ c.sent <= d.sent
         /\ LET ended == \E i \in S : log[c.task][i] \in Ends
            IN  d.at = (IF ended THEN "done" ELSE "live") /\ d.listens = (c.listens /\ ~ended)
<1>1. S \in SUBSET Ids
  BY CommittedIds
<1>2. /\ d \in Conn /\ d.task = c.task /\ d.snapshot = c.snapshot /\ d.queue = c.queue
      /\ \E s \in InOrder(S) : d.wire = c.wire \o s
                               /\ d.sent = IF S = {} THEN c.sent ELSE Last(s)
      /\ LET ended == \E i \in S : log[c.task][i] \in Ends
         IN  d.at = (IF ended THEN "done" ELSE "live") /\ d.listens = (c.listens /\ ~ended)
  <2>1. c.at = "live"
    OBVIOUS
  <2>2. /\ d \in Conn /\ d.task = c.task /\ d.snapshot = c.snapshot /\ d.queue = c.queue
        /\ \E s \in InOrder(S) : d.wire = c.wire \o s
                                 /\ d.sent = IF S = {} THEN c.sent ELSE Last(s)
        /\ LET ended == \E i \in S : log[c.task][i] \in Ends
           IN  d.at = (IF ended THEN "done" ELSE c.at) /\ d.listens = (c.listens /\ ~ended)
    BY ONLY <1>1, c \in Conn, d \in Sent(c, S), SentFields
  <2> QED
    BY ONLY <2>1, <2>2
<1>3. PICK s \in InOrder(S) : d.wire = c.wire \o s /\ d.sent = IF S = {} THEN c.sent ELSE Last(s)
  BY <1>2
<1>4. /\ s \in Seq(Ids) /\ Ascends(s) /\ ToSet(s) = S
      /\ S # {} => Last(s) \in S /\ \A i \in S : i <= Last(s)
  BY <1>1, InOrderIds
<1>5. c.wire \in Seq(Ids) /\ c.sent \in 0 .. MaxLog /\ c.sent \in Nat
  BY NumbersOfBounds DEF Conn
<1>6. S \subseteq Nat
  BY <1>1, IdsAreNumbers
<1>7. c.sent <= d.sent /\ \A i \in S : i <= d.sent
  <2>1. CASE S = {}
    BY <1>3, <1>5, <2>1
  <2>2. CASE S # {}
    <3>1. d.sent \in S /\ \A i \in S : i <= d.sent
      BY <1>3, <1>4, <2>2
    <3>2. d.sent > c.sent /\ d.sent \in Nat
      BY <1>6, <3>1
    <3> QED
      BY <1>5, <3>1, <3>2
  <2> QED
    BY <2>1, <2>2
<1>8. ToSet(d.wire) = ToSet(c.wire) \cup S /\ d.wire \in Seq(Ids)
  BY <1>3, <1>4, <1>5, ConcatIds
<1>9. /\ su.lastId <= c.sent /\ Ascends(c.wire)
      /\ \A i \in ToSet(c.wire) : su.lastId < i /\ i <= c.sent
      /\ c.sent = su.lastId \/ c.sent \in ToSet(c.wire)
      /\ su.task # NoTask
      /\ \A i \in ToSet(se.ids) : i <= su.lastId
      /\ su.lastId = 0 \/ su.lastId \in ToSet(se.ids)
      /\ Ascends(se.ids)
  BY NumbersOfBounds DEF Ordered, NoTask
<1>10. Ascends(d.wire)
  BY <1>3, <1>4, <1>5, <1>9, ConcatAscends
<1>11. d.sent \in Nat
  BY <1>2, NumbersOfBounds DEF Conn
<1>12. su.lastId \in Nat
  <2>1. \A i \in ToSet(se.ids) : i \in Nat
    BY SetOfIds DEF Seen
  <2> QED
    BY <1>9, <2>1
<1>13. Ordered(su, d, se)
  <2>1. su.lastId <= d.sent
    BY <1>5, <1>7, <1>9, <1>11, <1>12
  <2>2. ASSUME NEW i \in ToSet(d.wire) PROVE su.lastId < i /\ i <= d.sent
    <3>1. i \in Nat
      BY <1>8, SetOfIds
    <3>2. CASE i \in ToSet(c.wire)
      BY <1>5, <1>7, <1>9, <1>11, <3>1, <3>2
    <3>3. CASE i \in S
      BY <1>5, <1>7, <1>9, <1>12, <3>1, <3>3
    <3> QED
      BY <1>8, <3>2, <3>3
  <2>3. d.sent = su.lastId \/ d.sent \in ToSet(d.wire)
    <3>1. CASE S = {}
      BY <1>3, <1>8, <1>9, <3>1
    <3>2. CASE S # {}
      BY <1>3, <1>4, <1>8, <3>2
    <3> QED
      BY <3>1, <3>2
  <2> QED
    BY <1>9, <1>10, <2>1, <2>2, <2>3 DEF Ordered
<1> DEFINE out == ToSet(se.ids) \cup ToSet(d.wire)
<1>14. ToSet(se.ids) \cup ToSet(c.wire) \subseteq out /\ S \subseteq out
  BY <1>8
<1>15. /\ ToSet(c.wire) \subseteq Committed(c.task)
       /\ \A i \in ToSet(c.wire) : log[c.task][i] \notin Ends
       /\ \A last \in ToSet(c.wire) : NoGap(c.task, last, ToSet(se.ids) \cup ToSet(c.wire))
  BY DEF WireGaps
<1>16. \A last \in ToSet(se.ids) : /\ NoGap(c.task, last, ToSet(se.ids))
                                   /\ log[c.task][last] \notin Ends
  BY <1>9 DEF SeenGaps, ToSet
<1>17. \A i \in Committed(c.task) : i \in Nat /\ i > 0
  BY CommittedIds, IdsAreNumbers
<1>18. ASSUME NEW i \in Committed(c.task), i <= c.sent, i \notin out PROVE log[c.task][i] \in Failing
  <2>1. c.sent \in ToSet(se.ids) \cup ToSet(c.wire)
    BY <1>5, <1>9, <1>17, <1>18
  <2>2. i < c.sent
    BY <1>5, <1>14, <1>17, <1>18, <2>1
  <2>3. CASE c.sent \in ToSet(c.wire)
    BY <1>14, <1>15, <1>18, <2>2, <2>3 DEF NoGap, Failing, Ends
  <2>4. CASE c.sent \in ToSet(se.ids)
    BY <1>14, <1>16, <1>18, <2>2, <2>4 DEF NoGap, Failing, Ends
  <2> QED
    BY <2>1, <2>3, <2>4
<1>19. ASSUME NEW last \in ToSet(d.wire) PROVE NoGap(c.task, last, out)
  <2>1. CASE last \in ToSet(c.wire)
    BY <1>14, <1>15, <2>1 DEF NoGap
  <2>2. CASE last \in S
    <3> SUFFICES ASSUME NEW i \in Committed(c.task), i < last, i \notin out
                 PROVE  log[c.task][i] \in Failing \/ (log[c.task][last] \in Failing /\ i = last - 1)
      BY DEF NoGap
    <3>1. i \notin S
      BY <1>14
    <3>2. CASE i <= c.sent
      BY <1>18, <3>2
    <3>3. CASE c.sent < i
      BY <2>2, <3>1, <3>3
    <3> QED
      BY <1>5, <1>17, <3>2, <3>3
  <2> QED
    BY <1>8, <2>1, <2>2
<1>20. WireGaps(d, se)
  <2>1. ToSet(d.wire) \subseteq Committed(c.task)
    BY <1>8, <1>15
  <2>2. \A i \in ToSet(d.wire) : log[c.task][i] \in Ends => d.at = "done"
    BY <1>2, <1>8, <1>15
  <2> QED
    BY <1>2, <1>19, <2>1, <2>2 DEF WireGaps
<1> QED
  BY <1>2, <1>7, <1>13, <1>20

\* What is published is committed, and its id is no other post's.
LEMMA PublishFacts ==
  ASSUME Inv, NEW t \in Tasks, NEW p \in posting[t], Publish(t, p)
  PROVE  /\ log' = log /\ ApiTyped' /\ Logs' /\ \A u \in Tasks : Committed(u)' = Committed(u)
         /\ p.id \in Committed(t) /\ \A q \in posting[t] : q.id = p.id => q = p
         /\ \A i : Posted(t, i)' <=> Posted(t, i) /\ i # p.id
         /\ \A u \in Tasks : u # t => log'[u] = log[u] /\ posting'[u] = posting[u]
         /\ UNCHANGED <<created, root, current, sub, seen, store, mounted, askVars>>
<1>1. /\ p.stored /\ posting' = [posting EXCEPT ![t] = @ \ {p}]
      /\ UNCHANGED <<created, root, current, log, sub, seen, store, mounted, askVars>>
  BY DEF Publish, apiVars
<1>2. /\ ApiTyped /\ LogOK(t) /\ \A u \in Tasks : LogOK(u)
      /\ posting \in [Tasks -> SUBSET Post]
  BY DEF Inv, Types, Logs, ApiTyped
<1>3. posting'[t] = posting[t] \ {p} /\ posting' \in [Tasks -> SUBSET Post]
  BY <1>1, <1>2
<1>4. ApiTyped'
  BY <1>1, <1>2, <1>3 DEF ApiTyped
<1>5. \A u \in Tasks : u # t => log'[u] = log[u] /\ posting'[u] = posting[u]
  BY <1>1, <1>2
<1>6. LogOK(t)'
  BY <1>1, <1>2, <1>3 DEF LogOK
<1>7. Logs'
  BY <1>2, <1>5, <1>6, SameLog DEF Logs
<1>8. \A q \in posting[t] : q.by \in {"relay", "other"}
  BY <1>2 DEF Post
<1>9. \A q \in posting[t] : q.id = p.id => q = p
  BY <1>2, <1>8 DEF LogOK
<1>10. p.id \in DOMAIN log[t] /\ log[t][p.id] # "void"
  BY <1>2, <1>8 DEF LogOK, Failing
<1>11. p.id \in Committed(t)
  BY <1>1, <1>9, <1>10 DEF Committed
<1>12. Committed(t)' = Committed(t)
  BY <1>1, <1>3 DEF Committed
<1>13. \A u \in Tasks : Committed(u)' = Committed(u)
  BY <1>2, <1>5, <1>12, SameLog
<1>14. \A i : Posted(t, i)' <=> Posted(t, i) /\ i # p.id
  BY <1>3, <1>9 DEF Posted
<1> QED
  BY <1>1, <1>4, <1>5, <1>7, <1>9, <1>11, <1>13, <1>14

\* What is above an event that has still to be published is the end after it, if
\* it is not an end itself.
LEMMA PostBelow ==
  ASSUME NEW t \in Tasks, LogOK(t), posting[t] \subseteq Post, NEW p \in posting[t],
         NEW i \in DOMAIN log[t], i > p.id
  PROVE  log[t][p.id] \in Failing \/ (i = p.id + 1 /\ log[t][i] \in Failing)
BY DEF LogOK, Post

\* A relay's post can be missed.
LEMMA PostMissable ==
  ASSUME ApiTyped, NEW t \in Tasks, LogOK(t), NEW p \in posting[t], EndPublished(t)
  PROVE  Missable(t, p.id)
<1>1. p \in Post /\ p.id \in DOMAIN log[t]
  BY DEF ApiTyped, LogOK
<1>2. Len(log[t]) \in Nat /\ DOMAIN log[t] = 1 .. Len(log[t])
  BY CommittedIds
<1>3. log[t][p.id] \notin Failing
  <2> SUFFICES ASSUME log[t][p.id] \in Failing PROVE FALSE
    OBVIOUS
  <2>1. PICK j \in EndIds(t) : ~Posted(t, j)
    BY DEF EndPublished
  <2>2. j \in DOMAIN log[t] /\ log[t][j] \in Ends /\ log[t][p.id] \in Ends
    BY <2>1 DEF EndIds, Committed, Failing, Ends
  <2>3. j = p.id
    BY <1>1, <2>2 DEF LogOK
  <2> QED
    BY <2>1, <2>3 DEF Posted
<1>4. p.by = "relay"
  BY <1>1, <1>3 DEF LogOK, Post
<1>5. CASE p.id = Len(log[t])
  BY <1>5 DEF Missable
<1>6. CASE p.id < Len(log[t])
  <2>1. Len(log[t]) \in DOMAIN log[t]
    BY <1>1, <1>2
  <2>2. Len(log[t]) = p.id + 1 /\ log[t][Len(log[t])] \in Failing
    BY <1>4, <1>6, <2>1 DEF LogOK
  <2>3. p.id = Len(log[t]) - 1
    BY <1>1, <1>2, <2>2
  <2> QED
    BY <2>2, <2>3 DEF Missable
<1> QED
  BY <1>1, <1>2, <1>5, <1>6

\* A published end.
LEMMA PublishedEnd ==
  ASSUME Inv, NEW t \in Tasks, NEW p \in posting[t], Publish(t, p)
  PROVE  /\ EndPublished(t) => EndPublished(t)'
         /\ log[t][p.id] \in Ends => EndPublished(t)'
<1>1. /\ Committed(t)' = Committed(t) /\ log' = log /\ p.id \in Committed(t)
      /\ \A i : Posted(t, i)' <=> Posted(t, i) /\ i # p.id
  BY PublishFacts
<1> QED
  BY <1>1 DEF EndPublished, EndIds

\* A connection that is not told of a published event.
LEMMA PublishUntold ==
  ASSUME Inv, NEW t \in Tasks, NEW p \in posting[t], Publish(t, p),
         ~conn.listens \/ conn.task # t
  PROVE  Covered(conn)'
<1>1. /\ log' = log /\ \A u \in Tasks : Committed(u)' = Committed(u)
      /\ \A i : Posted(t, i)' <=> Posted(t, i) /\ i # p.id
      /\ \A u \in Tasks : u # t => log'[u] = log[u] /\ posting'[u] = posting[u]
  BY PublishFacts
<1>2. conn' = conn
  BY DEF Publish
<1>3. conn.at # "none" => conn.task \in Tasks
  BY ConnHasTask
<1>4. CASE conn.at # "none" => conn.task # t
  BY <1>1, <1>2, <1>3, <1>4, OthersCovered
<1>5. CASE conn.at # "none" /\ conn.task = t
  <2>1. SUFFICES ASSUME conn.at \in {"reading", "read", "live"} PROVE Covered(conn)'
    BY <1>2 DEF Covered
  <2>2. Covered(conn) /\ ~conn.listens /\ ApiTyped /\ LogOK(t)
    BY <1>5 DEF Inv, StreamOK, Types, Logs
  <2>3. EndPublished(t)
    BY <1>5, <2>1, <2>2 DEF Covered
  <2>4. EndPublished(t)' /\ Missable(t, p.id)
    BY <2>2, <2>3, PublishedEnd, PostMissable
  <2>5. \A i : Missable(t, i)' <=> Missable(t, i)
    BY <1>1 DEF Missable
  <2>6. Committed(t)' = Committed(t)
    BY <1>1
  <2>7. \A i : Posted(t, i) => Posted(t, i)' \/ Missable(t, i)'
    BY <1>1, <2>4, <2>5
  <2> QED
    BY <1>2, <1>5, <2>2, <2>4, <2>5, <2>6, <2>7 DEF Covered
<1> QED
  BY <1>4, <1>5

\* One that has still to replay keeps it.
LEMMA PublishQueued ==
  ASSUME Inv, NEW t \in Tasks, NEW p \in posting[t], Publish(t, p),
         conn.listens, conn.task = t, conn.at # "live"
  PROVE  Inv'
<1>1. /\ log' = log /\ ApiTyped' /\ Logs' /\ \A u \in Tasks : Committed(u)' = Committed(u)
      /\ p.id \in Committed(t)
      /\ \A i : Posted(t, i)' <=> Posted(t, i) /\ i # p.id
      /\ UNCHANGED <<created, root, current, sub, seen, store, mounted, askVars>>
  BY PublishFacts
<1> DEFINE hears == conn.listens /\ log[t][p.id] \notin {"completed", "failed"}
           told  == [conn EXCEPT !.queue = @ \cup {p.id}]
<1>2. conn' = [told EXCEPT !.listens = hears]
  <2>1. told.listens = conn.listens
    BY DEF Inv, Types, ScreenTyped, Conn
  <2>2. PICK d \in {told} : conn' = [d EXCEPT !.listens = @ /\ log[t][p.id] \notin {"completed", "failed"}]
    BY DEF Publish
  <2> HIDE DEF told
  <2>3. conn' = [told EXCEPT !.listens = told.listens /\ log[t][p.id] \notin {"completed", "failed"}]
    BY <2>2
  <2> QED
    BY <2>1, <2>3
<1>3. conn \in Conn /\ Covered(conn) /\ ApiTyped /\ Ordered(sub, conn, seen) /\ WireGaps(conn, seen)
  BY DEF Inv, Types, ScreenTyped, StreamOK
<1>4. p.id \in Ids
  BY <1>1, <1>3, CommittedIds
<1>5. /\ told \in Conn /\ told.at = conn.at /\ told.task = conn.task /\ told.wire = conn.wire
      /\ told.sent = conn.sent /\ told.snapshot = conn.snapshot /\ told.queue = conn.queue \cup {p.id}
  BY <1>3, <1>4 DEF Conn
<1> HIDE DEF told
<1>6. hears \in BOOLEAN
  OBVIOUS
<1>7. hears => conn.listens
  OBVIOUS
<1>8. ~hears => log[t][p.id] \in Ends
  BY DEF Ends
<1> HIDE DEF hears
<1>9. /\ conn' \in Conn /\ conn'.at = conn.at /\ conn'.task = conn.task /\ conn'.wire = conn.wire
      /\ conn'.sent = conn.sent /\ conn'.snapshot = conn.snapshot
      /\ conn'.queue = conn.queue \cup {p.id} /\ conn'.listens = hears
  BY <1>2, <1>5, <1>6 DEF Conn
<1>10. conn.at # "none" /\ conn.task \in Tasks
  BY ConnHasTask DEF Inv, Linked, NoConn
<1>11. Ordered(sub, conn', seen) /\ WireGaps(conn', seen)
  BY <1>3, <1>9 DEF Ordered, WireGaps
<1>12. Covered(conn)'
  <2>1. ~hears => EndPublished(t)'
    BY <1>8, PublishedEnd
  <2>2. Committed(t)' = Committed(t)
    BY <1>1
  <2>3. SUFFICES ASSUME conn.at \in {"reading", "read"} PROVE Covered(conn)'
    BY <1>9 DEF Covered
  <2>4. conn.snapshot \cup conn.queue \subseteq Committed(t)
    BY <1>3, <2>3 DEF Covered
  <2>5. conn.at = "read" => \A i \in Committed(t) :
          i > conn.sent /\ i \notin conn.snapshot \cup conn.queue => Posted(t, i)
    BY <1>3, <2>3 DEF Covered
  <2>6. conn'.snapshot \cup conn'.queue \subseteq Committed(t)'
    BY <1>1, <1>9, <2>2, <2>4
  <2>7. conn'.at = "read" => \A i \in Committed(t)' :
          i > conn'.sent /\ i \notin conn'.snapshot \cup conn'.queue => Posted(t, i)'
    BY <1>1, <1>9, <2>2, <2>5
  <2> QED
    BY <1>9, <2>1, <2>3, <2>6, <2>7 DEF Covered
<1> QED
  BY <1>1, <1>9, <1>10, <1>11, <1>12, ConnStepOK

\* Of some events, those that are sent: all of them, or those up to the only end.
LEMMA EndIsFirst ==
  ASSUME ApiTyped, NEW t \in Tasks, LogOK(t), NEW ids, ids \subseteq Committed(t)
  PROVE  /\ UpToEnd(t, ids) \subseteq ids
         /\ \A i, j \in ids : log[t][i] \in Ends /\ log[t][j] \in Ends => i = j
         /\ (\A i \in UpToEnd(t, ids) : log[t][i] \notin Ends) => UpToEnd(t, ids) = ids
<1>1. \A i, j \in ids : log[t][i] \in Ends /\ log[t][j] \in Ends => i = j
  BY DEF LogOK, Committed
<1>2. ids \subseteq Nat
  BY CommittedIds, IdsAreNumbers
<1>3. ASSUME NEW j \in ids, log[t][j] \in Ends PROVE j \in UpToEnd(t, ids)
  BY <1>1, <1>2, <1>3 DEF UpToEnd
<1> QED
  BY <1>1, <1>2, <1>3 DEF UpToEnd

\* One that is live sends it: what is below is sent, or is of the other kind.
LEMMA PublishTold ==
  ASSUME Inv, NEW t \in Tasks, NEW p \in posting[t], Publish(t, p),
         conn.listens, conn.task = t, conn.at = "live"
  PROVE  Inv'
<1>1. /\ log' = log /\ ApiTyped' /\ Logs' /\ \A u \in Tasks : Committed(u)' = Committed(u)
      /\ p.id \in Committed(t)
      /\ \A i : Posted(t, i)' <=> Posted(t, i) /\ i # p.id
      /\ UNCHANGED <<created, root, current, sub, seen, store, mounted, askVars>>
  BY PublishFacts
<1>2. PICK told \in Emit(conn, {p.id}) :
        conn' = [told EXCEPT !.listens = @ /\ log[t][p.id] \notin {"completed", "failed"}]
  BY DEF Publish
<1>3. /\ conn \in Conn /\ Covered(conn) /\ ApiTyped /\ LogOK(t) /\ seen \in Seen
      /\ Ordered(sub, conn, seen) /\ SeenGaps(sub, seen) /\ WireGaps(conn, seen)
      /\ posting[t] \subseteq Post
  BY DEF Inv, Types, ScreenTyped, StreamOK, Logs, ApiTyped
<1>4. conn.task = sub.task /\ seen.task = conn.task
  BY ConnHasTask
<1> DEFINE S == UpToEnd(t, {i \in {p.id} : i > conn.sent})
<1>5. S \subseteq {p.id} /\ (\A i \in S : i > conn.sent) /\ (p.id > conn.sent => p.id \in S)
      /\ told \in Sent(conn, S)
  <2>1. p.id \in Nat
    BY <1>1, <1>3, CommittedIds, IdsAreNumbers
  <2> QED
    BY <1>2, <2>1 DEF UpToEnd, Emit
<1> HIDE DEF S
<1>6. ASSUME NEW i \in Committed(t), conn.sent < i, i < p.id
      PROVE  log[t][i] \in Failing \/ (log[t][p.id] \in Failing /\ i = p.id - 1)
  <2>1. Posted(t, i)
    BY <1>3, <1>6 DEF Covered
  <2>2. PICK q \in posting[t] : q.id = i
    BY <2>1 DEF Posted
  <2>3. p.id \in DOMAIN log[t] /\ p.id \in Nat /\ i \in Nat
    BY <1>1, <1>3, CommittedIds, IdsAreNumbers
  <2>4. log[t][i] \in Failing \/ (p.id = i + 1 /\ log[t][p.id] \in Failing)
    BY <1>3, <1>6, <2>2, <2>3, PostBelow
  <2> QED
    BY <2>3, <2>4
<1>7. /\ told \in Conn /\ told.task = t
      /\ Ordered(sub, told, seen) /\ WireGaps(told, seen)
      /\ \A i \in S : i <= told.sent
      /\ conn.sent <= told.sent
      /\ LET ended == \E i \in S : log[t][i] \in Ends
         IN  told.at = (IF ended THEN "done" ELSE "live") /\ told.listens = (conn.listens /\ ~ended)
  <2>1. S \subseteq Committed(t)
    BY <1>1, <1>5
  <2>2. \A i, j \in S : log[t][i] \in Ends /\ log[t][j] \in Ends => i = j
    BY <1>5
  <2>3. \A last \in S : \A i \in Committed(t) : conn.sent < i /\ i < last /\ i \notin S =>
          log[t][i] \in Failing \/ (log[t][last] \in Failing /\ i = last - 1)
    BY <1>5, <1>6
  <2> QED
    BY <1>3, <1>4, <1>5, <2>1, <2>2, <2>3, SendsOK
<1> DEFINE hears == told.listens /\ log[t][p.id] \notin {"completed", "failed"}
<1>8. conn' = [told EXCEPT !.listens = hears]
  BY <1>2
<1>9. hears \in BOOLEAN /\ (hears => told.listens)
  BY <1>7 DEF Conn
<1>10. told.at = "live" => (\A i \in S : log[t][i] \notin Ends) /\ told.listens
  BY <1>7
<1>11. told.at = "live" /\ ~hears => log[t][p.id] \in Ends
  BY <1>10 DEF Ends
<1>12. told.at \in {"live", "done"}
  BY <1>7
<1> HIDE DEF hears
<1>13. /\ conn' \in Conn /\ conn'.at = told.at /\ conn'.task = t /\ conn'.wire = told.wire
       /\ conn'.sent = told.sent /\ conn'.snapshot = told.snapshot
       /\ conn'.queue = told.queue /\ conn'.listens = hears
  BY <1>7, <1>8, <1>9 DEF Conn
<1>14. Ordered(sub, conn', seen) /\ WireGaps(conn', seen)
  BY <1>7, <1>13 DEF Ordered, WireGaps
<1>15. told.snapshot = conn.snapshot /\ told.queue = conn.queue
  BY <1>1, <1>3, <1>5, SentFields, CommittedIds
<1>16. Covered(conn)'
  <2>1. SUFFICES ASSUME told.at = "live" PROVE Covered(conn)'
    BY <1>12, <1>13 DEF Covered
  <2>2. ~hears => EndPublished(t)'
    BY <1>11, <2>1, PublishedEnd
  <2>3. conn'.snapshot \cup conn'.queue \subseteq Committed(t)'
    BY <1>1, <1>3, <1>13, <1>15 DEF Covered
  <2>4. ASSUME NEW i \in Committed(t)', i > told.sent PROVE Posted(t, i)'
    <3>1. i \in Nat /\ conn.sent \in Nat /\ told.sent \in Nat /\ p.id \in Nat /\ i \in Committed(t)
      BY <1>1, <1>3, <1>7, CommittedIds, IdsAreNumbers DEF Conn
    <3>2. i > conn.sent
      BY <1>7, <2>4, <3>1
    <3>3. Posted(t, i)
      BY <1>3, <3>1, <3>2 DEF Covered
    <3>4. i # p.id
      BY <1>5, <1>7, <2>4, <3>1, <3>2
    <3> QED
      BY <1>1, <3>3, <3>4
  <2> QED
    BY <1>13, <2>1, <2>2, <2>3, <2>4 DEF Covered
<1>17. conn'.at # "none" /\ conn'.task = conn.task
  BY <1>12, <1>13
<1> QED
  BY <1>1, <1>13, <1>14, <1>16, <1>17, ConnStepOK

\* An event is published.
LEMMA PublishInv ==
  ASSUME Inv, NEW t \in Tasks, NEW p \in posting[t], Publish(t, p)
  PROVE  Inv'
<1>1. CASE ~conn.listens \/ conn.task # t
  <2>1. conn' = conn
    BY <1>1 DEF Publish
  <2>2. Covered(conn)'
    BY <1>1, PublishUntold
  <2>3. conn \in Conn /\ Ordered(sub, conn, seen) /\ WireGaps(conn, seen)
    BY DEF Inv, Types, ScreenTyped, StreamOK
  <2>4. /\ log' = log /\ ApiTyped' /\ Logs' /\ \A u \in Tasks : Committed(u)' = Committed(u)
        /\ UNCHANGED <<created, root, current, sub, seen, store, mounted, askVars>>
    BY PublishFacts
  <2> QED
    BY <2>1, <2>2, <2>3, <2>4, ConnStepOK
<1>2. CASE conn.listens /\ conn.task = t
  BY <1>2, PublishQueued, PublishTold
<1> QED
  BY <1>1, <1>2

-----------------------------------------------------------------------------
(* The stream of a subscription.                                           *)

\* What the API has stays, and so what it says of the logs.
LEMMA SameLogs ==
  ASSUME Inv, UNCHANGED apiVars
  PROVE  /\ ApiTyped' /\ Logs' /\ UNCHANGED <<created, root, current, log, posting>>
         /\ \A t \in Tasks : Committed(t)' = Committed(t)
<1>1. UNCHANGED <<created, root, current, log, posting>>
  BY DEF apiVars
<1> QED
  BY <1>1, SameApi DEF Committed

\* The controller reads the events.
LEMMA ListInv == ASSUME Inv, ListEvents PROVE Inv'
<1> DEFINE snap == {i \in Committed(conn.task) : i > conn.sent}
<1>1. /\ conn.at = "reading"
      /\ conn' = [conn EXCEPT !.at = "read", !.snapshot = snap]
      /\ UNCHANGED apiVars /\ UNCHANGED <<sub, seen, store, mounted, askVars>>
  BY DEF ListEvents
<1>2. /\ conn \in Conn /\ Covered(conn) /\ ApiTyped
      /\ Ordered(sub, conn, seen) /\ WireGaps(conn, seen) /\ conn.task \in Tasks
  BY <1>1, ConnHasTask DEF Inv, Types, ScreenTyped, StreamOK
<1>3. snap \in SUBSET Ids /\ snap \subseteq Committed(conn.task)
  BY <1>2, CommittedIds
<1>4. \A i \in Committed(conn.task) : i > conn.sent => i \in snap
  OBVIOUS
<1> HIDE DEF snap
<1>5. /\ conn' \in Conn /\ conn'.at = "read" /\ conn'.task = conn.task /\ conn'.wire = conn.wire
      /\ conn'.sent = conn.sent /\ conn'.snapshot = snap /\ conn'.queue = conn.queue
      /\ conn'.listens = conn.listens
  <2> DEFINE c == [conn EXCEPT !.at = "read"]
  <2>1. /\ c \in Conn /\ c.at = "read" /\ c.task = conn.task /\ c.wire = conn.wire
        /\ c.sent = conn.sent /\ c.queue = conn.queue /\ c.listens = conn.listens
    BY <1>2 DEF Conn
  <2>2. conn' = [c EXCEPT !.snapshot = snap]
    BY <1>1
  <2> HIDE DEF c
  <2> QED
    BY <1>3, <2>1, <2>2 DEF Conn
<1>6. Ordered(sub, conn', seen) /\ WireGaps(conn', seen)
  BY <1>1, <1>2, <1>5 DEF Ordered, WireGaps
<1>7. /\ ApiTyped' /\ Logs' /\ UNCHANGED <<created, root, current, log, posting>>
      /\ \A t \in Tasks : Committed(t)' = Committed(t)
  BY <1>1, SameLogs
<1>8. Covered(conn)'
  <2>1. ~conn.listens => EndPublished(conn.task)
    BY <1>1, <1>2 DEF Covered
  <2>2. \A t : EndPublished(t) => EndPublished(t)'
    BY <1>7 DEF EndPublished, EndIds, Posted, Committed
  <2>3. conn.queue \subseteq Committed(conn.task)
    BY <1>1, <1>2 DEF Covered
  <2>4. conn'.snapshot \cup conn'.queue \subseteq Committed(conn.task)'
    BY <1>2, <1>3, <1>5, <1>7, <2>3
  <2>5. \A i \in Committed(conn.task)' :
          i > conn'.sent => i \in conn'.snapshot \cup conn'.queue
    BY <1>2, <1>4, <1>5, <1>7
  <2> QED
    BY <1>5, <2>1, <2>2, <2>4, <2>5 DEF Covered
<1> QED
  BY <1>1, <1>5, <1>6, <1>7, <1>8, ConnStepOK

\* The replay and the queue leave nothing out but what overtakes, or is overtaken by, an end.
LEMMA ReplayGaps ==
  ASSUME Inv, conn.at = "read", NEW t, t = conn.task,
         NEW ids, ids = {i \in conn.snapshot \cup conn.queue : i > conn.sent},
         NEW last \in UpToEnd(t, ids), NEW i \in Committed(t),
         conn.sent < i, i < last, i \notin UpToEnd(t, ids)
  PROVE  log[t][i] \in Failing \/ (log[t][last] \in Failing /\ i = last - 1)
<1>1. /\ t \in Tasks /\ Covered(conn) /\ ApiTyped /\ LogOK(t) /\ posting[t] \subseteq Post
  BY ConnHasTask DEF Inv, Types, StreamOK, Logs, ApiTyped
<1>2. ids \subseteq Committed(t) /\ last \in ids
  BY <1>1 DEF Covered, UpToEnd
<1>3. /\ Committed(t) \subseteq DOMAIN log[t] /\ DOMAIN log[t] \subseteq Nat
      /\ DOMAIN log[t] = 1 .. Len(log[t]) /\ Len(log[t]) \in Nat
  BY <1>1, CommittedIds, IdsAreNumbers, NumbersOfBounds
<1>4. i \notin ids
  <2> SUFFICES ASSUME i \in ids PROVE FALSE
    OBVIOUS
  <2>1. PICK j \in ids : j < i /\ log[t][j] \in Ends
    BY DEF UpToEnd
  <2>2. j < last
    BY <1>2, <1>3, <2>1
  <2> QED
    BY <2>1, <2>2 DEF UpToEnd
<1>5. Posted(t, i) \/ Missable(t, i)
  BY <1>1, <1>4 DEF Covered
<1>6. CASE Posted(t, i)
  <2>1. PICK q \in posting[t] : q.id = i
    BY <1>6 DEF Posted
  <2>2. last \in DOMAIN log[t] /\ last \in Nat /\ i \in Nat
    BY <1>2, <1>3
  <2>3. log[t][i] \in Failing \/ (last = i + 1 /\ log[t][last] \in Failing)
    BY <1>1, <2>1, <2>2, PostBelow
  <2> QED
    BY <2>2, <2>3
<1>7. CASE Missable(t, i)
  <2>1. last \in 1 .. Len(log[t]) /\ i \in 1 .. Len(log[t])
    BY <1>2, <1>3
  <2>2. i = Len(log[t]) - 1 /\ log[t][Len(log[t])] \in Failing
    BY <1>3, <1>7, <2>1 DEF Missable
  <2>3. last = Len(log[t])
    BY <1>3, <2>1, <2>2
  <2> QED
    BY <2>2, <2>3
<1> QED
  BY <1>5, <1>6, <1>7

\* The controller replays and goes live.
LEMMA ReplayInv == ASSUME Inv, Replay PROVE Inv'
<1>0. SUFFICES ASSUME NEW t \in Tasks, t = conn.task, conn.at = "read" PROVE Inv'
  BY ConnHasTask DEF Replay
<1> DEFINE c   == [conn EXCEPT !.at = "live", !.snapshot = {}, !.queue = {}]
           ids == {i \in conn.snapshot \cup conn.queue : i > conn.sent}
           S   == UpToEnd(t, ids)
<1>1. /\ conn.at = "read" /\ conn' \in Emit(c, conn.snapshot \cup conn.queue)
      /\ UNCHANGED apiVars /\ UNCHANGED <<sub, seen, store, mounted, askVars>>
  BY DEF Replay
<1>2. /\ conn \in Conn /\ Covered(conn) /\ ApiTyped /\ seen \in Seen /\ SeenGaps(sub, seen)
      /\ Ordered(sub, conn, seen) /\ WireGaps(conn, seen)
      /\ conn.task = sub.task /\ seen.task = conn.task
  BY <1>1, ConnHasTask DEF Inv, Types, ScreenTyped, StreamOK
<1>3. t \in Tasks /\ LogOK(t)
  BY <1>0 DEF Inv, Logs
<1>4. /\ c \in Conn /\ c.at = "live" /\ c.task = t /\ c.wire = conn.wire
      /\ c.sent = conn.sent /\ c.snapshot = {} /\ c.queue = {} /\ c.listens = conn.listens
  <2> DEFINE c1 == [conn EXCEPT !.at = "live"]
             c2 == [c1 EXCEPT !.snapshot = {}]
  <2>1. /\ c1 \in Conn /\ c1.at = "live" /\ c1.task = t /\ c1.wire = conn.wire
        /\ c1.sent = conn.sent /\ c1.listens = conn.listens
    BY <1>0, <1>2 DEF Conn
  <2>2. c = [c2 EXCEPT !.queue = {}]
    OBVIOUS
  <2> HIDE DEF c1, c
  <2>3. /\ c2 \in Conn /\ c2.at = "live" /\ c2.task = t /\ c2.wire = conn.wire
        /\ c2.sent = conn.sent /\ c2.listens = conn.listens /\ c2.snapshot = {}
    BY <2>1 DEF Conn
  <2> HIDE DEF c2
  <2> QED
    BY <2>2, <2>3 DEF Conn
<1> HIDE DEF c
<1>5. conn' \in Sent(c, S)
  BY <1>1, <1>4 DEF Emit
<1>6. t = conn.task /\ ids = {i \in conn.snapshot \cup conn.queue : i > conn.sent}
  BY <1>0
<1>7. ids \subseteq Committed(t) /\ \A i \in ids : i > conn.sent
  BY <1>0, <1>1, <1>2 DEF Covered
<1>a. S = UpToEnd(t, ids)
  OBVIOUS
<1>b. \A i \in Committed(t) : i > conn.sent /\ i \notin ids => i \notin conn.snapshot \cup conn.queue
  OBVIOUS
<1> HIDE DEF ids, S
<1>8. /\ S \subseteq ids
      /\ \A i, j \in ids : log[t][i] \in Ends /\ log[t][j] \in Ends => i = j
      /\ (\A i \in S : log[t][i] \notin Ends) => S = ids
  BY <1>2, <1>3, <1>7, <1>a, EndIsFirst
<1>9. \A last \in S : \A i \in Committed(t) : conn.sent < i /\ i < last /\ i \notin S =>
        log[t][i] \in Failing \/ (log[t][last] \in Failing /\ i = last - 1)
  BY <1>1, <1>6, <1>a, ReplayGaps
<1>10. Ordered(sub, c, seen) /\ WireGaps(c, seen)
  BY <1>1, <1>2, <1>4, <1>6 DEF Ordered, WireGaps
<1>11. /\ conn' \in Conn /\ conn'.task = c.task /\ conn'.snapshot = c.snapshot
       /\ conn'.queue = c.queue
       /\ Ordered(sub, conn', seen) /\ WireGaps(conn', seen)
       /\ \A i \in S : i <= conn'.sent
       /\ c.sent <= conn'.sent
       /\ LET ended == \E i \in S : log[c.task][i] \in Ends
          IN  /\ conn'.at = (IF ended THEN "done" ELSE "live")
              /\ conn'.listens = (c.listens /\ ~ended)
  <2>1. S \subseteq Committed(t) /\ \A i \in S : i > conn.sent
    BY <1>7, <1>8
  <2>2. \A i, j \in S : log[t][i] \in Ends /\ log[t][j] \in Ends => i = j
    BY <1>8
  <2>3. sub.task = c.task /\ seen.task = c.task
    BY <1>2, <1>4, <1>6
  <2> QED
    BY <1>2, <1>3, <1>4, <1>5, <1>9, <1>10, <2>1, <2>2, <2>3, SendsOK
<1>12. /\ ApiTyped' /\ Logs' /\ UNCHANGED <<created, root, current, log, posting>>
       /\ \A u \in Tasks : Committed(u)' = Committed(u)
  BY <1>1, SameLogs
<1>13. conn'.at \in {"live", "done"} /\ conn'.task = conn.task
  BY <1>4, <1>6, <1>11
<1>14. Covered(conn)'
  <2>1. SUFFICES ASSUME conn'.at = "live" PROVE Covered(conn)'
    BY <1>13 DEF Covered
  <2>2. (\A i \in S : log[t][i] \notin Ends) /\ conn'.listens = conn.listens
    BY <1>4, <1>11, <2>1 DEF Conn
  <2>3. S = ids
    BY <1>8, <2>2
  <2>4. ~conn.listens => EndPublished(t)
    BY <1>1, <1>2, <1>6 DEF Covered
  <2>5. \A u : EndPublished(u) => EndPublished(u)'
    BY <1>12 DEF EndPublished, EndIds, Posted, Committed
  <2>6. conn'.snapshot \cup conn'.queue \subseteq Committed(t)'
    BY <1>4, <1>11
  <2>7. ASSUME conn'.listens, NEW i \in Committed(t)', i > conn'.sent PROVE Posted(t, i)'
    <3>1. i \in Committed(t)
      BY <1>3, <1>12
    <3>2. i \in Nat /\ conn.sent \in Nat /\ conn'.sent \in Nat
      BY <1>2, <1>3, <1>11, <3>1, CommittedIds, IdsAreNumbers, NumbersOfBounds DEF Conn
    <3>3. i > conn.sent /\ i \notin ids
      BY <1>4, <1>11, <2>3, <2>7, <3>2
    <3>4. Posted(t, i)
      BY <1>1, <1>2, <1>6, <1>b, <2>2, <2>7, <3>1, <3>3 DEF Covered
    <3> QED
      BY <1>12, <3>4 DEF Posted
  <2> QED
    BY <1>6, <1>13, <2>1, <2>2, <2>4, <2>5, <2>6, <2>7 DEF Covered
<1>15. conn.at = "none" => conn' = conn
  BY <1>1
<1>16. conn.at # "none" => conn'.at # "none" /\ conn'.task = conn.task
  BY <1>13
<1> QED
  BY <1>1, <1>11, <1>12, <1>14, <1>15, <1>16, ConnStepOK

\* The client asks for what follows the last event it has handed over.
LEMMA ReconnectInv == ASSUME Inv, Reconnect PROVE Inv'
<1> DEFINE su == [sub EXCEPT !.waits = FALSE]
           co == AskFor(sub.task, sub.lastId)
<1>1. /\ sub.waits /\ sub' = su /\ conn' = co /\ UNCHANGED <<seen, store, mounted>>
      /\ UNCHANGED apiVars /\ UNCHANGED <<asks, news, asked>>
  BY DEF Reconnect, askVars
<1>2. /\ sub \in Sub /\ ScreenTyped /\ sub.task # NoTask /\ sub.task \in Tasks
      /\ StreamOK(sub, conn, seen)
  BY <1>1, ConnHasTask DEF Inv, Types, ScreenTyped, Linked
<1>3. /\ su \in Sub /\ su.task = sub.task /\ su.lastId = sub.lastId /\ su.waits = FALSE
      /\ sub.lastId \in 0 .. MaxLog
  BY <1>2 DEF Sub
<1>4. /\ co \in Conn /\ co.at = "reading" /\ co.task = sub.task /\ co.sent = sub.lastId
      /\ co.wire = <<>> /\ co.snapshot = {} /\ co.queue = {} /\ co.listens
  BY <1>2, <1>3, FreshTypes DEF AskFor, Subscribe, NoConn
<1> HIDE DEF su, co
<1>5. ToSet(<<>>) = {} /\ Ascends(<<>>)
  BY DEF ToSet, Ascends
<1>6. StreamOK(su, co, seen)
  <2>1. Ordered(su, co, seen)
    BY <1>2, <1>3, <1>4, <1>5, NumbersOfBounds DEF StreamOK, Ordered
  <2>2. SeenGaps(su, seen)
    BY <1>2, <1>3 DEF StreamOK, SeenGaps
  <2>3. WireGaps(co, seen) /\ Covered(co)
    BY <1>4, <1>5 DEF WireGaps, Covered
  <2> QED
    BY <2>1, <2>2, <2>3 DEF StreamOK
<1>7. UNCHANGED <<log, posting>>
  BY <1>1, SameApi
<1>8. StreamOK(sub, conn, seen)'
  BY <1>1, <1>6, <1>7, KeptOK DEF Kept
<1>9. Linked' /\ LiveTaskIsFollowed'
  BY <1>1, <1>2, <1>3, <1>4 DEF Inv, Linked, LiveTaskIsFollowed
<1>10. ScreenTyped'
  BY <1>1, <1>2, <1>3, <1>4 DEF ScreenTyped
<1>11. ScreenInv'
  BY <1>8, <1>9, <1>10 DEF ScreenInv
<1>12. /\ AskTyped'
       /\ \A b \in asks' : Known(b.parent)' /\ (b.at = "created" => Known(b.task)')
  BY <1>1, SameAsks
<1>13. Known(store.task)' /\ Known(news.task)'
  BY <1>1 DEF Known, Inv, AllKnown, apiVars
<1> QED
  BY <1>1, <1>11, <1>12, <1>13, InvParts

\* A connection is lost: the client waits, or gives up and shows an error.
LEMMA LostOK ==
  ASSUME Inv, LogsGrow, Lost, conn.at # "none"
  PROVE  ScreenInv' /\ store'.task = store.task
<1>1. /\ ScreenTyped /\ sub \in Sub /\ seen \in Seen /\ mounted \in BOOLEAN /\ Linked
      /\ SeenGaps(sub, seen) /\ Ordered(sub, conn, seen)
  BY DEF Inv, Types, ScreenTyped, StreamOK
<1>2. CASE sub.retries < RetryLimit
  <2> DEFINE w  == [sub EXCEPT !.waits = TRUE]
             su == [w EXCEPT !.retries = sub.retries + 1]
  <2>1. sub' = su /\ conn' = NoConn /\ UNCHANGED <<seen, store, mounted>>
    BY <1>2 DEF Lost
  <2>2. w \in Sub /\ w.task = sub.task /\ w.lastId = sub.lastId /\ w.waits = TRUE
    BY <1>1 DEF Sub
  <2>3. sub.retries + 1 \in 0 .. RetryLimit
    BY <1>1, <1>2, NumbersOfBounds DEF Sub
  <2> HIDE DEF w
  <2>4. su \in Sub /\ su.task = sub.task /\ su.lastId = sub.lastId /\ su.waits = TRUE
    BY <2>2, <2>3 DEF Sub
  <2> HIDE DEF su
  <2>5. conn'.at = "none" /\ conn' \in Conn
    BY <2>1, FreshTypes DEF NoConn
  <2>6. ScreenTyped'
    BY <1>1, <2>1, <2>4, <2>5 DEF ScreenTyped
  <2>7. Linked' /\ LiveTaskIsFollowed'
    BY <1>1, <2>1, <2>4, <2>5 DEF Inv, Linked, LiveTaskIsFollowed
  <2>8. Ordered(sub, conn, seen)'
    BY <1>1, <2>1, <2>4, <2>5 DEF Ordered
  <2>9. SeenGaps(sub, seen)'
    <3>1. \A u, after, se : SeenGaps(u, se) /\ (after.task # NoTask => u.task # NoTask)
                              => SeenGaps(after, se)'
      BY SeenGapsStay
    <3> QED
      BY <1>1, <2>1, <2>4, <3>1 DEF SeenGaps
  <2>10. WireGaps(conn, seen)' /\ Covered(conn)'
    BY <2>5 DEF WireGaps, Covered
  <2> QED
    BY <2>1, <2>6, <2>7, <2>8, <2>9, <2>10 DEF ScreenInv, StreamOK
<1>3. CASE ~(sub.retries < RetryLimit)
  <2>1. Rendered(SetTaskError, mounted, NoSub, NoConn, seen)
    BY <1>3 DEF Lost
  <2>2. /\ IsStore(SetTaskError) /\ SetTaskError.task = store.task
        /\ SetTaskError.status = "failed"
    BY StoreChanges DEF SetTaskError
  <2>3. Fits(SetTaskError, NoSub, NoConn, seen)
    BY <2>2 DEF Fits, NoSub, NoConn, Active
  <2>4. /\ Linked' /\ LiveTaskIsFollowed'
        /\ Opened(SetTaskError.task) \/ Closed(seen) \/ Kept(NoSub, NoConn, seen)
    BY <1>1, <2>1, <2>3, RenderedCases
  <2>5. ScreenTyped' /\ store' = SetTaskError
    BY <1>1, <2>1, <2>2, FreshTypes, RenderedTypes DEF IsStore
  <2>6. StreamOK(sub, conn, seen)'
    <3>1. CASE Opened(SetTaskError.task)
      <4>1. SetTaskError.task \in Tasks
        BY <2>2, <3>1 DEF Opened, IsStore
      <4> QED
        BY <3>1, <4>1, OpenedOK
    <3>2. CASE Closed(seen) \/ Kept(NoSub, NoConn, seen)
      <4>1. PICK se : se = seen
        OBVIOUS
      <4>2. Closed(se) /\ Ascends(se.ids) /\ SeenGaps(sub, se)
        BY <1>1, <3>2, <4>1 DEF Closed, Kept, Ordered
      <4>3. NoSub.task = NoTask
        BY DEF NoSub
      <4>4. SeenGaps(NoSub, se)'
        BY <4>2, <4>3, SeenGapsStay
      <4> QED
        BY <4>2, <4>4, ClosedOK
    <3> QED
      BY <2>4, <3>1, <3>2
  <2> QED
    BY <2>2, <2>4, <2>5, <2>6 DEF ScreenInv
<1> QED
  BY <1>2, <1>3

\* A connection breaks.
LEMMA ConnectionLostInv == ASSUME Inv, ConnectionLost PROVE Inv'
<1>1. /\ conn.at # "none" /\ Lost /\ UNCHANGED apiVars /\ UNCHANGED <<asks, news, asked>>
  BY DEF ConnectionLost, askVars
<1>2. LogsGrow
  <2>1. ApiTyped /\ ApiTyped' /\ UNCHANGED <<log, posting>>
    BY <1>1, SameApi DEF Inv, Types
  <2> QED
    BY <2>1, SameLog DEF LogsGrow
<1>3. ScreenInv' /\ store'.task = store.task
  BY <1>1, <1>2, LostOK
<1>4. /\ AskTyped'
      /\ \A b \in asks' : Known(b.parent)' /\ (b.at = "created" => Known(b.task)')
  BY <1>1, SameAsks
<1>5. Known(store.task)' /\ Known(news.task)'
  BY <1>1, <1>3 DEF Known, Inv, AllKnown, apiVars
<1> QED
  BY <1>1, <1>3, <1>4, <1>5, InvParts

\* The API restarts: what was committed is still there, and nothing is on its way.
LEMMA CrashLogs ==
  ASSUME Inv, Crash
  PROVE  LogsGrow /\ Logs'
<1>1. /\ log' = [t \in Tasks |-> [i \in DOMAIN log[t] |->
                  IF \E p \in posting[t] : p.id = i /\ ~p.stored THEN "void" ELSE log[t][i]]]
      /\ posting' = [t \in Tasks |-> {}]
      /\ UNCHANGED <<created, root, current>>
  BY DEF Crash
<1>2. ApiTyped /\ \A t \in Tasks : LogOK(t)
  BY DEF Inv, Types, Logs
<1>3. ASSUME NEW t \in Tasks
      PROVE  /\ log'[t] \in Seq(EventType) /\ Len(log'[t]) <= MaxLog /\ posting'[t] = {}
             /\ LogGrows(t) /\ LogOK(t)'
  <2>1. /\ DOMAIN log'[t] = DOMAIN log[t] /\ posting'[t] = {}
        /\ \A i \in DOMAIN log[t] : log'[t][i] =
             IF \E p \in posting[t] : p.id = i /\ ~p.stored THEN "void" ELSE log[t][i]
    BY <1>1
  <2>2. /\ DOMAIN log[t] = 1 .. Len(log[t]) /\ Len(log[t]) \in Nat /\ Len(log[t]) <= MaxLog
        /\ \A i \in DOMAIN log[t] : log[t][i] \in EventType
    BY <1>2, CommittedIds, NumbersOfBounds DEF ApiTyped
  <2>3. log'[t] = [i \in 1 .. Len(log[t]) |->
                    IF \E p \in posting[t] : p.id = i /\ ~p.stored THEN "void" ELSE log[t][i]]
    BY <1>1, <2>2
  <2>4. \A i \in 1 .. Len(log[t]) :
          (IF \E p \in posting[t] : p.id = i /\ ~p.stored THEN "void" ELSE log[t][i]) \in EventType
    BY <2>2 DEF EventType
  <2>5. log'[t] \in [1 .. Len(log[t]) -> EventType]
    BY <2>3, <2>4
  <2>6. log'[t] \in Seq(EventType) /\ Len(log'[t]) = Len(log[t])
    <3>1. PICK n \in Nat : n = Len(log[t])
      BY <2>2
    <3>2. \A f \in [1 .. n -> EventType] : f \in Seq(EventType) /\ Len(f) = n
      BY <3>1
    <3> QED
      BY <2>5, <3>1, <3>2
  <2>7. Committed(t)' = Committed(t)
    BY <2>1 DEF Committed
  <2>8. \A i \in Committed(t) : log'[t][i] = log[t][i]
    BY <2>1 DEF Committed
  <2>9. LogGrows(t)
    BY <2>7, <2>8 DEF LogGrows
  <2>10. LogOK(t)'
    <3>1. \A i \in DOMAIN log'[t] : log'[t][i] \in Ends => i \in DOMAIN log[t] /\ log[t][i] \in Ends
      BY <2>1 DEF Ends
    <3> QED
      BY <1>2, <2>1, <3>1 DEF LogOK
  <2> QED
    BY <2>1, <2>2, <2>6, <2>9, <2>10
<1>4. ApiTyped'
  <2>1. log' \in [Tasks -> Seq(EventType)]
    BY <1>1, <1>3
  <2>2. posting' \in [Tasks -> SUBSET Post]
    BY <1>1
  <2> QED
    BY <1>1, <1>2, <1>3, <2>1, <2>2 DEF ApiTyped
<1> QED
  BY <1>2, <1>3, <1>4 DEF LogsGrow, Logs

\* The requests to it are lost.
LEMMA CrashAsks ==
  ASSUME Inv, Crash, store'.task = store.task
  PROVE  AskTyped' /\ AllKnown'
<1>1. /\ asks' = {[a EXCEPT !.at = "lost"] : a \in asks} /\ asked' = asked
      /\ UNCHANGED <<created, root, current, news>>
  BY DEF Crash
<1>2. asks \subseteq Ask /\ asked \in 0 .. N /\ AllKnown
  BY DEF Inv, Types, AskTyped
<1>3. ASSUME NEW b \in asks' PROVE b \in Ask /\ Known(b.parent) /\ b.at = "lost"
  <2>1. PICK a \in asks : b = [a EXCEPT !.at = "lost"]
    BY <1>1
  <2>2. a \in Ask /\ Known(a.parent)
    BY <1>2 DEF AllKnown
  <2>3. b \in Ask /\ b.parent = a.parent /\ b.at = "lost"
    BY <2>1, <2>2 DEF Ask
  <2> QED
    BY <2>2, <2>3
<1>4. AskTyped'
  BY <1>1, <1>2, <1>3 DEF AskTyped
<1>5. AllKnown'
  BY <1>1, <1>2, <1>3 DEF AllKnown, Known
<1> QED
  BY <1>4, <1>5

\* A restart keeps the invariant.
LEMMA CrashInv == ASSUME Inv, Crash PROVE Inv'
<1>1. LogsGrow /\ Logs'
  BY CrashLogs
<1>2. ScreenInv' /\ store'.task = store.task
  <2>1. CASE conn.at # "none"
    <3>1. Lost
      BY <2>1 DEF Crash
    <3> QED
      BY <1>1, <2>1, <3>1, LostOK
  <2>2. CASE conn.at = "none"
    <3>1. UNCHANGED <<conn, sub, seen, store, mounted>>
      BY <2>2 DEF Crash, screenVars
    <3>2. ScreenTyped' /\ Linked' /\ LiveTaskIsFollowed'
      BY <3>1 DEF Inv, Types, ScreenTyped, Linked, LiveTaskIsFollowed
    <3>3. Ordered(sub, conn, seen)' /\ WireGaps(conn, seen)' /\ Covered(conn)'
      BY <2>2, <3>1 DEF Inv, StreamOK, Ordered, WireGaps, Covered
    <3>4. SeenGaps(sub, seen)'
      <4>1. \A su, se : SeenGaps(su, se) => SeenGaps(su, se)'
        BY <1>1, SeenGapsStay
      <4> QED
        BY <3>1, <4>1 DEF SeenGaps, Inv, StreamOK
    <3> QED
      BY <3>1, <3>2, <3>3, <3>4 DEF ScreenInv, StreamOK
  <2> QED
    BY <2>1, <2>2
<1>3. AskTyped' /\ AllKnown'
  BY <1>2, CrashAsks
<1> QED
  BY <1>1, <1>2, <1>3 DEF Inv, Types, LogsGrow, ScreenInv

\* The head of the wire is handed over: the order of the ids.
LEMMA FlushOrdered ==
  ASSUME NEW su, NEW co \in Conn, NEW se \in Seen, su.task # NoTask, su.lastId \in Nat,
         co.at # "none", Ordered(su, co, se), NEW k \in 1 .. Len(co.wire),
         NEW su2, NEW co2, NEW se2,
         su2.lastId = co.wire[k], co2.at = co.at, co2.sent = co.sent,
         co2.wire = SubSeq(co.wire, k + 1, Len(co.wire)),
         se2.ids = se.ids \o SubSeq(co.wire, 1, k)
  PROVE  Ordered(su2, co2, se2)
<1>1. co.wire \in Seq(Ids) /\ se.ids \in Seq(Ids) /\ co.sent \in Nat
  BY NumbersOfBounds DEF Conn, Seen
<1>2. /\ Ascends(se.ids) /\ Ascends(co.wire)
      /\ \A i \in ToSet(se.ids) : i <= su.lastId
      /\ \A i \in ToSet(co.wire) : su.lastId < i /\ i <= co.sent
      /\ co.sent = su.lastId \/ co.sent \in ToSet(co.wire)
  BY DEF Ordered
<1> DEFINE head == SubSeq(co.wire, 1, k)
           rest == SubSeq(co.wire, k + 1, Len(co.wire))
           id   == co.wire[k]
<1>3. /\ head \in Seq(Ids) /\ rest \in Seq(Ids) /\ Ascends(head) /\ Ascends(rest)
      /\ ToSet(co.wire) = ToSet(head) \cup ToSet(rest)
      /\ id \in ToSet(head)
      /\ \A i \in ToSet(head) : i <= id
      /\ \A i \in ToSet(rest) : i > id
  BY <1>1, <1>2, CutIds
<1>4. su2.lastId = id /\ co2.wire = rest /\ se2.ids = se.ids \o head
  OBVIOUS
<1> HIDE DEF head, rest, id
<1>5. /\ id \in Nat /\ su.lastId < id /\ id <= co.sent
      /\ \A i \in ToSet(head) \cup ToSet(rest) \cup ToSet(se.ids) : i \in Nat
  BY <1>1, <1>2, <1>3, SetOfIds
<1>6. Ascends(se2.ids)
  <2>1. \A i \in ToSet(head) : i > su.lastId
    BY <1>2, <1>3, <1>5
  <2> QED
    BY <1>1, <1>2, <1>3, <1>4, <2>1, ConcatAscends
<1>7. ToSet(se2.ids) = ToSet(se.ids) \cup ToSet(head)
  BY <1>1, <1>3, <1>4, ConcatIds
<1>8. \A i \in ToSet(se2.ids) : i <= su2.lastId
  <2>1. \A i \in ToSet(se.ids) : i <= id
    BY <1>2, <1>5
  <2> QED
    BY <1>3, <1>4, <1>7, <2>1
<1>9. \A i \in ToSet(co2.wire) : su2.lastId < i /\ i <= co2.sent
  BY <1>2, <1>3, <1>4, <1>5
<1>10. co2.sent = su2.lastId \/ co2.sent \in ToSet(co2.wire)
  <2>1. co.sent \in ToSet(head) \cup ToSet(rest)
    BY <1>1, <1>2, <1>3, <1>5
  <2>2. co.sent \in ToSet(head) => co.sent = id
    BY <1>1, <1>3, <1>5
  <2> QED
    BY <1>4, <2>1, <2>2
<1> QED
  BY <1>3, <1>4, <1>5, <1>6, <1>7, <1>8, <1>9, <1>10 DEF Ordered

\* And the gaps.
LEMMA FlushGaps ==
  ASSUME ApiTyped, NEW t \in Tasks, conn \in Conn, seen \in Seen, NEW k \in 1 .. Len(conn.wire),
         conn.at # "none", Ascends(conn.wire), conn.task = t, seen.task = t,
         sub.task # NoTask, SeenGaps(sub, seen), WireGaps(conn, seen),
         NEW co2, NEW se2, co2.at = conn.at, co2.task = t, se2.task = t,
         co2.wire = SubSeq(conn.wire, k + 1, Len(conn.wire)),
         se2.ids = seen.ids \o SubSeq(conn.wire, 1, k),
         NEW su2, su2.task # NoTask => log[t][conn.wire[k]] \notin Ends,
         \A i \in 1 .. k - 1 : log[t][conn.wire[i]] \notin Ends
  PROVE  SeenGaps(su2, se2) /\ WireGaps(co2, se2)
<1>1. conn.wire \in Seq(Ids) /\ seen.ids \in Seq(Ids)
  BY DEF Conn, Seen
<1> DEFINE head == SubSeq(conn.wire, 1, k)
           rest == SubSeq(conn.wire, k + 1, Len(conn.wire))
           id   == conn.wire[k]
<1>2. /\ head \in Seq(Ids) /\ rest \in Seq(Ids)
      /\ ToSet(conn.wire) = ToSet(head) \cup ToSet(rest)
      /\ \A i \in ToSet(head) : i <= id
      /\ \A i \in ToSet(rest) : i > id
      /\ id \in ToSet(head)
      /\ \A i \in ToSet(head) : i # id => \E j \in 1 .. k - 1 : i = conn.wire[j]
  BY <1>1, CutIds
<1>3. co2.wire = rest /\ se2.ids = seen.ids \o head
  OBVIOUS
<1>4. /\ su2.task # NoTask => log[t][id] \notin Ends
      /\ \A i \in ToSet(head) : i # id => log[t][i] \notin Ends
  BY <1>2
<1> HIDE DEF head, rest, id
<1>5. ToSet(se2.ids) = ToSet(seen.ids) \cup ToSet(head)
  BY <1>1, <1>2, <1>3, ConcatIds
<1>6. id \in Nat /\ \A i \in ToSet(head) \cup ToSet(rest) : i \in Nat
  BY <1>1, <1>2, SetOfIds
<1>7. /\ ToSet(head) \subseteq Committed(t) /\ ToSet(rest) \subseteq Committed(t)
      /\ \A last \in ToSet(head) \cup ToSet(rest) :
           NoGap(t, last, ToSet(seen.ids) \cup ToSet(head) \cup ToSet(rest))
      /\ \A i \in ToSet(rest) : log[t][i] \in Ends => conn.at = "done"
  <2>1. ToSet(seen.ids) \cup ToSet(conn.wire) = ToSet(seen.ids) \cup ToSet(head) \cup ToSet(rest)
    BY <1>2
  <2> QED
    BY <1>2, <2>1 DEF WireGaps
<1>8. /\ ToSet(seen.ids) \subseteq Committed(t)
      /\ \A last \in ToSet(seen.ids) : NoGap(t, last, ToSet(seen.ids))
      /\ \A i \in ToSet(seen.ids) : log[t][i] \notin Ends
  <2>1. seen.ids = <<>> => ToSet(seen.ids) = {}
    BY DEF ToSet
  <2> QED
    BY <2>1 DEF SeenGaps
<1>9. WireGaps(co2, se2)
  <2>1. ToSet(se2.ids) \cup ToSet(co2.wire) = ToSet(seen.ids) \cup ToSet(head) \cup ToSet(rest)
    BY <1>3, <1>5
  <2> QED
    BY <1>3, <1>7, <2>1 DEF WireGaps
<1>10. ASSUME NEW last \in ToSet(se2.ids) PROVE NoGap(t, last, ToSet(se2.ids))
  <2>1. CASE last \in ToSet(seen.ids)
    BY <1>5, <1>8, <2>1 DEF NoGap
  <2>2. CASE last \in ToSet(head)
    <3> SUFFICES ASSUME NEW i \in Committed(t), i < last, i \notin ToSet(se2.ids)
                 PROVE  log[t][i] \in Failing \/ (log[t][last] \in Failing /\ i = last - 1)
      BY DEF NoGap
    <3>1. i \in Nat
      BY CommittedIds, IdsAreNumbers
    <3>2. last \in Nat /\ last <= id /\ id \in Nat
      BY <1>2, <1>6, <2>2
    <3>3. i \notin ToSet(rest)
      <4>1. ~(i > id)
        BY <3>1, <3>2
      <4> QED
        BY <1>2, <4>1
    <3> QED
      BY <1>5, <1>7, <2>2, <3>3 DEF NoGap
  <2> QED
    BY <1>5, <2>1, <2>2
<1>11. su2.task # NoTask => \A i \in ToSet(se2.ids) : log[t][i] \notin Ends
  BY <1>4, <1>5, <1>8
<1>12. SeenGaps(su2, se2)
  BY <1>5, <1>7, <1>8, <1>10, <1>11 DEF SeenGaps
<1> QED
  BY <1>9, <1>12

\* The client hands over what has come: a task that goes on keeps its subscription,
\* and the screen closes that of one that has ended.
LEMMA FlushInv ==
  ASSUME Inv, NEW k \in 1 .. Len(conn.wire), Flush(k)
  PROVE  Inv'
<1> DEFINE ids  == SubSeq(conn.wire, 1, k)
           rest == SubSeq(conn.wire, k + 1, Len(conn.wire))
           id   == conn.wire[k]
           st   == Apply(store, sub.task, ids)
           late == [sub EXCEPT !.lastId = Last(ids)]
           su   == [sub EXCEPT !.lastId = Last(ids), !.retries = 0]
           co   == [conn EXCEPT !.wire = rest]
           se   == [seen EXCEPT !.ids = @ \o ids]
<1>1. /\ \A i \in 1 .. k - 1 : log[sub.task][conn.wire[i]] \notin Ends
      /\ Rendered(st, mounted, su, co, se)
      /\ UNCHANGED apiVars /\ UNCHANGED <<asks, news, asked>>
  <2>1. [conn EXCEPT !.wire = SubSeq(@, k + 1, Len(@))] = co
    OBVIOUS
  <2> QED
    BY <2>1 DEF Flush, askVars
<1>2. /\ conn \in Conn /\ sub \in Sub /\ seen \in Seen /\ mounted \in BOOLEAN
      /\ ApiTyped /\ Linked /\ LiveTaskIsFollowed
      /\ Ordered(sub, conn, seen) /\ SeenGaps(sub, seen) /\ WireGaps(conn, seen) /\ Covered(conn)
  BY DEF Inv, Types, ScreenTyped, StreamOK
<1>3. conn.wire \in Seq(Ids) /\ conn.wire # <<>> /\ seen.ids \in Seq(Ids)
  <2>1. conn.wire \in Seq(Ids) /\ seen.ids \in Seq(Ids)
    BY <1>2 DEF Conn, Seen
  <2> QED
    BY <2>1
<1>4. /\ conn.at # "none" /\ sub.task # NoTask /\ ~sub.waits /\ sub.task \in Tasks
      /\ conn.task = sub.task /\ seen.task = sub.task
      /\ mounted /\ sub.task = store.task /\ store.status \in Active
  BY <1>2, <1>3, ConnHasTask DEF Linked, NoConn
<1>5. Ascends(conn.wire)
  BY <1>2, <1>4 DEF Ordered
<1>6. ids \in Seq(Ids) /\ rest \in Seq(Ids) /\ Last(ids) = id /\ id \in ToSet(ids)
  BY <1>3, <1>5, CutIds
<1>7. id \in Ids
  BY <1>6, SetOfIds
<1>8. /\ st.task = sub.task /\ IsStore(st)
      /\ st.status = IF log[sub.task][id] \in Ends THEN log[sub.task][id] ELSE "running"
  <2> HIDE DEF ids
  <2>1. PICK b, c : /\ st = [task |-> sub.task, status |-> b, text |-> c]
                    /\ b = IF log[sub.task][id] \in Ends THEN log[sub.task][id] ELSE "running"
    BY <1>6 DEF Apply
  <2> HIDE DEF st
  <2> QED
    BY <1>4, <2>1, StoreRecord
<1>9. /\ su \in Sub /\ su.task = sub.task /\ su.waits = sub.waits /\ su.lastId = id
  <2>1. id \in 0 .. MaxLog /\ 0 \in 0 .. RetryLimit
    BY <1>7, NumbersOfBounds DEF Ids
  <2>2. late \in Sub /\ late.task = sub.task /\ late.waits = sub.waits /\ late.lastId = id
    BY <1>2, <1>6, <2>1 DEF Sub
  <2>3. su = [late EXCEPT !.retries = 0]
    OBVIOUS
  <2> HIDE DEF su, late
  <2> QED
    BY <2>1, <2>2, <2>3 DEF Sub
<1>10. /\ co \in Conn /\ co.at = conn.at /\ co.task = conn.task /\ co.sent = conn.sent
       /\ co.wire = rest /\ co.snapshot = conn.snapshot /\ co.queue = conn.queue
       /\ co.listens = conn.listens
  BY <1>2, <1>6 DEF Conn
<1>11. se \in Seen /\ se.task = seen.task /\ se.ids = seen.ids \o ids
  <2>1. seen.ids \o ids \in Seq(Ids)
    BY <1>3, <1>6, ConcatIds
  <2> QED
    BY <1>2, <2>1 DEF Seen
<1>12. Ordered(su, co, se)
  <2>1. sub.lastId \in Nat
    BY <1>2, NumbersOfBounds DEF Sub
  <2> HIDE DEF su, co, se
  <2> QED
    BY <1>2, <1>4, <1>9, <1>10, <1>11, <2>1, FlushOrdered
<1>13. ASSUME NEW su2, su2.task # NoTask => log[sub.task][id] \notin Ends
       PROVE  SeenGaps(su2, se) /\ WireGaps(co, se)
  <2> HIDE DEF su, co, se
  <2>1. /\ co.task = sub.task /\ se.task = sub.task /\ co.at = conn.at
        /\ co.wire = SubSeq(conn.wire, k + 1, Len(conn.wire))
        /\ se.ids = seen.ids \o SubSeq(conn.wire, 1, k)
    BY <1>4, <1>10, <1>11
  <2>2. su2.task # NoTask => log[sub.task][conn.wire[k]] \notin Ends
    BY <1>13
  <2>3. \A i \in 1 .. k - 1 : log[sub.task][conn.wire[i]] \notin Ends
    BY <1>1
  <2>4. /\ conn.at # "none" /\ conn.task = sub.task /\ seen.task = sub.task /\ sub.task # NoTask
        /\ sub.task \in Tasks
    BY <1>4
  <2> HIDE DEF ids, rest, id
  <2> QED
    BY <1>2, <1>5, <2>1, <2>2, <2>3, <2>4, FlushGaps
<1>14. UNCHANGED <<log, posting>>
  BY <1>1, SameApi
<1> HIDE DEF ids, rest, id, st, su, co, se
<1>15. ScreenTyped' /\ store' = st
  BY <1>1, <1>2, <1>8, <1>9, <1>10, <1>11, RenderedTypes DEF IsStore
<1>16. Linked' /\ LiveTaskIsFollowed' /\ StreamOK(sub, conn, seen)'
  <2>1. CASE log[sub.task][id] \notin Ends
    <3>1. Covered(co)
      BY <1>2, <1>10 DEF Covered
    <3>2. StreamOK(su, co, se)
      BY <1>12, <1>13, <2>1, <3>1 DEF StreamOK
    <3>3. Fits(st, su, co, se)
      BY <1>4, <1>8, <1>9, <1>10, <1>11 DEF Fits
    <3> QED
      BY <1>1, <1>2, <1>8, <1>14, <3>2, <3>3, ScreenStep DEF IsStore
  <2>2. CASE log[sub.task][id] \in Ends
    <3>1. st.status # store.status /\ st.status \notin Active
      BY <1>4, <1>8, <2>2 DEF Active, Ends
    <3>2. Rendered(st, mounted, NoSub, NoConn, se)
      BY <1>1, <1>4, <3>1 DEF Rendered
    <3>3. Fits(st, NoSub, NoConn, se)
      BY <3>1 DEF Fits
    <3>4. StreamOK(NoSub, NoConn, se)
      <4>1. NoSub.task = NoTask /\ NoConn.at = "none"
        BY DEF NoSub, NoConn
      <4>2. SeenGaps(NoSub, se)
        BY <1>13, <4>1
      <4>3. Ordered(NoSub, NoConn, se)
        BY <1>12, <4>1 DEF Ordered
      <4> QED
        BY <4>1, <4>2, <4>3 DEF StreamOK, WireGaps, Covered
    <3> QED
      BY <1>2, <1>8, <1>14, <3>2, <3>3, <3>4, ScreenStep DEF IsStore
  <2> QED
    BY <2>1, <2>2
<1>17. /\ AskTyped'
       /\ \A b \in asks' : Known(b.parent)' /\ (b.at = "created" => Known(b.task)')
  BY <1>1, SameAsks
<1>18. Known(store.task)' /\ Known(news.task)'
  BY <1>1, <1>4, <1>8, <1>15 DEF Known, Inv, AllKnown, apiVars
<1> QED
  BY <1>1, <1>15, <1>16, <1>17, <1>18, InvParts DEF ScreenInv

-----------------------------------------------------------------------------
(* The invariant is inductive.                                             *)

\* It holds at first.
LEMMA InitInv == ASSUME Init PROVE Inv
<1>1. /\ created = <<>> /\ root = [t \in Tasks |-> NoTask] /\ current = [t \in Tasks |-> NoTask]
      /\ log = [t \in Tasks |-> <<>>] /\ posting = [t \in Tasks |-> {}]
      /\ conn = NoConn /\ sub = NoSub /\ seen = SeenOf(NoTask)
      /\ store = EmptyStore /\ mounted = FALSE
      /\ asks = {} /\ news = NoNews /\ asked = 0
  BY DEF Init
<1>2. ApiTyped
  <2>1. <<>> \in Seq(Tasks) /\ <<>> \in Seq(EventType) /\ Len(<<>>) = 0
    OBVIOUS
  <2> QED
    BY <1>1, <2>1, NumbersOfBounds DEF ApiTyped
<1>3. ScreenTyped
  <2>1. store = [task |-> NoTask, status |-> "none", text |-> NoText]
    BY <1>1 DEF EmptyStore
  <2>2. store = [task |-> store.task, status |-> store.status, text |-> store.text]
    BY <2>1
  <2> QED
    BY <1>1, <2>2, FreshTypes DEF ScreenTyped
<1>4. AskTyped
  BY <1>1, NumbersOfBounds DEF AskTyped
<1>5. AllKnown
  BY <1>1 DEF AllKnown, Known, EmptyStore, NoNews
<1>6. Logs
  BY <1>1 DEF Logs, LogOK
<1>7. sub.task = NoTask /\ sub.waits = FALSE /\ conn.at = "none" /\ seen.ids = <<>>
  BY <1>1 DEF NoSub, NoConn, SeenOf
<1>8. Linked /\ LiveTaskIsFollowed
  BY <1>1, <1>7 DEF Linked, LiveTaskIsFollowed
<1>9. StreamOK(sub, conn, seen)
  BY <1>7 DEF StreamOK, Ordered, SeenGaps, WireGaps, Covered, Ascends
<1> QED
  BY <1>2, <1>3, <1>4, <1>5, <1>6, <1>8, <1>9 DEF Inv, Types

\* A step that changes nothing keeps it.
LEMMA StutterInv == ASSUME Inv, UNCHANGED vars PROVE Inv'
<1>1. UNCHANGED apiVars /\ UNCHANGED screenVars /\ UNCHANGED <<asks, news, asked>>
  BY DEF vars, askVars
<1>2. ScreenInv' /\ store' = store
  BY <1>1, SameApi, SameScreen
<1>3. /\ AskTyped'
      /\ \A b \in asks' : Known(b.parent)' /\ (b.at = "created" => Known(b.task)')
  BY <1>1, SameAsks
<1>4. Known(store.task)' /\ Known(news.task)'
  BY <1>1, <1>2 DEF Known, Inv, AllKnown, apiVars
<1> QED
  BY <1>1, <1>2, <1>3, <1>4, InvParts

\* Every action keeps it.
LEMMA NextInv == ASSUME Inv, Next PROVE Inv'
<1>1. CASE EventStep
  <2>1. CASE \E t \in Tasks : RelayStores(t) \/ OtherInserts(t)
    BY <2>1, InsertsInv
  <2>2. CASE \E t \in Tasks : \E p \in posting[t] : OtherCommits(t, p) \/ Publish(t, p)
    BY <2>2, CommitInv, PublishInv
  <2> QED
    BY <1>1, <2>1, <2>2 DEF EventStep
<1>2. CASE StreamStep
  BY <1>2, ListInv, ReplayInv, FlushInv, ReconnectInv DEF StreamStep
<1>3. CASE FaultStep
  BY <1>3, ConnectionLostInv, CrashInv DEF FaultStep
<1>4. CASE UserStep
  BY <1>4, UserInv
<1>5. CASE AnswerStep
  BY <1>5, AnswerInv
<1> QED
  BY <1>1, <1>2, <1>3, <1>4, <1>5 DEF Next

\* The inductive invariant: types, logs, the link from the screen to its
\* connection, and what a stream has sent and has still to send.
THEOREM StreamIsSound == Spec => []Inv
<1>1. Init => Inv
  BY InitInv
<1>2. Inv /\ [Next]_vars => Inv'
  BY StutterInv, NextInv
<1> QED
  BY <1>1, <1>2, PTL DEF Spec

-----------------------------------------------------------------------------
(* What follows.                                                           *)

\* Within a subscription the store is given every event at most once and in the
\* order of the ids: emit's comparison and the last id a reconnection sends.
THEOREM EventsComeInOrder == Spec => []SeenInOrder
<1>1. Inv => SeenInOrder
  BY DEF Inv, StreamOK, Ordered, Ascends, SeenInOrder
<1> QED
  BY <1>1, StreamIsSound, PTL

\* Replay, live events and reconnections leave nothing out but what an end stored
\* beside the relay overtakes, through crashes and however connections break.
THEOREM StreamsAreWhole == Spec => []NothingSkipped
<1>1. ASSUME Inv, seen.ids # <<>>
      PROVE  \/ Skipped = {}
             \/ /\ log[seen.task][Last(seen.ids)] \in {"failed", "cancelled"}
                /\ Skipped = {Last(seen.ids) - 1}
             \/ \E i \in Skipped : log[seen.task][i] \in {"failed", "cancelled"}
  <2>1. seen.ids \in Seq(Ids)
    <3>1. seen \in Seen
      BY <1>1 DEF Inv, Types, ScreenTyped
    <3> QED
      BY <3>1 DEF Seen
  <2>2. Last(seen.ids) \in ToSet(seen.ids)
    <3>1. Len(seen.ids) \in DOMAIN seen.ids
      BY <1>1, <2>1
    <3> QED
      BY <3>1 DEF Last, ToSet
  <2>3. NoGap(seen.task, Last(seen.ids), ToSet(seen.ids))
    BY <1>1, <2>2 DEF Inv, StreamOK, SeenGaps
  <2>4. \A i \in Skipped : \/ log[seen.task][i] \in Failing
                           \/ /\ log[seen.task][Last(seen.ids)] \in Failing
                              /\ i = Last(seen.ids) - 1
    BY <2>3 DEF Skipped, NoGap
  <2>5. CASE \E i \in Skipped : log[seen.task][i] \in Failing
    BY <2>5 DEF Failing
  <2>6. CASE ~\E i \in Skipped : log[seen.task][i] \in Failing
    <3>1. \A i \in Skipped : /\ log[seen.task][Last(seen.ids)] \in Failing
                             /\ i = Last(seen.ids) - 1
      BY <2>4, <2>6
    <3>2. CASE Skipped = {}
      BY <3>2
    <3>3. CASE Skipped # {}
      <4>1. Skipped = {Last(seen.ids) - 1}
        BY <3>1, <3>3
      <4>2. log[seen.task][Last(seen.ids)] \in Failing
        BY <3>1, <3>3
      <4> QED
        BY <4>1, <4>2 DEF Failing
    <3> QED
      BY <3>2, <3>3
  <2> QED
    BY <2>5, <2>6
<1>2. Inv => NothingSkipped
  BY <1>1 DEF NothingSkipped
<1> QED
  BY <1>2, StreamIsSound, PTL

\* A task that is shown at work has a subscription, whatever the effect, the
\* answers, the retries and the crashes do.
THEOREM ShownTaskIsFollowed == Spec => []LiveTaskIsFollowed
<1>1. Inv => LiveTaskIsFollowed
  BY DEF Inv
<1> QED
  BY <1>1, StreamIsSound, PTL
-----------------------------------------------------------------------------
(* The types of what is shown.                                             *)

\* A batch adds to a text, for every event, how often it is in the batch.
LEMMA AppendedTypes ==
  ASSUME NEW text \in Text, NEW t \in Tasks, NEW ids \in Seq(Ids)
  PROVE  AppendAssistantDelta(text, t, ids) \in Text
<1> DEFINE places(i) == {j \in DOMAIN ids : ids[j] = i /\ log[t][i] = "delta"}
           times(i)  == Cardinality(places(i))
           grown     == [i \in Ids |-> text[t][i] + times(i)]
<1>1. Len(ids) \in Nat /\ DOMAIN ids = 1 .. Len(ids)
  OBVIOUS
<1>2. IsFiniteSet(1 .. Len(ids))
  BY <1>1, FS_Interval
<1>3. ASSUME NEW i \in Ids PROVE times(i) \in Nat
  <2>1. places(i) \subseteq 1 .. Len(ids)
    BY <1>1
  <2> HIDE DEF places
  <2>2. IsFiniteSet(places(i))
    BY <1>2, <2>1, FS_Subset
  <2> QED
    BY <2>2, FS_CardinalityType
<1>4. AppendAssistantDelta(text, t, ids) = [text EXCEPT ![t] = grown]
  BY DEF AppendAssistantDelta
<1> HIDE DEF times, places
<1>5. \A i \in Ids : text[t][i] \in Nat
  BY DEF Text
<1>6. \A i \in Ids : text[t][i] + times(i) \in Nat
  BY <1>3, <1>5
<1>7. grown \in [Ids -> Nat]
  BY <1>6
<1> HIDE DEF grown
<1> QED
  BY <1>4, <1>7 DEF Text

\* A task's status is one of the five.
LEMMA StatusTypes == ASSUME NEW t PROVE Status(t) \in Active \cup Ends
<1>1. CASE HasEnd(t)
  <2>1. (CHOOSE i \in EndIds(t) : TRUE) \in EndIds(t)
    BY <1>1 DEF HasEnd
  <2> QED
    BY <1>1, <2>1 DEF Status, EndIds
<1>2. CASE ~HasEnd(t)
  BY <1>2 DEF Status, Active
<1> QED
  BY <1>1, <1>2

Values ==
  /\ store \in Store /\ news \in News
  /\ cancels \in [Tasks -> {"none", "asked", "lost"}]

\* The texts of nothing, and the records that have them.
LEMMA EmptyTypes == NoText \in Text /\ EmptyStore \in Store /\ NoNews \in News
<1>1. NoText \in Text
  BY DEF NoText, Text
<1> QED
  BY <1>1 DEF EmptyStore, NoNews, Store, News, Shown

\* Changes of a store.
LEMMA StoreTypes ==
  ASSUME NEW st \in Store, NEW status \in Shown
  PROVE  /\ [st EXCEPT !.status = status] \in Store
         /\ \A t \in Tasks \cup {NoTask} : [st EXCEPT !.task = t, !.status = status] \in Store
BY DEF Store

\* What the API answers.
LEMMA AnswerTypes ==
  ASSUME Inv
  PROVE  /\ NewestActive \in News
         /\ \A t : Known(t) /\ t \in Tasks => Detail(t) \in News
<1>1. NewestActive \in News
  <2> DEFINE up == {i \in DOMAIN created : Status(created[i]) \in Active}
             t  == Latest(up)
  <2>1. CASE up = {}
    BY <2>1, EmptyTypes DEF NewestActive, News
  <2>2. CASE up # {}
    <3>1. NewestActive = [NoNews EXCEPT !.kind = "active", !.task = t, !.status = Status(t)]
      BY <2>2 DEF NewestActive
    <3>2. NewestActive.task = t
      BY <3>1 DEF NoNews
    <3>3. t \in Tasks \cup {NoTask}
      BY <3>2, AnswersAreKnown, KnownType
    <3>4. Status(t) \in Shown
      BY StatusTypes DEF Shown
    <3> HIDE DEF t
    <3> QED
      BY <3>1, <3>3, <3>4, EmptyTypes DEF News
  <2> QED
    BY <2>1, <2>2
<1>2. ASSUME NEW t \in Tasks, Known(t) PROVE Detail(t) \in News
  <2> DEFINE done == {u \in Tasks : root[u] = root[t] /\ Status(u) = "completed"}
             text == [u \in Tasks |-> [i \in Ids |-> IF u \in done /\ i \in DeltaIds(u) THEN 1 ELSE 0]]
             now  == Status(Latest(TurnsOf(t)))
  <2>1. Detail(t) = [kind |-> "detail", task |-> current[root[t]], status |-> now, text |-> text]
    BY DEF Detail
  <2>2. text \in Text
    BY DEF Text
  <2>3. now \in Shown
    BY StatusTypes DEF Shown
  <2>4. Detail(t).task \in Tasks \cup {NoTask}
    BY <1>2, AnswersAreKnown, KnownType
  <2> HIDE DEF text, now
  <2>5. current[root[t]] \in Tasks \cup {NoTask}
    BY <2>1, <2>4
  <2> QED
    BY <2>1, <2>2, <2>3, <2>5 DEF News
<1> QED
  BY <1>1, <1>2

\* What is handed to the store leaves a store.
LEMMA ApplyTypes ==
  ASSUME Inv, store \in Store, NEW k \in 1 .. Len(conn.wire)
  PROVE  Apply(store, sub.task, SubSeq(conn.wire, 1, k)) \in Store
<1> DEFINE ids == SubSeq(conn.wire, 1, k)
           e   == log[sub.task][Last(ids)]
           text == AppendAssistantDelta(store.text, sub.task, ids)
<1>1. conn \in Conn /\ Linked
  BY DEF Inv, Types, ScreenTyped
<1>2. conn.wire \in Seq(Ids) /\ conn.wire # <<>>
  <2>1. conn.wire \in Seq(Ids)
    BY <1>1 DEF Conn
  <2> QED
    BY <2>1
<1>3. sub.task \in Tasks
  BY <1>1, <1>2, ConnHasTask DEF Linked, NoConn
<1>4. ids \in Seq(Ids)
  BY <1>2
<1>5. store.text \in Text
  BY DEF Store
<1>6. Apply(store, sub.task, ids) =
        [task |-> sub.task, status |-> IF e \in Ends THEN e ELSE "running", text |-> text]
  BY DEF Apply
<1> HIDE DEF ids
<1>7. text \in Text
  BY <1>3, <1>4, <1>5, AppendedTypes
<1>8. (IF e \in Ends THEN e ELSE "running") \in Shown
  BY DEF Shown, Active
<1> HIDE DEF text, e
<1> QED
  BY <1>3, <1>6, <1>7, <1>8 DEF Store, ids

\* What the API stores and sends is not yet shown.
LEMMA EventValues ==
  ASSUME Inv, Values,
         EventStep \/ ListEvents \/ Replay \/ Reconnect
  PROVE  Values'
<1>1. UNCHANGED <<store, news, cancels>>
  BY DEF EventStep, RelayStores, OtherInserts, Inserts, OtherCommits, Publish, ListEvents, Replay,
         Reconnect, screenVars, askVars
<1> QED
  BY <1>1 DEF Values

\* Batches, and connections that break.
LEMMA StreamValues ==
  ASSUME Inv, Values, FaultStep \/ (\E k \in 1 .. Len(conn.wire) : Flush(k))
  PROVE  Values'
<1>1. store \in Store /\ "failed" \in Shown
  BY DEF Values, Shown, Ends
<1>2. SetTaskError \in Store
  BY <1>1, StoreTypes DEF SetTaskError
<1>3. Lost => store' \in Store
  BY <1>1, <1>2 DEF Lost, Rendered
<1>4. CASE \E k \in 1 .. Len(conn.wire) : Flush(k)
  <2>1. PICK k \in 1 .. Len(conn.wire) : Flush(k)
    BY <1>4
  <2>2. store' = Apply(store, sub.task, SubSeq(conn.wire, 1, k)) /\ UNCHANGED <<news, cancels>>
    BY <2>1 DEF Flush, Rendered, askVars
  <2>3. store' \in Store
    BY <1>1, <2>2, ApplyTypes
  <2> QED
    BY <2>2, <2>3 DEF Values
<1>5. CASE ConnectionLost
  BY <1>3, <1>5 DEF ConnectionLost, Values, askVars
<1>6. CASE Crash
  <2>1. /\ cancels' = [t \in Tasks |-> IF cancels[t] = "asked" THEN "lost" ELSE cancels[t]]
        /\ UNCHANGED screenVars \/ Lost
        /\ news' = news
    BY <1>6 DEF Crash
  <2>2. cancels' \in [Tasks -> {"none", "asked", "lost"}]
    BY <2>1 DEF Values
  <2>3. store' \in Store
    BY <1>1, <1>3, <2>1 DEF screenVars
  <2> QED
    BY <2>1, <2>2, <2>3 DEF Values
<1> QED
  BY <1>4, <1>5, <1>6 DEF FaultStep

\* What the user does.
LEMMA UserValues ==
  ASSUME Inv, Values, UserStep
  PROVE  Values'
<1>1. /\ store \in Store /\ news \in News /\ cancels \in [Tasks -> {"none", "asked", "lost"}]
      /\ "queued" \in Shown
  BY DEF Values, Shown, Active
<1>2. /\ [EmptyStore EXCEPT !.status = "queued"] \in Store /\ AppendFollowUp \in Store
      /\ [store EXCEPT !.status = "queued"] \in Store
  BY <1>1, EmptyTypes, StoreTypes DEF AppendFollowUp
<1>3. CASE Start \/ SendMessage \/ RetryTask
  <2>1. store' \in Store
    BY <1>2, <1>3 DEF Start, SendMessage, RetryTask, Shows, Rendered
  <2>2. UNCHANGED <<news, cancels>>
    BY <1>3 DEF Start, SendMessage, RetryTask, AsksFor
  <2> QED
    BY <1>1, <2>1, <2>2 DEF Values
<1>4. CASE CancelCurrentTask
  <2>1. UNCHANGED <<store, news>> /\ cancels' = [cancels EXCEPT ![store.task] = "asked"]
    BY <1>4 DEF CancelCurrentTask, screenVars
  <2> QED
    BY <1>1, <2>1 DEF Values
<1>5. CASE Leave
  BY <1>1, <1>5 DEF Leave, Shows, Rendered, askVars, Values
<1>6. CASE Foreground
  BY <1>1, <1>6, AnswerTypes DEF Foreground, screenVars, Values
<1>7. CASE OpenConversation
  <2>1. PICK t \in ToSet(created) : news' = Detail(t)
    BY <1>7 DEF OpenConversation
  <2>2. UNCHANGED <<store, cancels>>
    BY <1>7 DEF OpenConversation, screenVars
  <2>3. PICK i \in DOMAIN created : t = created[i]
    BY DEF ToSet
  <2>4. created \in Seq(Tasks) /\ Len(created) \in Nat /\ Known(t)
    BY <2>3 DEF Inv, Types, ApiTyped, AllKnown
  <2>5. t \in Tasks
    BY <2>3, <2>4
  <2> QED
    BY <1>1, <2>1, <2>2, <2>4, <2>5, AnswerTypes DEF Values
<1>8. CASE SignOut
  BY <1>1, <1>8, EmptyTypes DEF SignOut, Shows, Rendered, Values
<1> QED
  BY <1>3, <1>4, <1>5, <1>6, <1>7, <1>8 DEF UserStep

\* The answers.
LEMMA AnswerValues ==
  ASSUME Inv, Values, AnswerStep
  PROVE  Values'
<1>1. /\ store \in Store /\ news \in News /\ cancels \in [Tasks -> {"none", "asked", "lost"}]
      /\ {"queued", "failed", "cancelled"} \subseteq Shown
  BY DEF Values, Shown, Active, Ends
<1>2. SetTaskError \in Store /\ [store EXCEPT !.status = "cancelled"] \in Store
  BY <1>1, StoreTypes DEF SetTaskError
<1>3. ASSUME NEW a \in asks, Create(a) \/ TaskRefused(a) PROVE Values'
  BY <1>1, <1>2, <1>3 DEF Create, TaskRefused, Shows, Rendered, screenVars, Values
<1>4. ASSUME NEW a \in asks, TaskAnswered(a) PROVE Values'
  <2>1. PICK status \in {"queued", "failed"} :
          Shows([store EXCEPT !.task = a.task, !.status = status], mounted)
    BY <1>4 DEF TaskAnswered
  <2>2. UNCHANGED <<news, cancels>>
    BY <1>4 DEF TaskAnswered
  <2>3. a.task \in Tasks
    BY DEF Inv, Types, AskTyped, Ask
  <2>4. store' \in Store
    BY <1>1, <2>1, <2>3, StoreTypes DEF Shows, Rendered
  <2> QED
    BY <1>1, <2>2, <2>4 DEF Values
<1>5. ASSUME NEW t \in Tasks, CancelAnswered(t) \/ CancelRefused(t) PROVE Values'
  <2>1. news' = news /\ cancels' = [cancels EXCEPT ![t] = "none"]
    BY <1>5 DEF CancelAnswered, CancelRefused
  <2>2. store' \in Store
    BY <1>2, <1>5 DEF CancelAnswered, CancelRefused, Shows, Rendered
  <2> QED
    BY <1>1, <2>1, <2>2 DEF Values
<1>6. CASE NewsOfActive
  <2>1. cancels' = cancels
    BY <1>6 DEF NewsOfActive
  <2>2. CASE news.task # NoTask
    <3>1. news' = NoNews /\ store' = RecoverActiveTask(news.task, news.status)
      BY <1>6, <2>2 DEF NewsOfActive, Shows, Rendered
    <3>2. store' \in Store
      BY <1>1, <3>1, EmptyTypes DEF RecoverActiveTask, News, Store
    <3> QED
      BY <1>1, <2>1, <3>1, <3>2, EmptyTypes DEF Values
  <2>3. CASE news.task = NoTask
    <3>1. store' = store /\ news' = IF store.task = NoTask THEN NoNews ELSE Detail(store.task)
      BY <1>6, <2>3 DEF NewsOfActive, screenVars
    <3>2. Known(store.task)
      BY DEF Inv, AllKnown
    <3>3. news' \in News
      BY <3>1, <3>2, AnswerTypes, EmptyTypes DEF Known
    <3> QED
      BY <1>1, <2>1, <3>1, <3>3 DEF Values
  <2> QED
    BY <2>2, <2>3
<1>7. CASE NewsOfDetail
  <2>1. /\ cancels' = cancels /\ news' = NoNews
        /\ store' = [task |-> news.task, status |-> news.status, text |-> news.text]
    BY <1>7 DEF NewsOfDetail, Shows, Rendered
  <2>2. store' \in Store
    BY <1>1, <2>1 DEF News, Store
  <2> QED
    BY <1>1, <2>1, <2>2, EmptyTypes DEF Values
<1> QED
  BY <1>3, <1>4, <1>5, <1>6, <1>7 DEF AnswerStep

\* The types, of all that the model has.
THEOREM ClientTypeCorrect == Spec => []TypeOK
<1>1. Init => Values
  <2>1. ASSUME Init PROVE Values
    BY <2>1, EmptyTypes DEF Init, Values
  <2> QED
    BY <2>1
<1>2. Inv /\ Values /\ [Next]_vars => Values'
  <2>1. ASSUME Inv, Values, UNCHANGED vars PROVE Values'
    BY <2>1 DEF vars, screenVars, askVars, Values
  <2> QED
    BY <2>1, EventValues, StreamValues, UserValues, AnswerValues DEF Next, StreamStep
<1>3. Inv /\ Values => TypeOK
  BY DEF Inv, Types, ApiTyped, ScreenTyped, AskTyped, Values, Seen, Linked, TypeOK, NoConn
<1> QED
  BY <1>1, <1>2, <1>3, StreamIsSound, PTL DEF Spec

-----------------------------------------------------------------------------
(* A task is shown as completed only if a turn of its conversation is.     *)

Finished == {u \in Tasks : Status(u) = "completed"}

\* Every request is for a task of its own, which has its session with its row; the
\* current task of a session is one of its turns.
Sessions ==
  /\ \A a \in asks : a.task <= asked /\ (a.at = "asked" => root[a.task] = NoTask)
  /\ \A a, b \in asks : a.task = b.task => a = b
  /\ \A t \in Tasks : root[t] # NoTask => t <= asked /\ IsCreated(t)
  /\ \A r \in Tasks : current[r] # NoTask => root[current[r]] = r

\* What is said of a task is true of its conversation.
Says(t, status) ==
  t # NoTask /\ status = "completed" => \E u \in Finished : root[u] = root[t]

\* The screen says so, and so does a read that is on its way to it.
ToldTrue == Says(store.task, store.status) /\ Says(news.task, news.status)

\* A task is finished if and only if its end is task.completed, for it has one end.
LEMMA CompletedEvent ==
  ASSUME NEW t \in Tasks, LogOK(t)
  PROVE  t \in Finished <=> \E i \in Committed(t) : log[t][i] = "completed"
<1>1. Committed(t) \subseteq DOMAIN log[t]
  BY DEF Committed
<1>2. ASSUME t \in Finished PROVE \E i \in Committed(t) : log[t][i] = "completed"
  <2>1. Status(t) = "completed"
    BY <1>2 DEF Finished
  <2>2. HasEnd(t)
    BY <2>1 DEF Status
  <2>3. (CHOOSE i \in EndIds(t) : TRUE) \in EndIds(t)
    BY <2>2 DEF HasEnd
  <2>4. log[t][CHOOSE i \in EndIds(t) : TRUE] = "completed"
    BY <2>1, <2>2 DEF Status
  <2> QED
    BY <2>3, <2>4 DEF EndIds
<1>3. ASSUME NEW i \in Committed(t), log[t][i] = "completed" PROVE t \in Finished
  <2>1. i \in EndIds(t)
    BY <1>3 DEF EndIds, Ends
  <2>2. (CHOOSE j \in EndIds(t) : TRUE) \in EndIds(t)
    BY <2>1
  <2>3. (CHOOSE j \in EndIds(t) : TRUE) = i
    BY <1>1, <2>1, <2>2 DEF EndIds, LogOK
  <2>4. HasEnd(t) /\ Status(t) = "completed"
    BY <1>3, <2>1, <2>3 DEF HasEnd, Status
  <2> QED
    BY <2>4 DEF Finished
<1> QED
  BY <1>2, <1>3

\* What is committed stays.
Keeps(t) == Committed(t) \subseteq Committed(t)' /\ \A i \in Committed(t) : log'[t][i] = log[t][i]

\* Whatever happens, restarts included.
LEMMA LogsKeep ==
  ASSUME Inv, [Next]_vars
  PROVE  \A t \in Tasks : Keeps(t)
<1>a. ApiTyped /\ \A t \in Tasks : LogOK(t)
  BY DEF Inv, Types, Logs
<1>1. ASSUME UNCHANGED <<log, posting>> PROVE \A t \in Tasks : Keeps(t)
  BY <1>1 DEF Keeps, Committed
<1>2. CASE \E t \in Tasks : RelayStores(t) \/ OtherInserts(t)
  <2>1. PICK t \in Tasks : RelayStores(t) \/ OtherInserts(t)
    BY <1>2
  <2>2. PICK by \in {"relay", "other"} : \E e \in EventType \ {"void"} : Inserts(t, by, e)
    BY <2>1 DEF RelayStores, OtherInserts, EventType, Ends
  <2>3. \A u \in Tasks : LogGrows(u)
    BY <1>a, <2>2, InsertCommits
  <2> QED
    BY <2>3 DEF LogGrows, Keeps
<1>3. ASSUME NEW t \in Tasks, NEW p \in posting[t], OtherCommits(t, p)
      PROVE  \A u \in Tasks : Keeps(u)
  <2> DEFINE q == [p EXCEPT !.stored = TRUE]
  <2>1. posting \in [Tasks -> SUBSET Post] /\ p \in Post
    BY <1>a DEF ApiTyped
  <2>2. q.stored
    BY <2>1 DEF Post
  <2>3. log' = log /\ posting' = [posting EXCEPT ![t] = (@ \ {p}) \cup {q}]
    BY <1>3 DEF OtherCommits
  <2> HIDE DEF q
  <2>4. \A u \in Tasks : \A r \in posting'[u] : r = q \/ r \in posting[u]
    BY <2>1, <2>3
  <2> QED
    BY <2>2, <2>3, <2>4 DEF Keeps, Committed
<1>4. ASSUME NEW t \in Tasks, NEW p \in posting[t], Publish(t, p)
      PROVE  \A u \in Tasks : Keeps(u)
  BY <1>4, PublishFacts DEF Keeps
<1>5. CASE Crash
  BY <1>5, CrashLogs DEF LogsGrow, LogGrows, Keeps
<1>6. CASE StreamStep \/ ConnectionLost \/ UserStep \/ UNCHANGED vars
  BY <1>1, <1>6 DEF StreamStep, ListEvents, Replay, Flush, Reconnect, ConnectionLost, UserStep,
     Start, SendMessage, RetryTask, AsksFor, CancelCurrentTask, Leave, Foreground, OpenConversation,
     SignOut, vars, apiVars
<1>7. CASE AnswerStep
  BY <1>1, <1>7 DEF AnswerStep, Create, TaskAnswered, TaskRefused, CancelAnswered, CancelRefused,
     NewsOfActive, NewsOfDetail, apiVars
<1> QED
  BY <1>2, <1>3, <1>4, <1>5, <1>6, <1>7 DEF Next, EventStep, FaultStep

\* So a finished task stays finished.
LEMMA FinishedStay ==
  ASSUME Inv, [Next]_vars
  PROVE  Finished \subseteq Finished'
<1>1. Inv'
  BY NextInv, StutterInv
<1> SUFFICES ASSUME NEW t \in Finished PROVE t \in Finished'
  OBVIOUS
<1>3. t \in Tasks /\ LogOK(t) /\ LogOK(t)' /\ Keeps(t)
  BY <1>1, LogsKeep DEF Finished, Inv, Logs
<1>4. PICK i \in Committed(t) : log[t][i] = "completed"
  BY <1>3, CompletedEvent
<1>5. i \in Committed(t)' /\ log'[t][i] = "completed"
  BY <1>3, <1>4 DEF Keeps
<1>6. Committed(t)' \subseteq DOMAIN log'[t] /\ i \in EndIds(t)'
  BY <1>5 DEF Committed, EndIds, Ends
<1>7. (CHOOSE j \in EndIds(t)' : TRUE) \in EndIds(t)'
  BY <1>6
<1>8. (CHOOSE j \in EndIds(t)' : TRUE) = i
  BY <1>3, <1>6, <1>7 DEF EndIds, LogOK
<1>9. HasEnd(t)' /\ Status(t)' = "completed"
  BY <1>5, <1>6, <1>8 DEF HasEnd, Status
<1> QED
  BY <1>3, <1>9 DEF Finished

\* Only the row of a task gives it a session, and it had none.
LEMMA RootsStay ==
  ASSUME Inv, Sessions, [Next]_vars
  PROVE  \A u \in Tasks : root[u] # NoTask => root'[u] = root[u]
<1>1. CASE root' = root
  BY <1>1
<1>2. ASSUME NEW a \in asks, Create(a)
      PROVE  \A u \in Tasks : root[u] # NoTask => root'[u] = root[u]
  <2>1. root' = [root EXCEPT ![a.task] = IF a.parent = NoTask THEN a.task ELSE root[a.parent]]
    BY <1>2 DEF Create
  <2>2. root[a.task] = NoTask /\ root \in [Tasks -> Tasks \cup {NoTask}]
    BY <1>2 DEF Create, Sessions, Inv, Types, ApiTyped
  <2> QED
    BY <2>1, <2>2
<1>3. CASE EventStep \/ StreamStep \/ FaultStep \/ UserStep \/ UNCHANGED vars
  <2>1. root' = root
    BY <1>3 DEF EventStep, RelayStores, OtherInserts, Inserts, OtherCommits, Publish, StreamStep,
       ListEvents, Replay, Flush, Reconnect, FaultStep, ConnectionLost, Crash, UserStep, Start,
       SendMessage, RetryTask, AsksFor, CancelCurrentTask, Leave, Foreground, OpenConversation,
       SignOut, vars, apiVars
  <2> QED
    BY <2>1
<1>4. CASE AnswerStep
  BY <1>1, <1>2, <1>4 DEF AnswerStep, TaskAnswered, TaskRefused, CancelAnswered, CancelRefused,
     NewsOfActive, NewsOfDetail, apiVars
<1> QED
  BY <1>3, <1>4 DEF Next

\* So what is said of a task with a row remains true.
LEMMA SaysStays ==
  ASSUME Inv, Sessions, [Next]_vars
  PROVE  \A t, status : Known(t) /\ Says(t, status) => Says(t, status)'
<1>1. /\ Finished \subseteq Finished'
      /\ \A u \in Tasks : root[u] # NoTask => root'[u] = root[u]
  BY FinishedStay, RootsStay
<1>2. Finished \subseteq Tasks /\ NoTask \notin Tasks
  BY NumbersOfBounds DEF Finished, NoTask
<1> QED
  BY <1>1, <1>2 DEF Says, Known

\* Requests go, and nobody asks.
LEMMA SameSessions ==
  ASSUME Inv, Sessions, UNCHANGED <<created, root, asked>>, asks' \subseteq asks,
         \A r \in Tasks : current'[r] # NoTask => root[current'[r]] = r
  PROVE  Sessions'
BY DEF Sessions, IsCreated

\* A request for the next task.
LEMMA AskSessions ==
  ASSUME Inv, Sessions, NEW parent, AsksFor(parent)
  PROVE  Sessions'
<1> DEFINE new == [task |-> asked + 1, parent |-> parent, at |-> "asked"]
<1>1. /\ asked < N /\ asked' = asked + 1 /\ asks' = asks \cup {new}
      /\ UNCHANGED <<created, root, current>>
  BY DEF AsksFor, apiVars
<1>2. asked \in Nat /\ asked + 1 \in Tasks
  BY <1>1, NumbersOfBounds DEF Inv, Types, AskTyped, Tasks
<1>3. \A a \in asks : a.task \in Tasks /\ a.task <= asked
  BY DEF Sessions, Inv, Types, AskTyped, Ask
<1>4. \A t \in Tasks : t \in Nat
  BY NumbersOfBounds DEF Tasks
<1>5. new.task = asked + 1 /\ root[asked + 1] = NoTask
  BY <1>2, <1>4 DEF Sessions
<1> HIDE DEF new
<1>6. \A a \in asks' : a.task <= asked' /\ (a.at = "asked" => root[a.task] = NoTask)
  BY <1>1, <1>2, <1>3, <1>4, <1>5 DEF Sessions
<1>7. \A a, b \in asks' : a.task = b.task => a = b
  BY <1>1, <1>2, <1>3, <1>4, <1>5 DEF Sessions
<1>8. \A t \in Tasks : root[t] # NoTask => t <= asked' /\ IsCreated(t)
  BY <1>1, <1>2, <1>4 DEF Sessions
<1> QED
  BY <1>1, <1>6, <1>7, <1>8 DEF Sessions, IsCreated

\* The row of a task, in the session of its parent or in its own.
LEMMA CreateSessions ==
  ASSUME Inv, Sessions, NEW a \in asks, Create(a)
  PROVE  Sessions'
<1> DEFINE home == IF a.parent = NoTask THEN a.task ELSE root[a.parent]
           new  == [a EXCEPT !.at = "created"]
<1>1. /\ a.at = "asked" /\ created' = Append(created, a.task)
      /\ root' = [root EXCEPT ![a.task] = home]
      /\ current' = [current EXCEPT ![root'[a.task]] = a.task]
      /\ asks' = (asks \ {a}) \cup {new} /\ asked' = asked
  BY DEF Create
<1>2. /\ a \in Ask /\ a.task \in Tasks /\ Known(a.parent) /\ root[a.task] = NoTask /\ a.task <= asked
      /\ created \in Seq(Tasks) /\ root \in [Tasks -> Tasks \cup {NoTask}]
      /\ current \in [Tasks -> Tasks \cup {NoTask}] /\ NoTask \notin Tasks
  BY <1>1, NumbersOfBounds DEF Inv, Types, ApiTyped, AskTyped, Ask, AllKnown, Sessions, NoTask
<1>3. home \in Tasks
  BY <1>2 DEF Known
<1>4. new.task = a.task /\ new.at = "created"
  BY <1>2 DEF Ask
<1> HIDE DEF home, new
<1>5. root'[a.task] = home /\ \A u \in Tasks : u # a.task => root'[u] = root[u]
  BY <1>1, <1>2
<1>6. current'[home] = a.task /\ \A r \in Tasks : r # home => current'[r] = current[r]
  BY <1>1, <1>2, <1>3, <1>5
<1>7. \A b \in asks' : b.task <= asked' /\ (b.at = "asked" => root'[b.task] = NoTask)
  <2> SUFFICES ASSUME NEW b \in asks'
               PROVE  b.task <= asked' /\ (b.at = "asked" => root'[b.task] = NoTask)
    OBVIOUS
  <2>1. CASE b = new
    BY <1>1, <1>2, <1>4, <2>1
  <2>2. CASE b # new
    <3>1. b \in asks /\ b # a
      BY <1>1, <2>2
    <3>2. b.task # a.task /\ b.task \in Tasks
      BY <3>1 DEF Sessions, Inv, Types, AskTyped, Ask
    <3> QED
      BY <1>1, <1>5, <3>1, <3>2 DEF Sessions
  <2> QED
    BY <2>1, <2>2
<1>8. \A b, c \in asks' : b.task = c.task => b = c
  <2>1. \A b \in asks' : b = new \/ (b \in asks /\ b.task # a.task)
    BY <1>1 DEF Sessions
  <2> QED
    BY <1>4, <2>1 DEF Sessions
<1>9. \A t \in Tasks : root'[t] # NoTask => t <= asked' /\ IsCreated(t)'
  <2>1. Len(created) \in Nat /\ DOMAIN created' = 1 .. Len(created) + 1
        /\ created'[Len(created) + 1] = a.task /\ \A i \in DOMAIN created : created'[i] = created[i]
        /\ DOMAIN created = 1 .. Len(created)
    BY <1>1, <1>2
  <2>2. ToSet(created) \subseteq ToSet(created') /\ a.task \in ToSet(created')
    BY <2>1 DEF ToSet
  <2>3. \A t \in Tasks : root[t] # NoTask => t <= asked /\ t \in ToSet(created)
    BY DEF Sessions, IsCreated
  <2> QED
    BY <1>1, <1>2, <1>5, <2>2, <2>3 DEF IsCreated
<1>10. \A r \in Tasks : current'[r] # NoTask => root'[current'[r]] = r
  <2> SUFFICES ASSUME NEW r \in Tasks, current'[r] # NoTask PROVE root'[current'[r]] = r
    OBVIOUS
  <2>1. CASE r = home
    BY <1>5, <1>6, <2>1
  <2>2. CASE r # home
    <3>1. current'[r] = current[r] /\ current[r] \in Tasks /\ root[current[r]] = r
      BY <1>2, <1>6, <2>2 DEF Sessions
    <3> QED
      BY <1>2, <1>5, <3>1
  <2> QED
    BY <2>1, <2>2
<1> QED
  BY <1>7, <1>8, <1>9, <1>10 DEF Sessions

\* Every step keeps the requests and the sessions apart.
LEMMA NextSessions ==
  ASSUME Inv, Sessions, [Next]_vars
  PROVE  Sessions'
<1>a. \A r \in Tasks : current[r] # NoTask => root[current[r]] = r
  BY DEF Sessions
<1>1. CASE UNCHANGED <<created, root, current, asked>> /\ asks' \subseteq asks
  BY <1>a, <1>1, SameSessions
<1>2. CASE \E t \in Tasks : RelayStores(t) \/ OtherInserts(t)
  <2>1. PICK t \in Tasks : RelayStores(t) \/ OtherInserts(t)
    BY <1>2
  <2>2. /\ UNCHANGED <<created, root, asked, asks>>
        /\ current' = current \/ current' = [current EXCEPT ![root[t]] = t]
    BY <2>1 DEF RelayStores, OtherInserts, Inserts, askVars
  <2>3. \A r \in Tasks : current'[r] # NoTask => root[current'[r]] = r
    BY <1>a, <2>2 DEF Inv, Types, ApiTyped
  <2> QED
    BY <2>2, <2>3, SameSessions
<1>3. CASE \E t \in Tasks : \E p \in posting[t] : OtherCommits(t, p) \/ Publish(t, p)
  BY <1>1, <1>3 DEF OtherCommits, Publish, askVars
<1>4. CASE StreamStep \/ ConnectionLost \/ UNCHANGED vars
  BY <1>1, <1>4 DEF StreamStep, ListEvents, Replay, Flush, Reconnect, ConnectionLost, vars, apiVars,
     askVars
<1>5. CASE Crash
  <2>1. /\ UNCHANGED <<created, root, current, asked>>
        /\ asks' = {[a EXCEPT !.at = "lost"] : a \in asks}
    BY <1>5 DEF Crash
  <2>2. ASSUME NEW b \in asks'
        PROVE  b.at = "lost" /\ \E a \in asks : b = [a EXCEPT !.at = "lost"] /\ b.task = a.task
    <3>1. PICK a \in asks : b = [a EXCEPT !.at = "lost"]
      BY <2>1
    <3>2. a \in Ask
      BY DEF Inv, Types, AskTyped
    <3> QED
      BY <3>1, <3>2 DEF Ask
  <2>3. \A b \in asks' : b.task <= asked /\ b.at # "asked"
    BY <2>2 DEF Sessions
  <2>4. \A b, c \in asks' : b.task = c.task => b = c
    BY <2>2 DEF Sessions
  <2> QED
    BY <2>1, <2>3, <2>4 DEF Sessions, IsCreated
<1>6. CASE Start \/ SendMessage \/ RetryTask
  BY <1>6, AskSessions DEF Start, SendMessage, RetryTask
<1>7. CASE CancelCurrentTask \/ Leave \/ Foreground \/ OpenConversation \/ SignOut
  BY <1>1, <1>7 DEF CancelCurrentTask, Leave, Foreground, OpenConversation, SignOut, apiVars, askVars
<1>8. CASE AnswerStep
  <2>1. CASE \E a \in asks : Create(a)
    BY <2>1, CreateSessions
  <2>2. CASE ~\E a \in asks : Create(a)
    BY <1>1, <1>8, <2>2 DEF AnswerStep, TaskAnswered, TaskRefused, CancelAnswered, CancelRefused,
       NewsOfActive, NewsOfDetail, apiVars
  <2> QED
    BY <2>1, <2>2
<1> QED
  BY <1>2, <1>3, <1>4, <1>5, <1>6, <1>7, <1>8 DEF Next, EventStep, FaultStep, UserStep

\* What the API answers is true when it answers: the latest turn has the status, and
\* the current task is of the same conversation.
LEMMA AnswersSayTrue ==
  ASSUME Inv, Sessions
  PROVE  /\ NewestActive.status # "completed"
         /\ \A t \in Tasks : Known(t) => Says(Detail(t).task, Detail(t).status)
<1>1. NewestActive.status # "completed"
  <2> DEFINE up == {i \in DOMAIN created : Status(created[i]) \in Active}
  <2>1. CASE up = {}
    BY <2>1 DEF NewestActive, NoNews
  <2>2. CASE up # {}
    <3>1. created \in Seq(Tasks) /\ Len(created) \in Nat /\ up \subseteq 1 .. Len(created)
      BY DEF Inv, Types, ApiTyped
    <3>2. NewestActive.status = Status(Latest(up))
      BY <2>2 DEF NewestActive, NoNews
    <3> HIDE DEF up
    <3>3. Max(up) \in up
      BY <2>2, <3>1, LastPlace
    <3>4. Status(Latest(up)) \in Active
      BY <3>3 DEF Latest, up
    <3> QED
      BY <3>2, <3>4 DEF Active
  <2> QED
    BY <2>1, <2>2
<1>2. ASSUME NEW t \in Tasks, Known(t), Detail(t).task # NoTask, Detail(t).status = "completed"
      PROVE  \E u \in Finished : root[u] = root[Detail(t).task]
  <2> DEFINE turns == TurnsOf(t)
             u     == created[Max(turns)]
  <2>1. /\ Detail(t).task = current[root[t]] /\ Detail(t).status = Status(u)
    BY DEF Detail, Latest
  <2>2. root[t] \in Tasks /\ root[t] # NoTask
    BY <1>2, NumbersOfBounds DEF Known, NoTask
  <2>3. root[Detail(t).task] = root[t]
    BY <1>2, <2>1, <2>2 DEF Sessions
  <2>4. created \in Seq(Tasks) /\ Len(created) \in Nat /\ turns \subseteq 1 .. Len(created)
    BY DEF Inv, Types, ApiTyped, TurnsOf
  <2>5. turns # {}
    <3>1. PICK i \in DOMAIN created : t = created[i]
      BY <2>2 DEF Sessions, IsCreated, ToSet
    <3> QED
      BY <3>1 DEF TurnsOf
  <2> HIDE DEF turns
  <2>6. Max(turns) \in turns
    BY <2>4, <2>5, LastPlace
  <2>7. u \in Tasks /\ root[u] = root[t]
    BY <2>4, <2>6 DEF TurnsOf, turns
  <2> HIDE DEF u
  <2>8. u \in Finished
    BY <1>2, <2>1, <2>7 DEF Finished
  <2> QED
    BY <2>3, <2>7, <2>8
<1> QED
  BY <1>1, <1>2 DEF Says

\* What the screen shows after a step is what it showed, what a read said, what the
\* user or a failure makes of it, or what the events of the task say.
LEMMA ShownSaysTrue ==
  ASSUME Inv, Sessions, ToldTrue, Values, [Next]_vars
  PROVE  Says(store'.task, store'.status)
<1>a. /\ Says(store.task, store.status) /\ Says(news.task, news.status) /\ store \in Store
  BY DEF ToldTrue, Values
<1>b. \A t : \A status \in {"queued", "failed", "cancelled"} :
        /\ [store EXCEPT !.status = status].status = status
        /\ [store EXCEPT !.task = t, !.status = status].status = status
        /\ [EmptyStore EXCEPT !.status = status].status = status
  BY <1>a DEF Store, EmptyStore
<1>1. CASE store' = store
  BY <1>a, <1>1
<1>2. ASSUME NEW st, NEW status \in {"queued", "failed", "cancelled"}, store' = st, st.status = status
      PROVE  Says(store'.task, store'.status)
  BY <1>2 DEF Says
<1>3. Lost => Says(store'.task, store'.status)
  BY <1>1, <1>2, <1>b DEF Lost, Rendered, SetTaskError
<1>4. CASE EventStep \/ ListEvents \/ Replay \/ Reconnect
  BY <1>1, <1>4 DEF EventStep, RelayStores, OtherInserts, Inserts, OtherCommits, Publish, ListEvents,
     Replay, Reconnect, screenVars
<1>5. CASE \E k \in 1 .. Len(conn.wire) : Flush(k)
  <2>1. PICK k \in 1 .. Len(conn.wire) : Flush(k)
    BY <1>5
  <2> DEFINE t   == sub.task
             ids == SubSeq(conn.wire, 1, k)
             id  == conn.wire[k]
  <2>2. conn \in Conn /\ Linked /\ Ordered(sub, conn, seen) /\ WireGaps(conn, seen)
    BY DEF Inv, Types, ScreenTyped, StreamOK
  <2>3. conn.wire \in Seq(Ids) /\ conn.wire # <<>>
    <3>1. conn.wire \in Seq(Ids)
      BY <2>2 DEF Conn
    <3> QED
      BY <2>1, <3>1
  <2>4. t \in Tasks /\ conn.task = t /\ conn.at # "none"
    BY <2>2, <2>3, ConnHasTask DEF Linked, NoConn
  <2>5. Ascends(conn.wire)
    BY <2>2, <2>4 DEF Ordered
  <2>6. Last(ids) = id
    BY <2>3, <2>5, CutIds
  <2>7. id \in Committed(t)
    BY <2>2, <2>3, <2>4 DEF WireGaps, ToSet
  <2>8. store'.task = t /\ store'.status = IF log[t][id] \in Ends THEN log[t][id] ELSE "running"
    <3>1. store' = Apply(store, t, ids)
      BY <2>1 DEF Flush, Rendered
    <3> HIDE DEF ids
    <3> QED
      BY <2>6, <3>1 DEF Apply
  <2>9. log[t][id] = "completed" => t \in Finished
    BY <2>4, <2>7, CompletedEvent DEF Inv, Logs
  <2> QED
    BY <2>8, <2>9 DEF Says
<1>6. CASE FaultStep
  BY <1>1, <1>3, <1>6 DEF FaultStep, ConnectionLost, Crash, screenVars
<1>7. CASE Start \/ SendMessage \/ RetryTask
  <2>1. Start => store' = [EmptyStore EXCEPT !.status = "queued"]
    BY DEF Start, Shows, Rendered
  <2>2. SendMessage => store' = [store EXCEPT !.task = NoTask, !.status = "queued"]
    BY DEF SendMessage, AppendFollowUp, Shows, Rendered
  <2>3. RetryTask => store' = [store EXCEPT !.status = "queued"]
    BY DEF RetryTask, Shows, Rendered
  <2>4. store'.status = "queued"
    <3>1. [EmptyStore EXCEPT !.status = "queued"].status = "queued"
      BY DEF EmptyStore
    <3>2. /\ [store EXCEPT !.status = "queued"].status = "queued"
          /\ [store EXCEPT !.task = NoTask, !.status = "queued"].status = "queued"
      BY <1>a DEF Store
    <3>3. CASE Start
      BY <2>1, <3>1, <3>3
    <3>4. CASE SendMessage
      BY <2>2, <3>2, <3>4
    <3>5. CASE RetryTask
      BY <2>3, <3>2, <3>5
    <3> QED
      BY <1>7, <3>3, <3>4, <3>5
  <2> QED
    BY <2>4 DEF Says
<1>8. CASE CancelCurrentTask \/ Leave \/ Foreground \/ OpenConversation \/ UNCHANGED vars
  BY <1>1, <1>8 DEF CancelCurrentTask, Leave, Foreground, OpenConversation, Shows, Rendered,
     screenVars, vars
<1>9. CASE SignOut
  BY <1>9 DEF SignOut, Shows, Rendered, EmptyStore, Says
<1>10. CASE AnswerStep
  <2>1. ASSUME NEW a \in asks, Create(a) PROVE store' = store
    BY <2>1 DEF Create, screenVars
  <2>2. ASSUME NEW a \in asks, TaskAnswered(a) PROVE Says(store'.task, store'.status)
    <3>1. PICK status \in {"queued", "failed"} : store' = [store EXCEPT !.task = a.task, !.status = status]
      BY <2>2 DEF TaskAnswered, Shows, Rendered
    <3>2. [store EXCEPT !.task = a.task, !.status = status].status = status
      BY <1>a DEF Store
    <3> QED
      BY <1>2, <3>1, <3>2
  <2>3. ASSUME NEW a \in asks, TaskRefused(a) PROVE Says(store'.task, store'.status)
    BY <1>2, <2>3, <1>b DEF TaskRefused, SetTaskError, Shows, Rendered
  <2>4. ASSUME NEW t \in Tasks, CancelAnswered(t) \/ CancelRefused(t)
        PROVE  Says(store'.task, store'.status)
    BY <1>2, <2>4, <1>b DEF CancelAnswered, CancelRefused, SetTaskError, Shows, Rendered
  <2>5. CASE NewsOfActive
    <3>1. store' = store \/ store' = RecoverActiveTask(news.task, news.status)
      BY <2>5 DEF NewsOfActive, Shows, Rendered, screenVars
    <3> QED
      BY <1>a, <3>1 DEF RecoverActiveTask
  <2>6. CASE NewsOfDetail
    BY <1>a, <2>6 DEF NewsOfDetail, Shows, Rendered
  <2> QED
    BY <1>1, <1>10, <2>1, <2>2, <2>3, <2>4, <2>5, <2>6 DEF AnswerStep
<1> QED
  BY <1>4, <1>5, <1>6, <1>7, <1>8, <1>9, <1>10 DEF Next, StreamStep, UserStep

\* A read that is on its way says what the API answered, or what it said before.
LEMMA NewsSaysTrue ==
  ASSUME Inv, Sessions, ToldTrue, [Next]_vars
  PROVE  Says(news'.task, news'.status)
<1>a. Says(news.task, news.status) /\ Says(NoNews.task, NoNews.status)
  BY DEF ToldTrue, Says, NoNews
<1>1. CASE news' = news
  BY <1>a, <1>1
<1>2. CASE news' = NoNews
  BY <1>a, <1>2
<1>3. CASE Foreground
  <2>1. news' = NewestActive
    BY <1>3 DEF Foreground
  <2> QED
    BY <2>1, AnswersSayTrue DEF Says
<1>4. CASE OpenConversation
  <2>1. PICK t \in ToSet(created) : news' = Detail(t)
    BY <1>4 DEF OpenConversation
  <2>2. PICK i \in DOMAIN created : t = created[i]
    BY DEF ToSet
  <2>3. created \in Seq(Tasks) /\ Len(created) \in Nat /\ Known(t)
    BY <2>2 DEF Inv, Types, ApiTyped, AllKnown
  <2>4. t \in Tasks
    BY <2>2, <2>3
  <2> QED
    BY <2>1, <2>3, <2>4, AnswersSayTrue
<1>5. CASE NewsOfActive
  <2>1. CASE news.task # NoTask
    BY <1>2, <1>5, <2>1 DEF NewsOfActive
  <2>2. CASE news.task = NoTask
    <3>1. news' = IF store.task = NoTask THEN NoNews ELSE Detail(store.task)
      BY <1>5, <2>2 DEF NewsOfActive
    <3>2. store.task # NoTask => store.task \in Tasks /\ Known(store.task)
      BY DEF Inv, AllKnown, Known
    <3> QED
      BY <1>a, <3>1, <3>2, AnswersSayTrue
  <2> QED
    BY <2>1, <2>2
<1>6. CASE EventStep \/ StreamStep \/ FaultStep \/ UNCHANGED vars
  BY <1>1, <1>6 DEF EventStep, RelayStores, OtherInserts, Inserts, OtherCommits, Publish, StreamStep,
     ListEvents, Replay, Flush, Reconnect, FaultStep, ConnectionLost, Crash, vars, askVars
<1>7. CASE Start \/ SendMessage \/ RetryTask \/ CancelCurrentTask \/ Leave \/ SignOut
  BY <1>1, <1>2, <1>7 DEF Start, SendMessage, RetryTask, AsksFor, CancelCurrentTask, Leave, SignOut,
     askVars
<1>8. CASE AnswerStep /\ ~NewsOfActive
  BY <1>1, <1>2, <1>8 DEF AnswerStep, Create, TaskAnswered, TaskRefused, CancelAnswered,
     CancelRefused, NewsOfDetail
<1> QED
  BY <1>3, <1>4, <1>5, <1>6, <1>7, <1>8 DEF Next, UserStep

\* What is shown or read has a row before the step as well, for a new row changes neither.
LEMMA ToldIsKnown ==
  ASSUME Inv, [Next]_vars
  PROVE  Known(store'.task) /\ Known(news'.task)
<1>1. Inv' /\ Inv
  BY NextInv, StutterInv
<1>2. CASE root' = root
  BY <1>1, <1>2 DEF Inv, AllKnown, Known
<1>3. CASE store' = store /\ news' = news
  BY <1>1, <1>3 DEF Inv, AllKnown
<1>4. ASSUME NEW a \in asks, Create(a) PROVE store' = store /\ news' = news
  BY <1>4 DEF Create, screenVars
<1>5. CASE ~\E a \in asks : Create(a)
  <2>1. root' = root
    BY <1>5 DEF Next, EventStep, RelayStores, OtherInserts, Inserts, OtherCommits, Publish, StreamStep,
       ListEvents, Replay, Flush, Reconnect, FaultStep, ConnectionLost, Crash, UserStep, Start,
       SendMessage, RetryTask, AsksFor, CancelCurrentTask, Leave, Foreground, OpenConversation,
       SignOut, AnswerStep, TaskAnswered, TaskRefused, CancelAnswered, CancelRefused, NewsOfActive,
       NewsOfDetail, vars, apiVars
  <2> QED
    BY <1>2, <2>1
<1> QED
  BY <1>3, <1>4, <1>5

\* The screen says that a task is completed only if a turn of its conversation is: its
\* events say so, or a read did, and what is committed and the sessions of the tasks
\* outlast the read, the crashes and the next turns.
THEOREM ShownCompletionsAreStored == Spec => []CompletedIsStored
<1>1. Init => Sessions /\ ToldTrue
  BY DEF Init, Sessions, ToldTrue, Says, EmptyStore, NoNews
<1>2. Inv /\ Values /\ Sessions /\ ToldTrue /\ [Next]_vars => Sessions' /\ ToldTrue'
  <2> SUFFICES ASSUME Inv, Values, Sessions, ToldTrue, [Next]_vars PROVE Sessions' /\ ToldTrue'
    OBVIOUS
  <2>1. Sessions'
    BY NextSessions
  <2>2. Says(store'.task, store'.status) /\ Says(news'.task, news'.status)
    BY ShownSaysTrue, NewsSaysTrue
  <2>3. Known(store'.task) /\ Known(news'.task)
    BY ToldIsKnown
  <2> QED
    BY <2>1, <2>2, <2>3, SaysStays DEF ToldTrue, Says
<1>3. ToldTrue => CompletedIsStored
  BY DEF ToldTrue, Says, Finished, CompletedIsStored
<1>4. TypeOK => Values
  BY DEF TypeOK, Values
<1> QED
  BY <1>1, <1>2, <1>3, <1>4, StreamIsSound, ClientTypeCorrect, PTL DEF Spec

=============================================================================
