-------------------------- MODULE MuxSessionProofs --------------------------
(***************************************************************************)
(* What clients see of the shared session: the handshake, the events and   *)
(* the stop are the same for all of them, early or late; and whom the      *)
(* adapter's own requests reach.                                           *)
(***************************************************************************)
EXTENDS MuxRouterProofs, WellFoundedInduction

-----------------------------------------------------------------------------
(* The first and the last of some positions.                               *)

LEMMA FirstOfSome ==
  ASSUME NEW T, T \subseteq Nat, T # {}
  PROVE  \E x \in T : \A y \in T : x <= y
<1>1. \E x \in T : \A y \in T : ~(<<y, x>> \in OpToRel(<, Nat))
  BY NatLessThanWellFounded, WFMin
<1>2. \A x, y \in Nat : ~(<<y, x>> \in OpToRel(<, Nat)) => x <= y
  BY DEF OpToRel
<1> QED
  BY <1>1, <1>2

LEMMA MinOfSome ==
  ASSUME NEW T, T \subseteq Nat, T # {}
  PROVE  Min(T) \in T /\ \A y \in T : Min(T) <= y
BY FirstOfSome DEF Min

LEMMA MaxOfSome ==
  ASSUME NEW n \in Nat, NEW T, T \subseteq 1..n, T # {}
  PROVE  Max(T) \in T /\ \A y \in T : Max(T) >= y
<1> DEFINE mirror == {k \in 0..n : \E x \in T : x + k = n}
<1>1. ASSUME NEW x \in T PROVE \E k \in mirror : x + k = n
  <2>1. \E k \in 0..n : x + k = n
    <3>1. n - x \in 0..n /\ x + (n - x) = n
      OBVIOUS
    <3> QED
      BY <3>1
  <2> QED
    BY <2>1
<1>2. PICK m \in mirror : \A y \in mirror : m <= y
  <2>1. PICK x \in T : TRUE
    OBVIOUS
  <2>2. PICK k \in mirror : x + k = n
    BY <1>1, <2>1
  <2>3. mirror \subseteq Nat
    OBVIOUS
  <2> HIDE DEF mirror
  <2> QED
    BY <2>2, <2>3, FirstOfSome
<1>3. PICK x \in T : x + m = n
  BY <1>2
<1>4. ASSUME NEW y \in T PROVE x >= y
  <2>1. PICK k \in mirror : y + k = n
    BY <1>1
  <2>2. m <= k /\ m \in Nat /\ k \in Nat /\ x \in Nat /\ y \in Nat
    BY <1>2
  <2> QED
    BY <1>3, <2>1, <2>2
<1> QED
  BY <1>4 DEF Max

\* Where a message stands first in a queue (0: nowhere).
First(q, m) == SelectInSeq(q, LAMBDA x : x = m)

LEMMA FirstIs ==
  ASSUME NEW q \in Seq(Messages), NEW m
  PROVE  /\ First(q, m) \in 0..Len(q)
         /\ First(q, m) = 0 <=> \A i \in DOMAIN q : q[i] # m
         /\ First(q, m) # 0 => q[First(q, m)] = m /\ \A i \in DOMAIN q : q[i] = m => First(q, m) <= i
<1> DEFINE places == {i \in 1..Len(q) : q[i] = m}
<1>1. First(q, m) = IF places # {} THEN Min(places) ELSE 0
  BY DEF First, SelectInSeq
<1>2. places # {} => Min(places) \in places /\ \A i \in places : Min(places) <= i
  <2>1. places \subseteq Nat
    OBVIOUS
  <2> HIDE DEF places
  <2> QED
    BY <2>1, MinOfSome
<1> QED
  BY <1>1, <1>2

\* What is appended comes after everything else.
LEMMA FirstAfterAppend ==
  ASSUME NEW q \in Seq(Messages), NEW x \in Messages, NEW m
  PROVE  /\ First(q, m) # 0 => First(Append(q, x), m) = First(q, m)
         /\ x # m => First(Append(q, x), m) = First(q, m)
         /\ First(q, m) = 0 /\ x = m => First(Append(q, x), m) = Len(q) + 1
<1> DEFINE longer == Append(q, x)
<1>1. /\ longer \in Seq(Messages) /\ Len(longer) = Len(q) + 1
      /\ \A i \in 1..Len(q) : longer[i] = q[i]
      /\ longer[Len(q) + 1] = x
  BY AppendProperties
<1> HIDE DEF longer
<1>2. /\ First(longer, m) \in 0..Len(longer)
      /\ First(longer, m) = 0 <=> \A i \in DOMAIN longer : longer[i] # m
      /\ First(longer, m) # 0 =>
           /\ longer[First(longer, m)] = m
           /\ \A i \in DOMAIN longer : longer[i] = m => First(longer, m) <= i
  BY <1>1, FirstIs
<1>3. /\ First(q, m) \in 0..Len(q)
      /\ First(q, m) = 0 <=> \A i \in DOMAIN q : q[i] # m
      /\ First(q, m) # 0 => q[First(q, m)] = m /\ \A i \in DOMAIN q : q[i] = m => First(q, m) <= i
  BY FirstIs
<1>4. DOMAIN q = 1..Len(q) /\ DOMAIN longer = 1..Len(longer) /\ Len(q) \in Nat
  BY <1>1
<1>5. ASSUME First(q, m) # 0 PROVE First(longer, m) = First(q, m)
  BY <1>1, <1>2, <1>3, <1>4, <1>5
<1>6. ASSUME First(q, m) = 0, x # m PROVE First(longer, m) = 0
  BY <1>1, <1>2, <1>3, <1>4, <1>6
<1>7. ASSUME First(q, m) = 0, x = m PROVE First(longer, m) = Len(q) + 1
  BY <1>1, <1>2, <1>3, <1>4, <1>7
<1> QED
  BY <1>5, <1>6, <1>7 DEF longer

\* Only news of a stop change where one thinks the debuggee is (mux.py:286-291).
News(q) == {i \in DOMAIN q : IsStopNews(q[i])}

LEMMA StopAfterAppend ==
  ASSUME NEW S, NEW q \in Seq(S), NEW m \in S
  PROVE  /\ ~IsStopNews(m) => News(Append(q, m)) = News(q) /\ StopIn(Append(q, m)) = StopIn(q)
         /\ IsStopNews(m) => /\ News(Append(q, m)) # {}
                             /\ StopIn(Append(q, m)) = IF m.name = "stopped" THEN m ELSE NoEvent
<1> DEFINE longer == Append(q, m)
<1>1. /\ DOMAIN longer = 1..Len(q)+1 /\ DOMAIN q = 1..Len(q) /\ Len(q) \in Nat
      /\ \A i \in 1..Len(q) : longer[i] = q[i]
      /\ longer[Len(q) + 1] = m
  OBVIOUS
<1> HIDE DEF longer
<1>2. /\ StopIn(longer) = IF News(longer) # {} /\ longer[Max(News(longer))].name = "stopped"
                          THEN longer[Max(News(longer))] ELSE NoEvent
      /\ StopIn(q) = IF News(q) # {} /\ q[Max(News(q))].name = "stopped"
                     THEN q[Max(News(q))] ELSE NoEvent
  BY DEF StopIn, News
<1>3. ASSUME ~IsStopNews(m)
      PROVE  News(longer) = News(q) /\ StopIn(longer) = StopIn(q)
  <2>1. News(longer) = News(q)
    BY <1>1, <1>3 DEF News
  <2>2. News(q) # {} => Max(News(q)) \in 1..Len(q)
    BY <1>1, MaxOfSome DEF News
  <2> QED
    BY <1>1, <1>2, <2>1, <2>2
<1>4. ASSUME IsStopNews(m)
      PROVE  /\ News(longer) # {}
             /\ StopIn(longer) = IF m.name = "stopped" THEN m ELSE NoEvent
  <2>1. Len(q) + 1 \in News(longer) /\ News(longer) \subseteq 1..Len(q)+1
    BY <1>1, <1>4 DEF News
  <2>2. Max(News(longer)) = Len(q) + 1
    BY <1>1, <2>1, MaxOfSome
  <2> QED
    BY <1>1, <1>2, <2>1, <2>2
<1> QED
  BY <1>3, <1>4 DEF longer


-----------------------------------------------------------------------------
(* The queue q of a client that joined after so many emissions, when the   *)
(* adapter has emitted log and the events first and stop are cached.       *)

\* A success that makes a client initialized.
Accepts(m) == m.type = "response" /\ m.command = "initialize" /\ m.success

IsInitializedEvent(m) == m.type = "event" /\ m.name = "initialized"

\* The caches hold what was emitted last of their kind (mux.py:284-291).
CachesFit(log, first, stop) ==
  /\ log \in Seq(Emission)
  /\ \A k \in DOMAIN log : log[k].n = k
  /\ first # NoEvent => IsInitializedEvent(first) /\ \E k \in DOMAIN log : first = log[k]
  /\ (\E k \in DOMAIN log : IsInitializedEvent(log[k])) => first # NoEvent
  /\ stop = StopIn(log)

OnlyEmitted(q, log) ==
  \A i \in DOMAIN q : q[i].type # "response" => \E k \in DOMAIN log : q[i] = log[k]

Handshaken(q, first) ==
  first # NoEvent => \A i \in DOMAIN q : Accepts(q[i]) => \E j \in i+1..Len(q) : q[j] = first

StopKnown(q, stop) ==
  News(q) # {} \/ (\E i \in DOMAIN q : Accepts(q[i])) => StopIn(q) = stop

NoneMissed(q, joined, log) ==
  \A k \in DOMAIN log : log[k].type = "event" =>
    IF ShouldFilterEvent(log[k].name) THEN First(q, log[k]) = 0
    ELSE k > joined =>
           /\ First(q, log[k]) > 0
           /\ \A l \in joined+1..k-1 : First(q, log[l]) < First(q, log[k])

QueueInv(q, joined, log, first, stop) ==
  /\ q \in Seq(Messages)
  /\ OnlyEmitted(q, log)
  /\ Handshaken(q, first)
  /\ StopKnown(q, stop)
  /\ NoneMissed(q, joined, log)

\* The cached stop is one.
LEMMA StopIsStop ==
  ASSUME NEW log, NEW first, NEW stop, CachesFit(log, first, stop), stop # NoEvent
  PROVE  /\ IsStopNews(stop) /\ stop.name = "stopped"
         /\ \E k \in DOMAIN log : stop = log[k]
<1>1. News(log) # {} /\ stop = log[Max(News(log))] /\ stop.name = "stopped"
  BY DEF CachesFit, StopIn, News
<1>2. Max(News(log)) \in News(log)
  <2>1. News(log) \subseteq 1..Len(log) /\ Len(log) \in Nat
    BY DEF News, CachesFit
  <2> QED
    BY <1>1, <2>1, MaxOfSome
<1> QED
  BY <1>1, <1>2 DEF News

-----------------------------------------------------------------------------
(* What is put into a queue that is no new emission.                       *)

\* A response, or an event that the adapter has emitted and that is not filtered.
LEMMA AppendKnown ==
  ASSUME NEW q \in Seq(Messages), NEW joined \in Nat, NEW log \in Seq(Emission),
         NEW m \in Messages, OnlyEmitted(q, log), NoneMissed(q, joined, log),
         \/ m.type = "response"
         \/ m.type = "event" /\ ~ShouldFilterEvent(m.name) /\ \E k \in DOMAIN log : m = log[k]
  PROVE  OnlyEmitted(Append(q, m), log) /\ NoneMissed(Append(q, m), joined, log)
<1>1. OnlyEmitted(Append(q, m), log)
  BY AppendProperties DEF OnlyEmitted
<1>2. \A k \in DOMAIN log : m = log[k] => log[k].type = "event" /\ ~ShouldFilterEvent(log[k].name)
  <2>1. CASE m.type = "response"
    <3>1. \A k \in DOMAIN log : log[k] \in Emission
      BY ElementOfSeq
    <3> QED
      BY <2>1, <3>1 DEF Emission
  <2> QED
    BY <2>1
<1>3. \A x : /\ First(q, x) # 0 => First(Append(q, m), x) = First(q, x)
             /\ x # m => First(Append(q, m), x) = First(q, x)
  BY FirstAfterAppend
<1>4. ASSUME NEW k \in DOMAIN log, log[k].type = "event", ShouldFilterEvent(log[k].name)
      PROVE  First(Append(q, m), log[k]) = 0
  BY <1>2, <1>3, <1>4 DEF NoneMissed
<1>5. ASSUME NEW k \in DOMAIN log, log[k].type = "event", ~ShouldFilterEvent(log[k].name), k > joined
      PROVE  /\ First(Append(q, m), log[k]) > 0
             /\ \A l \in joined+1..k-1 : First(Append(q, m), log[l]) < First(Append(q, m), log[k])
  <2>1. First(q, log[k]) > 0 /\ First(q, log[k]) \in Nat
    BY <1>5, FirstIs DEF NoneMissed
  <2>2. First(Append(q, m), log[k]) = First(q, log[k])
    BY <1>3, <2>1
  <2>3. ASSUME NEW l \in joined+1..k-1
        PROVE  First(Append(q, m), log[l]) < First(q, log[k])
    <3>1. First(q, log[l]) < First(q, log[k])
      BY <1>5 DEF NoneMissed
    <3>2. CASE First(q, log[l]) # 0
      BY <1>3, <3>1, <3>2
    <3>3. CASE First(q, log[l]) = 0
      <4>1. l \in DOMAIN log /\ l > joined
        BY <1>5 DEF NoneMissed
      <4>2. log[l] # m
        BY <1>2, <3>3, <4>1 DEF NoneMissed
      <4> QED
        BY <1>3, <3>1, <4>2
    <3> QED
      BY <3>2, <3>3
  <2> QED
    BY <2>1, <2>2, <2>3
<1> QED
  BY <1>1, <1>4, <1>5 DEF NoneMissed

\* A response that makes nobody initialized.
LEMMA AppendPlain ==
  ASSUME NEW q, NEW joined \in Nat, NEW log, NEW first, NEW stop, NEW m \in Messages,
         CachesFit(log, first, stop), QueueInv(q, joined, log, first, stop),
         m.type = "response", ~Accepts(m)
  PROVE  QueueInv(Append(q, m), joined, log, first, stop)
<1> DEFINE longer == Append(q, m)
<1>1. /\ longer \in Seq(Messages) /\ Len(longer) = Len(q) + 1
      /\ \A i \in 1..Len(q) : longer[i] = q[i]
      /\ longer[Len(q) + 1] = m
      /\ Len(q) \in Nat /\ DOMAIN q = 1..Len(q) /\ DOMAIN longer = 1..Len(q)+1
  BY AppendProperties DEF QueueInv
<1>2. OnlyEmitted(longer, log) /\ NoneMissed(longer, joined, log)
  BY AppendKnown DEF QueueInv, CachesFit
<1>3. News(longer) = News(q) /\ StopIn(longer) = StopIn(q)
  BY StopAfterAppend DEF QueueInv, IsStopNews
<1> HIDE DEF longer
<1>4. Handshaken(longer, first)
  <2> SUFFICES ASSUME first # NoEvent, NEW i \in DOMAIN longer, Accepts(longer[i])
               PROVE  \E j \in i+1..Len(longer) : longer[j] = first
    BY DEF Handshaken
  <2>1. i \in DOMAIN q /\ Accepts(q[i])
    BY <1>1
  <2>2. PICK j \in i+1..Len(q) : q[j] = first
    BY <2>1 DEF QueueInv, Handshaken
  <2> QED
    BY <1>1, <2>1, <2>2
<1>5. StopKnown(longer, stop)
  BY <1>1, <1>3 DEF StopKnown, QueueInv
<1> QED
  BY <1>1, <1>2, <1>4, <1>5 DEF QueueInv, longer

\* The first answer to initialize comes before any event that is cached.
LEMMA AppendFirst ==
  ASSUME NEW q, NEW joined \in Nat, NEW log, NEW first, NEW stop, NEW m \in Messages,
         CachesFit(log, first, stop), QueueInv(q, joined, log, first, stop),
         m.type = "response", first = NoEvent, stop = NoEvent
  PROVE  QueueInv(Append(q, m), joined, log, first, stop)
<1>1. Append(q, m) \in Seq(Messages)
  BY AppendProperties DEF QueueInv
<1>2. OnlyEmitted(Append(q, m), log) /\ NoneMissed(Append(q, m), joined, log)
  BY AppendKnown DEF QueueInv, CachesFit
<1>3. StopIn(Append(q, m)) = StopIn(q)
  BY StopAfterAppend DEF QueueInv, IsStopNews
<1>4. StopIn(q) = NoEvent
  BY DEF QueueInv, StopKnown, StopIn, News
<1> QED
  BY <1>1, <1>2, <1>3, <1>4 DEF QueueInv, Handshaken, StopKnown

\* The cached answer: the response, and what is cached behind it (mux.py:238-263).
LEMMA AppendCached ==
  ASSUME NEW q, NEW joined \in Nat, NEW log, NEW first, NEW stop, NEW m \in Messages,
         CachesFit(log, first, stop), QueueInv(q, joined, log, first, stop),
         m.type = "response"
  PROVE  QueueInv((Append(q, m) \o Replay(first)) \o Replay(stop), joined, log, first, stop)
<1> DEFINE q1 == Append(q, m)
           q2 == q1 \o Replay(first)
           q3 == q2 \o Replay(stop)
<1>1. q \in Seq(Messages) /\ log \in Seq(Emission)
  BY DEF QueueInv, CachesFit
<1>2. /\ q1 \in Seq(Messages)
      /\ OnlyEmitted(q1, log) /\ NoneMissed(q1, joined, log)
      /\ News(q1) = News(q) /\ StopIn(q1) = StopIn(q)
  BY <1>1, AppendProperties, AppendKnown, StopAfterAppend DEF QueueInv, IsStopNews
<1> HIDE DEF q1
<1>3. /\ q2 \in Seq(Messages)
      /\ OnlyEmitted(q2, log) /\ NoneMissed(q2, joined, log)
      /\ News(q2) = News(q) /\ StopIn(q2) = StopIn(q)
      /\ Handshaken(q2, first)
  <2>1. CASE first = NoEvent
    <3>1. q2 = q1
      BY <1>2, <2>1, ConcatEmptySeq DEF Replay
    <3> QED
      BY <1>2, <2>1, <3>1 DEF Handshaken
  <2>2. CASE first # NoEvent
    <3>1. /\ IsInitializedEvent(first) /\ ~ShouldFilterEvent(first.name) /\ ~IsStopNews(first)
          /\ \E k \in DOMAIN log : first = log[k]
      BY <2>2 DEF CachesFit, IsInitializedEvent, ShouldFilterEvent, IsStopNews
    <3>2. first \in Messages
      BY <1>1, <3>1, ElementOfSeq DEF Messages
    <3>3. q2 = Append(q1, first)
      BY <1>2, <2>2, <3>2, AppendIsConcat DEF Replay
    <3>4. /\ q2 \in Seq(Messages)
          /\ OnlyEmitted(q2, log) /\ NoneMissed(q2, joined, log)
      BY <1>1, <1>2, <3>1, <3>2, <3>3, AppendProperties, AppendKnown DEF IsInitializedEvent
    <3>5. News(q2) = News(q1) /\ StopIn(q2) = StopIn(q1)
      BY <1>2, <3>1, <3>2, <3>3, StopAfterAppend
    <3>6. Handshaken(q2, first)
      <4>1. /\ Len(q2) = Len(q1) + 1 /\ q2[Len(q1) + 1] = first /\ Len(q1) \in Nat
            /\ DOMAIN q2 = 1..Len(q1)+1
        BY <1>2, <3>2, <3>3, <3>4, AppendProperties
      <4>2. ~Accepts(first)
        BY <3>1 DEF IsInitializedEvent, Accepts
      <4> QED
        BY <4>1, <4>2 DEF Handshaken
    <3> QED
      BY <1>2, <3>4, <3>5, <3>6
  <2> QED
    BY <2>1, <2>2
<1> HIDE DEF q2
<1>4. CASE stop = NoEvent
  <2>1. q3 = q2
    BY <1>3, <1>4, ConcatEmptySeq DEF Replay
  <2>2. StopIn(q) = NoEvent
    BY <1>4 DEF QueueInv, StopKnown, StopIn, News
  <2> QED
    BY <1>3, <1>4, <2>1, <2>2 DEF QueueInv, StopKnown, q1, q2
<1>5. CASE stop # NoEvent
  <2>1. /\ IsStopNews(stop) /\ stop.name = "stopped" /\ stop.type = "event"
        /\ ~ShouldFilterEvent(stop.name) /\ \E k \in DOMAIN log : stop = log[k]
    BY <1>5, StopIsStop DEF IsStopNews, ShouldFilterEvent
  <2>2. stop \in Messages
    BY <1>1, <2>1, ElementOfSeq DEF Messages
  <2>3. q3 = Append(q2, stop)
    BY <1>3, <1>5, <2>2, AppendIsConcat DEF Replay
  <2>4. /\ q3 \in Seq(Messages)
        /\ OnlyEmitted(q3, log) /\ NoneMissed(q3, joined, log)
    BY <1>1, <1>3, <2>1, <2>2, <2>3, AppendProperties, AppendKnown
  <2>5. StopKnown(q3, stop)
    BY <1>3, <2>1, <2>2, <2>3, StopAfterAppend DEF StopKnown
  <2>6. Handshaken(q3, first)
    <3>1. /\ Len(q3) = Len(q2) + 1 /\ q3[Len(q2) + 1] = stop /\ Len(q2) \in Nat
          /\ DOMAIN q3 = 1..Len(q2)+1 /\ DOMAIN q2 = 1..Len(q2)
          /\ \A i \in 1..Len(q2) : q3[i] = q2[i]
      BY <1>3, <2>2, <2>3, <2>4, AppendProperties
    <3>2. ~Accepts(stop)
      BY <2>1 DEF Accepts
    <3> HIDE DEF q3
    <3>3. ASSUME first # NoEvent, NEW i \in DOMAIN q3, Accepts(q3[i])
          PROVE  \E j \in i+1..Len(q3) : q3[j] = first
      <4>1. i \in 1..Len(q2) /\ Accepts(q2[i])
        BY <3>1, <3>2, <3>3
      <4>2. PICK j \in i+1..Len(q2) : q2[j] = first
        BY <1>3, <3>1, <3>3, <4>1 DEF Handshaken
      <4> QED
        BY <3>1, <4>1, <4>2
    <3> QED
      BY <3>3 DEF Handshaken
  <2> HIDE DEF q3
  <2>7. QueueInv(q3, joined, log, first, stop)
    BY <2>4, <2>5, <2>6 DEF QueueInv
  <2> QED
    BY <2>7 DEF q1, q2, q3
<1> QED
  BY <1>4, <1>5

-----------------------------------------------------------------------------
(* The adapter emits an event or a reverse request.                        *)

FirstAfter(e, first) == IF IsInitializedEvent(e) THEN e ELSE first

StopLeft(e, stop) ==
  IF IsStopNews(e) THEN (IF e.name = "stopped" THEN e ELSE NoEvent) ELSE stop

LEMMA EmittedLog ==
  ASSUME NEW log \in Seq(Emission), NEW e \in Emission
  PROVE  /\ Append(log, e) \in Seq(Emission)
         /\ DOMAIN Append(log, e) = 1..Len(log)+1 /\ DOMAIN log = 1..Len(log) /\ Len(log) \in Nat
         /\ \A k \in 1..Len(log) : Append(log, e)[k] = log[k]
         /\ Append(log, e)[Len(log) + 1] = e
BY AppendProperties

LEMMA EmissionCached ==
  ASSUME NEW log, NEW first, NEW stop, CachesFit(log, first, stop),
         NEW e \in Emission, e.n = Len(log) + 1
  PROVE  CachesFit(Append(log, e), FirstAfter(e, first), StopLeft(e, stop))
<1> DEFINE longer == Append(log, e)
<1>1. log \in Seq(Emission)
  BY DEF CachesFit
<1>2. /\ longer \in Seq(Emission)
      /\ DOMAIN longer = 1..Len(log)+1 /\ DOMAIN log = 1..Len(log) /\ Len(log) \in Nat
      /\ \A k \in 1..Len(log) : longer[k] = log[k]
      /\ longer[Len(log) + 1] = e
  BY <1>1, EmittedLog
<1>3. StopLeft(e, stop) = StopIn(longer)
  BY <1>1, StopAfterAppend DEF StopLeft, CachesFit
<1> HIDE DEF longer
<1>4. \A k \in DOMAIN longer : longer[k].n = k
  BY <1>2 DEF CachesFit
<1>5. FirstAfter(e, first) # NoEvent =>
        /\ IsInitializedEvent(FirstAfter(e, first))
        /\ \E k \in DOMAIN longer : FirstAfter(e, first) = longer[k]
  BY <1>2 DEF FirstAfter, CachesFit
<1>6. e # NoEvent
  BY DEF Emission, NoEvent
<1>7. (\E k \in DOMAIN longer : IsInitializedEvent(longer[k])) => FirstAfter(e, first) # NoEvent
  BY <1>2, <1>6 DEF FirstAfter, CachesFit
<1> QED
  BY <1>2, <1>3, <1>4, <1>5, <1>7 DEF CachesFit, longer

LEMMA EmissionQueued ==
  ASSUME NEW q, NEW joined \in Nat, NEW log, NEW first, NEW stop,
         CachesFit(log, first, stop), QueueInv(q, joined, log, first, stop),
         NEW e \in Emission, e.n = Len(log) + 1,
         NEW queue, queue = q \/ queue = Append(q, e),
         e.type = "event" => (queue = IF ShouldFilterEvent(e.name) THEN q ELSE Append(q, e))
  PROVE  QueueInv(queue, joined, Append(log, e), FirstAfter(e, first), StopLeft(e, stop))
<1> DEFINE longer == Append(log, e)
           last == Len(log) + 1
<1>1. q \in Seq(Messages) /\ log \in Seq(Emission)
  BY DEF QueueInv, CachesFit
<1>2. /\ longer \in Seq(Emission)
      /\ DOMAIN longer = 1..last /\ DOMAIN log = 1..Len(log) /\ Len(log) \in Nat
      /\ \A k \in 1..Len(log) : longer[k] = log[k]
      /\ longer[last] = e
  BY <1>1, EmittedLog
<1>3. e \in Messages /\ e.type # "response" /\ ~Accepts(e)
  BY DEF Messages, Emission, Accepts
<1>4. /\ Append(q, e) \in Seq(Messages) /\ Len(Append(q, e)) = Len(q) + 1
      /\ \A i \in 1..Len(q) : Append(q, e)[i] = q[i]
      /\ Append(q, e)[Len(q) + 1] = e
      /\ Len(q) \in Nat /\ DOMAIN q = 1..Len(q) /\ DOMAIN Append(q, e) = 1..Len(q)+1
  BY <1>1, <1>3, AppendProperties
<1> HIDE DEF longer
<1>5. \A i \in DOMAIN queue : (i \in 1..Len(q) /\ queue[i] = q[i]) \/ queue[i] = e
  BY <1>4
<1>6. \A i \in DOMAIN queue : Accepts(queue[i]) => i \in 1..Len(q) /\ queue[i] = q[i]
  <2> SUFFICES ASSUME NEW i \in DOMAIN queue, Accepts(queue[i]), queue[i] = e
               PROVE  FALSE
    BY <1>5
  <2>1. queue[i].type = "response"
    BY DEF Accepts
  <2>2. e.type = "response"
    BY <2>1
  <2> QED
    BY <1>3, <2>2
<1>7. OnlyEmitted(queue, longer)
  <2>1. \A i \in DOMAIN q : q[i].type # "response" => \E k \in DOMAIN longer : q[i] = longer[k]
    BY <1>2 DEF QueueInv, OnlyEmitted
  <2>2. \E k \in DOMAIN longer : e = longer[k]
    BY <1>2
  <2> QED
    BY <1>4, <2>1, <2>2 DEF OnlyEmitted
<1>8. Handshaken(queue, FirstAfter(e, first))
  <2>1. CASE IsInitializedEvent(e)
    <3>1. queue = Append(q, e) /\ FirstAfter(e, first) = e
      BY <2>1 DEF IsInitializedEvent, ShouldFilterEvent, FirstAfter
    <3>2. ASSUME NEW i \in DOMAIN queue, Accepts(queue[i])
          PROVE  \E j \in i+1..Len(queue) : queue[j] = e
      <4>1. i \in 1..Len(q)
        BY <1>6, <3>2
      <4>2. Len(q) \in Nat /\ Len(queue) = Len(q) + 1 /\ queue[Len(q) + 1] = e
        BY <1>4, <3>1
      <4>3. \A n \in Nat : \A k \in 1..n : n + 1 \in k+1..n+1
        OBVIOUS
      <4> QED
        BY <4>1, <4>2, <4>3
    <3> QED
      BY <3>1, <3>2 DEF Handshaken
  <2>2. CASE ~IsInitializedEvent(e)
    <3>1. FirstAfter(e, first) = first
      BY <2>2 DEF FirstAfter
    <3>2. ASSUME first # NoEvent, NEW i \in DOMAIN queue, Accepts(queue[i])
          PROVE  \E j \in i+1..Len(queue) : queue[j] = first
      <4>1. i \in 1..Len(q) /\ Accepts(q[i])
        BY <1>6, <3>2
      <4>2. PICK j \in i+1..Len(q) : q[j] = first
        BY <1>4, <3>2, <4>1 DEF QueueInv, Handshaken
      <4> QED
        BY <1>4, <4>1, <4>2
    <3> QED
      BY <3>1, <3>2 DEF Handshaken
  <2> QED
    BY <2>1, <2>2
<1>9. StopKnown(queue, StopLeft(e, stop))
  <2>1. CASE IsStopNews(e)
    <3>1. queue = Append(q, e)
      BY <2>1 DEF IsStopNews, ShouldFilterEvent
    <3> QED
      BY <1>1, <1>3, <2>1, <3>1, StopAfterAppend DEF StopKnown, StopLeft
  <2>2. CASE ~IsStopNews(e)
    <3>1. News(queue) = News(q) /\ StopIn(queue) = StopIn(q)
      <4>1. News(Append(q, e)) = News(q) /\ StopIn(Append(q, e)) = StopIn(q)
        BY <1>1, <1>3, <2>2, StopAfterAppend
      <4> QED
        BY <4>1
    <3>2. ASSUME NEW i \in DOMAIN queue, Accepts(queue[i])
          PROVE  \E j \in DOMAIN q : Accepts(q[j])
      <4>1. i \in DOMAIN q /\ queue[i] = q[i]
        BY <1>4, <1>6, <3>2
      <4> QED
        BY <3>2, <4>1
    <3> QED
      BY <2>2, <3>1, <3>2 DEF StopKnown, StopLeft, QueueInv
  <2> QED
    BY <2>1, <2>2
<1>10. \A k \in 1..Len(log) : longer[k] # e
  BY <1>2 DEF CachesFit
<1>11. First(q, e) = 0
  <2>1. ASSUME NEW i \in DOMAIN q PROVE q[i] # e
    <3>1. CASE q[i].type = "response"
      BY <1>3, <3>1
    <3>2. CASE q[i].type # "response"
      <4>1. PICK k \in DOMAIN log : q[i] = log[k]
        BY <3>2 DEF QueueInv, OnlyEmitted
      <4> QED
        BY <1>2, <1>10, <4>1
    <3> QED
      BY <3>1, <3>2
  <2> QED
    BY <1>1, <2>1, FirstIs
<1>12. \A k \in 1..Len(log) : First(queue, longer[k]) = First(q, log[k])
  <2>1. \A k \in 1..Len(log) : First(Append(q, e), longer[k]) = First(q, longer[k])
    BY <1>1, <1>3, <1>10, FirstAfterAppend
  <2> QED
    BY <1>2, <2>1
<1>13. \A k \in 1..Len(log) : First(q, log[k]) \in 0..Len(q)
  BY <1>1, FirstIs
<1>14. NoneMissed(queue, joined, longer)
  <2>1. ASSUME NEW k \in 1..Len(log), longer[k].type = "event"
        PROVE  IF ShouldFilterEvent(longer[k].name) THEN First(queue, longer[k]) = 0
               ELSE k > joined =>
                      /\ First(queue, longer[k]) > 0
                      /\ \A l \in joined+1..k-1 : First(queue, longer[l]) < First(queue, longer[k])
    <3>1. IF ShouldFilterEvent(log[k].name) THEN First(q, log[k]) = 0
          ELSE k > joined =>
                 /\ First(q, log[k]) > 0
                 /\ \A l \in joined+1..k-1 : First(q, log[l]) < First(q, log[k])
      BY <1>2, <2>1 DEF QueueInv, NoneMissed
    <3>2. \A l \in joined+1..k-1 : l \in 1..Len(log)
      BY <1>2
    <3> QED
      BY <1>2, <1>12, <3>1, <3>2
  <2>2. ASSUME e.type = "event", ShouldFilterEvent(e.name) PROVE First(queue, e) = 0
    BY <1>11, <2>2
  <2>3. ASSUME e.type = "event", ~ShouldFilterEvent(e.name)
        PROVE  /\ First(queue, e) > 0
               /\ \A l \in joined+1..last-1 : First(queue, longer[l]) < First(queue, e)
    <3>1. First(queue, e) = Len(q) + 1
      BY <1>1, <1>3, <1>11, <2>3, FirstAfterAppend
    <3>2. \A l \in joined+1..last-1 : l \in 1..Len(log)
      BY <1>2
    <3> QED
      BY <1>2, <1>4, <1>12, <1>13, <3>1, <3>2
  <2>4. \A k \in 1..last : k = last \/ k \in 1..Len(log)
    BY <1>2
  <2> QED
    BY <1>2, <2>1, <2>2, <2>3, <2>4 DEF NoneMissed
<1>15. queue \in Seq(Messages)
  BY <1>1, <1>4
<1> QED
  BY <1>7, <1>8, <1>9, <1>14, <1>15 DEF QueueInv, longer

-----------------------------------------------------------------------------
(* The session as the clients see it.                                      *)

QueuesFit ==
  \A c \in Clients :
    IF Registered(c)
    THEN QueueInv(outbox[c], joinedAt[c], emitted, initializedEvent, lastStoppedEvent)
    ELSE outbox[c] = <<>>

\* While the session is idle there is nothing to cache; it is idle until the
\* adapter has answered an initialize.
Answered(i) == i \in DOMAIN upstream /\ upstream[i].seq \in DOMAIN answers

IdleIsSilent == session = "idle" => initializedEvent = NoEvent /\ lastStoppedEvent = NoEvent

ReadyWasAsked ==
  session # "idle" => \E i \in DOMAIN upstream : upstream[i].command = "initialize" /\ Answered(i)

\* What still waits in the sequence map was not answered (seq.py:76-84).
PendingUnanswered == DOMAIN pending \cap DOMAIN answers = {}

AnswersAsked == DOMAIN answers \subseteq DOMAIN upstream

Caches == CachesFit(emitted, initializedEvent, lastStoppedEvent)

SessionInv ==
  QueuesFit /\ Caches /\ IdleIsSilent /\ ReadyWasAsked /\ PendingUnanswered /\ AnswersAsked

\* Steps of which neither the adapter nor the caches know.
LEMMA SessionKept ==
  ASSUME TypeOK, SessionInv, UNCHANGED <<emitted, session, answers, initializedEvent, lastStoppedEvent>>,
         \A i \in DOMAIN upstream : i \in DOMAIN upstream' /\ upstream'[i] = upstream[i],
         DOMAIN pending' \cap DOMAIN answers = {}
  PROVE  Caches' /\ IdleIsSilent' /\ ReadyWasAsked' /\ PendingUnanswered' /\ AnswersAsked'
<1>1. Caches'
  BY DEF SessionInv, Caches
<1>2. IdleIsSilent' /\ PendingUnanswered'
  BY DEF SessionInv, IdleIsSilent, PendingUnanswered
<1>3. ReadyWasAsked'
  BY DEF SessionInv, ReadyWasAsked, Answered
<1>4. AnswersAsked'
  BY DEF SessionInv, AnswersAsked
<1> QED
  BY <1>1, <1>2, <1>3, <1>4

\* The queue of one client changes.
LEMMA OneQueueFits ==
  ASSUME TypeOK, SessionInv, UNCHANGED <<emitted, initializedEvent, lastStoppedEvent, connection, joinedAt>>,
         NEW c \in Clients, Registered(c),
         QueueInv(outbox'[c], joinedAt[c], emitted, initializedEvent, lastStoppedEvent),
         \A d \in Clients : d # c => outbox'[d] = outbox[d]
  PROVE  QueuesFit'
<1> SUFFICES ASSUME NEW d \in Clients
             PROVE  IF Registered(d)
                    THEN QueueInv(outbox'[d], joinedAt[d], emitted, initializedEvent, lastStoppedEvent)
                    ELSE outbox'[d] = <<>>
  BY DEF QueuesFit, Registered
<1> QED
  BY DEF SessionInv, QueuesFit

LEMMA SameQueuesFit ==
  ASSUME SessionInv, UNCHANGED <<emitted, initializedEvent, lastStoppedEvent, connection, joinedAt, outbox>>
  PROVE  QueuesFit'
BY DEF SessionInv, QueuesFit, Registered

LEMMA SessionAccept ==
  ASSUME TypeOK, SessionInv, NEW c \in Clients, Accept(c)
  PROVE  SessionInv'
<1>1. /\ UNCHANGED <<emitted, session, answers, initializedEvent, lastStoppedEvent, upstream, pending, outbox>>
      /\ ~Registered(c) /\ joinedAt'[c] = Len(emitted)
      /\ connection'[c] = "registered"
      /\ \A d \in Clients : d # c => connection'[d] = connection[d] /\ joinedAt'[d] = joinedAt[d]
  BY DEF Accept, adapterVars, sessionCache, seqMap, Registered, TypeOK, MuxTypeOK
<1>2. Caches' /\ IdleIsSilent' /\ ReadyWasAsked' /\ PendingUnanswered' /\ AnswersAsked'
  BY <1>1, SessionKept DEF SessionInv, PendingUnanswered
<1>3. ASSUME NEW q, q = <<>>
      PROVE  QueueInv(q, Len(emitted), emitted, initializedEvent, lastStoppedEvent)
  <2>1. q \in Seq(Messages) /\ DOMAIN q = {}
    BY <1>3
  <2>2. \A m : First(q, m) = 0
    BY <2>1, FirstIs
  <2>3. NoneMissed(q, Len(emitted), emitted)
    <3>1. DOMAIN emitted = 1..Len(emitted) /\ Len(emitted) \in Nat
      BY DEF TypeOK, AdapterTypeOK
    <3> QED
      BY <2>2, <3>1 DEF NoneMissed
  <2> QED
    BY <2>1, <2>3 DEF QueueInv, OnlyEmitted, Handshaken, StopKnown, News
<1>4. QueueInv(outbox[c], joinedAt'[c], emitted, initializedEvent, lastStoppedEvent)
  BY <1>1, <1>3 DEF SessionInv, QueuesFit
<1>5. QueuesFit'
  <2> SUFFICES ASSUME NEW d \in Clients
               PROVE  IF Registered(d)'
                      THEN QueueInv(outbox[d], joinedAt'[d], emitted, initializedEvent, lastStoppedEvent)
                      ELSE outbox[d] = <<>>
    BY <1>1 DEF QueuesFit
  <2>1. CASE d = c
    BY <1>1, <1>4, <2>1 DEF Registered
  <2>2. CASE d # c
    BY <1>1, <2>2 DEF SessionInv, QueuesFit, Registered
  <2> QED
    BY <2>1, <2>2
<1> QED
  BY <1>2, <1>5 DEF SessionInv

LEMMA SessionDisconnect ==
  ASSUME TypeOK, SessionInv, NEW c \in Clients, Disconnect(c)
  PROVE  SessionInv'
<1>1. /\ UNCHANGED <<emitted, session, answers, initializedEvent, lastStoppedEvent, upstream, joinedAt>>
      /\ outbox'[c] = <<>> /\ connection'[c] = "gone"
      /\ \A d \in Clients : d # c => connection'[d] = connection[d] /\ outbox'[d] = outbox[d]
  BY DEF Disconnect, adapterVars, sessionCache, TypeOK, MuxTypeOK
<1>2. DOMAIN pending' \subseteq DOMAIN pending
  BY ForgetType DEF Disconnect, Seqs!Cleanup
<1>3. Caches' /\ IdleIsSilent' /\ ReadyWasAsked' /\ PendingUnanswered' /\ AnswersAsked'
  BY <1>1, <1>2, SessionKept DEF SessionInv, PendingUnanswered
<1>4. QueuesFit'
  <2> SUFFICES ASSUME NEW d \in Clients
               PROVE  IF Registered(d)'
                      THEN QueueInv(outbox'[d], joinedAt[d], emitted, initializedEvent, lastStoppedEvent)
                      ELSE outbox'[d] = <<>>
    BY <1>1 DEF QueuesFit
  <2>1. CASE d = c
    BY <1>1, <2>1 DEF Registered
  <2>2. CASE d # c
    BY <1>1, <2>2 DEF SessionInv, QueuesFit, Registered
  <2> QED
    BY <2>1, <2>2
<1> QED
  BY <1>3, <1>4 DEF SessionInv

\* A request that is forwarded gets a number no answer was given to.
LEMMA SessionForward ==
  ASSUME TypeOK, RoutingInv, SessionInv, NEW c \in Clients, NEW command, Forward(c, command),
         UNCHANGED <<initializedEvent, lastStoppedEvent, connection, joinedAt, outbox>>
  PROVE  SessionInv'
<1>1. UNCHANGED <<emitted, session, answers>>
  BY DEF Forward
<1>2. \A i \in DOMAIN upstream : i \in DOMAIN upstream' /\ upstream'[i] = upstream[i]
  BY ForwardOnUpstream
<1>3. DOMAIN pending' = DOMAIN pending \cup {nextSeq}
  BY DEF Forward, Seqs!Allocate
<1>4. nextSeq \notin DOMAIN answers
  BY ForwardOnUpstream DEF RoutingInv, Numbered, SessionInv, AnswersAsked
<1>5. DOMAIN pending' \cap DOMAIN answers = {}
  BY <1>3, <1>4 DEF SessionInv, PendingUnanswered
<1>6. Caches' /\ IdleIsSilent' /\ ReadyWasAsked' /\ PendingUnanswered' /\ AnswersAsked'
  BY <1>1, <1>2, <1>5, SessionKept
<1> QED
  BY <1>1, <1>6, SameQueuesFit DEF SessionInv

LEMMA SessionIntercepted ==
  ASSUME TypeOK, SessionInv, NEW c \in Clients, NEW command, RequestIntercepted(c, command)
  PROVE  SessionInv'
<1> DEFINE response == Response(c, Number(c), command, TRUE, FALSE, <<c, Number(c)>>)
<1>1. /\ UNCHANGED <<emitted, session, answers, upstream, pending, initializedEvent, lastStoppedEvent>>
      /\ UNCHANGED <<connection, joinedAt>>
      /\ Registered(c) /\ Send(c, command) /\ Enqueue(c, <<response>>)
      /\ command # "initialize"
  BY DEF RequestIntercepted, RespondSynthetic, Send, adapterVars, sessionCache, seqMap, Intercepted
<1>2. outbox[c] \in Seq(Messages)
  BY DEF TypeOK, MuxTypeOK
<1>3. response \in Messages /\ response.type = "response" /\ ~Accepts(response)
  <2>1. command \in Commands /\ Number(c) \in Nat
    BY <1>1, SendType
  <2>2. response.type = "response" /\ response.command = command
    BY DEF Response
  <2> QED
    BY <1>1, <2>1, <2>2, ResponseType DEF Accepts
<1> HIDE DEF response
<1>4. /\ outbox'[c] = Append(outbox[c], response)
      /\ \A d \in Clients : d # c => outbox'[d] = outbox[d]
  BY <1>1, <1>2, <1>3, AppendIsConcat DEF Enqueue, TypeOK, MuxTypeOK
<1>5. QueueInv(outbox[c], joinedAt[c], emitted, initializedEvent, lastStoppedEvent) /\ joinedAt[c] \in Nat
  BY <1>1 DEF SessionInv, QueuesFit, TypeOK, MuxTypeOK
<1>6. QueueInv(outbox'[c], joinedAt[c], emitted, initializedEvent, lastStoppedEvent)
  BY <1>3, <1>4, <1>5, AppendPlain DEF SessionInv, Caches
<1>7. Caches' /\ IdleIsSilent' /\ ReadyWasAsked' /\ PendingUnanswered' /\ AnswersAsked'
  BY <1>1, SessionKept DEF SessionInv, PendingUnanswered
<1> QED
  BY <1>1, <1>4, <1>6, <1>7, OneQueueFits DEF SessionInv

\* What the cached answer does to a queue that fits.
LEMMA CachedQueueFits ==
  ASSUME TypeOK, SessionInv, NEW c \in Clients, Registered(c), NEW n \in Nat, NEW caps \in BOOLEAN
  PROVE  QueueInv(outbox[c] \o CachedInitialize(c, n, caps), joinedAt[c], emitted,
                  initializedEvent, lastStoppedEvent)
<1> DEFINE response == Response(c, n, "initialize", TRUE, caps, <<c, n>>)
           first == Replay(initializedEvent)
           second == Replay(lastStoppedEvent)
           q == outbox[c]
<1>1. response \in Messages /\ response.type = "response"
  <2>1. "initialize" \in Commands
    BY DEF Commands
  <2> QED
    BY <2>1, ResponseType DEF Response
<1>2. first \in Seq(Messages) /\ second \in Seq(Messages)
  <2>1. \A event \in Emission : event \in Messages
    BY DEF Messages
  <2> QED
    BY <2>1 DEF TypeOK, MuxTypeOK, Replay
<1>3. q \in Seq(Messages)
  BY DEF TypeOK, MuxTypeOK
<1>4. QueueInv(q, joinedAt[c], emitted, initializedEvent, lastStoppedEvent) /\ joinedAt[c] \in Nat
  BY DEF SessionInv, QueuesFit, TypeOK, MuxTypeOK
<1>5. QueueInv((Append(q, response) \o first) \o second, joinedAt[c], emitted,
               initializedEvent, lastStoppedEvent)
  BY <1>1, <1>4, AppendCached DEF SessionInv, Caches
<1>6. CachedInitialize(c, n, caps) = (<<response>> \o first) \o second
  BY DEF CachedInitialize
<1> HIDE DEF response, first, second, q
<1>7. q \o ((<<response>> \o first) \o second) = (Append(q, response) \o first) \o second
  <2>1. <<response>> \in Seq(Messages) /\ Append(q, response) = q \o <<response>>
    BY <1>1, <1>3, AppendIsConcat
  <2>2. <<response>> \o first \in Seq(Messages)
    BY <1>2, <2>1, ConcatProperties
  <2>3. q \o ((<<response>> \o first) \o second) = (q \o (<<response>> \o first)) \o second
    <3>1. \A a, b, d \in Seq(Messages) : a \o (b \o d) = (a \o b) \o d
      BY ConcatAssociative
    <3> QED
      BY <1>2, <1>3, <2>2, <3>1
  <2>4. q \o (<<response>> \o first) = (q \o <<response>>) \o first
    BY <1>2, <1>3, <2>1, ConcatAssociative
  <2> QED
    BY <2>1, <2>3, <2>4
<1> QED
  BY <1>5, <1>6, <1>7 DEF q

LEMMA SessionFromCache ==
  ASSUME TypeOK, SessionInv, NEW c \in Clients, InitializeFromCache(c)
  PROVE  SessionInv'
<1> DEFINE more == CachedInitialize(c, Number(c), capabilities)
<1>1. /\ UNCHANGED <<emitted, session, answers, upstream, pending, initializedEvent, lastStoppedEvent>>
      /\ UNCHANGED <<connection, joinedAt>>
      /\ Registered(c) /\ Send(c, "initialize") /\ Enqueue(c, more)
  BY DEF InitializeFromCache, Send, adapterVars, sessionCache, seqMap
<1>2. Number(c) \in Nat /\ capabilities \in BOOLEAN
  BY <1>1, SendType DEF TypeOK, MuxTypeOK
<1>3. QueueInv(outbox[c] \o more, joinedAt[c], emitted, initializedEvent, lastStoppedEvent)
  BY <1>1, <1>2, CachedQueueFits
<1> HIDE DEF more
<1>4. outbox'[c] = outbox[c] \o more /\ \A d \in Clients : d # c => outbox'[d] = outbox[d]
  BY <1>1 DEF Enqueue, TypeOK, MuxTypeOK
<1>5. Caches' /\ IdleIsSilent' /\ ReadyWasAsked' /\ PendingUnanswered' /\ AnswersAsked'
  BY <1>1, SessionKept DEF SessionInv, PendingUnanswered
<1> QED
  BY <1>1, <1>3, <1>4, <1>5, OneQueueFits DEF SessionInv

LEMMA SessionClientStep ==
  ASSUME TypeOK, RoutingInv, SessionInv, NEW c \in Clients, ClientStep(c)
  PROVE  SessionInv'
<1>1. CASE InitializeBuffered(c) \/ ReverseResponseIgnored(c)
  <2>1. UNCHANGED <<emitted, session, answers, upstream, pending, initializedEvent, lastStoppedEvent,
                    connection, joinedAt, outbox>>
    BY <1>1 DEF InitializeBuffered, ReverseResponseIgnored, Send, adapterVars, sessionCache, seqMap
  <2>2. Caches' /\ IdleIsSilent' /\ ReadyWasAsked' /\ PendingUnanswered' /\ AnswersAsked'
    BY <2>1, SessionKept DEF SessionInv, PendingUnanswered
  <2> QED
    BY <2>1, <2>2, SameQueuesFit DEF SessionInv
<1>2. CASE InitializeForwarded(c)
  BY <1>2, SessionForward DEF InitializeForwarded, Send, sessionCache
<1>3. CASE ConfigurationDoneForwarded(c)
  BY <1>3, SessionForward DEF ConfigurationDoneForwarded, Send, sessionCache
<1>4. ASSUME NEW command \in Requests, RequestForwarded(c, command) PROVE SessionInv'
  BY <1>4, SessionForward DEF RequestForwarded, Send, sessionCache
<1> QED
  BY <1>1, <1>2, <1>3, <1>4, SessionAccept, SessionDisconnect, SessionFromCache,
     SessionIntercepted DEF ClientStep

-----------------------------------------------------------------------------
(* The adapter answers.                                                    *)

\* Answering takes an entry out of the sequence map, and the session leaves idle
\* only by answering an initialize.
LEMMA SessionAnswers ==
  ASSUME TypeOK, RoutingInv, SessionInv, NEW k \in DOMAIN upstream, NEW ok, Answer(upstream[k], ok),
         Seqs!Resolve(upstream[k].seq), UNCHANGED <<initializedEvent, lastStoppedEvent>>
  PROVE  Caches' /\ IdleIsSilent' /\ ReadyWasAsked' /\ PendingUnanswered' /\ AnswersAsked'
<1>1. upstream[k].seq = k
  BY DEF RoutingInv, Numbered, UpstreamIsNumbered
<1>2. UNCHANGED <<upstream, emitted>>
  BY DEF Answer
<1>3. DOMAIN pending' = DOMAIN pending \ {k}
  BY <1>1, ForgetType DEF Seqs!Resolve
<1>4. DOMAIN answers' = DOMAIN answers \cup {k}
  BY <1>1 DEF Answer
<1>5. session' # "idle" /\ session = "idle" => upstream[k].command = "initialize"
  BY DEF Answer, SessionAfter
<1>6. session' = "idle" => session = "idle"
  BY DEF Answer, SessionAfter
<1>7. Caches'
  BY <1>2 DEF SessionInv, Caches
<1>8. IdleIsSilent'
  BY <1>6 DEF SessionInv, IdleIsSilent
<1>9. PendingUnanswered' /\ AnswersAsked'
  BY <1>2, <1>3, <1>4 DEF SessionInv, PendingUnanswered, AnswersAsked
<1>10. ReadyWasAsked'
  <2>1. CASE session = "idle"
    BY <1>1, <1>2, <1>4, <1>5, <2>1 DEF ReadyWasAsked, Answered
  <2>2. CASE session # "idle"
    BY <1>2, <1>4, <2>2 DEF SessionInv, ReadyWasAsked, Answered
  <2> QED
    BY <2>1, <2>2
<1> QED
  BY <1>7, <1>8, <1>9, <1>10

\* The response is put into queues that fit: the first success of initialize
\* comes while there is nothing to replay.
LEMMA RoutedFits ==
  ASSUME TypeOK, RoutingInv, ProtectionInv, SessionInv,
         NEW k \in DOMAIN upstream, NEW ok \in BOOLEAN,
         NEW queues \in [Clients -> Seq(Messages)],
         \A c \in Clients : IF Registered(c)
                            THEN QueueInv(queues[c], joinedAt[c], emitted, initializedEvent, lastStoppedEvent)
                            ELSE queues[c] = <<>>,
         RouteResponse(queues, upstream[k], ok),
         UNCHANGED <<emitted, initializedEvent, lastStoppedEvent, connection, joinedAt>>
  PROVE  QueuesFit'
<1> DEFINE r == upstream[k]
           entry == pending[r.seq]
           response == Response(entry.client, entry.clientSeq, r.command, ok,
                                ok /\ r.command = "initialize", <<r.client, r.clientSeq>>)
<1>1. r.seq = k /\ r.client \in Clients /\ r.command \in Commands /\ r.clientSeq \in Nat
  BY UpstreamEntry DEF RoutingInv, Numbered, UpstreamIsNumbered, Forwarded
<1>2. CASE r.seq \in DOMAIN pending /\ Registered(entry.client)
  <2>1. entry.client = r.client /\ entry.clientSeq = r.clientSeq
    BY <1>1, <1>2 DEF RoutingInv, EntriesMatch
  <2>2. outbox' = [queues EXCEPT ![r.client] = Append(queues[r.client], response)]
    BY <1>2, <2>1 DEF RouteResponse
  <2>3. response \in Messages /\ response.type = "response"
    <3>1. (ok /\ r.command = "initialize") \in BOOLEAN
      OBVIOUS
    <3> QED
      BY <1>1, <2>1, <3>1, ResponseType DEF Response
  <2>4. response.command = r.command /\ response.success = ok
    BY DEF Response
  <2>5. k \notin DOMAIN answers
    BY <1>1, <1>2 DEF SessionInv, PendingUnanswered
  <2>6. r.command = "initialize" => session = "idle"
    <3> SUFFICES ASSUME r.command = "initialize", session # "idle" PROVE FALSE
      OBVIOUS
    <3>1. PICK i \in DOMAIN upstream : upstream[i].command = "initialize" /\ upstream[i].seq \in DOMAIN answers
      BY DEF SessionInv, ReadyWasAsked, Answered
    <3>2. i = k
      BY <3>1 DEF ProtectionInv, SharedSessionProtected
    <3> QED
      BY <1>1, <2>5, <3>1, <3>2
  <2>7. Registered(r.client)
    BY <1>2, <2>1
  <2> HIDE DEF response, r, entry
  <2>8. QueueInv(Append(queues[r.client], response), joinedAt[r.client], emitted,
                 initializedEvent, lastStoppedEvent)
    <3>1. /\ QueueInv(queues[r.client], joinedAt[r.client], emitted, initializedEvent, lastStoppedEvent)
          /\ joinedAt[r.client] \in Nat
          /\ CachesFit(emitted, initializedEvent, lastStoppedEvent)
      BY <1>1, <2>7 DEF TypeOK, MuxTypeOK, SessionInv, Caches
    <3>2. CASE r.command = "initialize"
      <4>1. initializedEvent = NoEvent /\ lastStoppedEvent = NoEvent
        BY <2>6, <3>2 DEF SessionInv, IdleIsSilent
      <4> QED
        BY <2>3, <3>1, <4>1, AppendFirst
    <3>3. CASE r.command # "initialize"
      <4>1. ~Accepts(response)
        BY <2>4, <3>3 DEF Accepts
      <4> QED
        BY <2>3, <3>1, <4>1, AppendPlain
    <3> QED
      BY <3>2, <3>3
  <2> SUFFICES ASSUME NEW d \in Clients
               PROVE  IF Registered(d)
                      THEN QueueInv(outbox'[d], joinedAt[d], emitted, initializedEvent, lastStoppedEvent)
                      ELSE outbox'[d] = <<>>
    BY DEF QueuesFit, Registered
  <2>9. CASE d = r.client
    BY <1>1, <2>2, <2>7, <2>8, <2>9
  <2>10. CASE d # r.client
    BY <2>2, <2>10
  <2> QED
    BY <2>9, <2>10
<1>3. CASE ~(r.seq \in DOMAIN pending /\ Registered(entry.client))
  <2>1. outbox' = queues
    BY <1>3 DEF RouteResponse
  <2> QED
    BY <2>1 DEF QueuesFit, Registered
<1> QED
  BY <1>2, <1>3

LEMMA FlushedFits ==
  ASSUME TypeOK, SessionInv, NEW c \in Clients
  PROVE  LET queue == outbox[c] \o BufferedReplies(c)
         IN IF Registered(c)
            THEN QueueInv(queue, joinedAt[c], emitted, initializedEvent, lastStoppedEvent)
            ELSE queue = <<>>
<1> DEFINE mine == {i \in DOMAIN pendingInitialize : pendingInitialize[i].client = c}
           i == CHOOSE j \in mine : TRUE
<1>1. CASE mine = {} \/ ~Registered(c)
  <2>1. BufferedReplies(c) = <<>>
    BY <1>1 DEF BufferedReplies
  <2>2. outbox[c] \in Seq(Messages)
    BY DEF TypeOK, MuxTypeOK
  <2>3. outbox[c] \o <<>> = outbox[c]
    BY <2>2, ConcatEmptySeq
  <2> QED
    BY <2>1, <2>3 DEF SessionInv, QueuesFit
<1>2. CASE ~(mine = {} \/ ~Registered(c))
  <2>1. i \in DOMAIN pendingInitialize
    BY <1>2
  <2>2. BufferedReplies(c) = CachedInitialize(c, pendingInitialize[i].seq, TRUE)
    BY <1>2 DEF BufferedReplies
  <2> HIDE DEF i
  <2>3. pendingInitialize[i].seq \in Nat
    BY <2>1, BufferEntry
  <2> QED
    BY <1>2, <2>2, <2>3, CachedQueueFits
<1> QED
  BY <1>1, <1>2

LEMMA SessionAnswerStep ==
  ASSUME TypeOK, RoutingInv, ProtectionInv, SessionInv, NEW k \in DOMAIN upstream,
         AnswerStep(upstream[k])
  PROVE  SessionInv'
<1>1. CASE InitializeResponse(upstream[k])
  <2> DEFINE queues == [c \in Clients |-> outbox[c] \o BufferedReplies(c)]
  <2>1. /\ RouteResponse(queues, upstream[k], TRUE) /\ Answer(upstream[k], TRUE)
        /\ Seqs!Resolve(upstream[k].seq)
        /\ UNCHANGED <<emitted, initializedEvent, lastStoppedEvent, connection, joinedAt>>
    BY <1>1 DEF InitializeResponse, RouteResponse, Answer, clientVars
  <2>2. queues \in [Clients -> Seq(Messages)]
    BY FlushType
  <2>3. \A c \in Clients : IF Registered(c)
          THEN QueueInv(queues[c], joinedAt[c], emitted, initializedEvent, lastStoppedEvent)
          ELSE queues[c] = <<>>
    BY FlushedFits
  <2> HIDE DEF queues
  <2>4. QueuesFit'
    BY <2>1, <2>2, <2>3, RoutedFits
  <2> QED
    BY <2>1, <2>4, SessionAnswers DEF SessionInv
<1>2. ASSUME NEW ok \in BOOLEAN, OtherResponse(upstream[k], ok) PROVE SessionInv'
  <2>1. /\ RouteResponse(outbox, upstream[k], ok) /\ Answer(upstream[k], ok)
        /\ Seqs!Resolve(upstream[k].seq)
        /\ UNCHANGED <<emitted, initializedEvent, lastStoppedEvent, connection, joinedAt>>
    BY <1>2 DEF OtherResponse, RouteResponse, Answer, clientVars, sessionCache
  <2>2. outbox \in [Clients -> Seq(Messages)]
    BY DEF TypeOK, MuxTypeOK
  <2>3. QueuesFit'
    BY <2>1, <2>2, RoutedFits DEF SessionInv, QueuesFit
  <2> QED
    BY <2>1, <2>3, SessionAnswers DEF SessionInv
<1> QED
  BY <1>1, <1>2 DEF AnswerStep

-----------------------------------------------------------------------------
(* The adapter emits.                                                      *)

LEMMA SessionEmission ==
  ASSUME TypeOK, SessionInv, NEW e \in Emission, e.n = Len(emitted) + 1, Emit(e),
         UNCHANGED <<pending, connection, joinedAt>>,
         initializedEvent' = FirstAfter(e, initializedEvent),
         lastStoppedEvent' = StopLeft(e, lastStoppedEvent),
         IsInitializedEvent(e) \/ IsStopNews(e) => session # "idle",
         session' = "idle" <=> session = "idle",
         \A c \in Clients : outbox'[c] = outbox[c] \/ (Registered(c) /\ outbox'[c] = Append(outbox[c], e)),
         \A c \in Clients : Registered(c) /\ e.type = "event" =>
           outbox'[c] = IF ShouldFilterEvent(e.name) THEN outbox[c] ELSE Append(outbox[c], e)
  PROVE  SessionInv'
<1>1. emitted' = Append(emitted, e) /\ UNCHANGED <<upstream, answers>>
  BY DEF Emit
<1>2. Caches'
  BY <1>1, EmissionCached DEF SessionInv, Caches
<1>3. IdleIsSilent'
  BY DEF SessionInv, IdleIsSilent, FirstAfter, StopLeft
<1>4. ReadyWasAsked' /\ PendingUnanswered' /\ AnswersAsked'
  BY <1>1 DEF SessionInv, ReadyWasAsked, Answered, PendingUnanswered, AnswersAsked
<1>5. ASSUME NEW c \in Clients, Registered(c)
      PROVE  QueueInv(outbox'[c], joinedAt[c], emitted', initializedEvent', lastStoppedEvent')
  <2>1. /\ QueueInv(outbox[c], joinedAt[c], emitted, initializedEvent, lastStoppedEvent)
        /\ CachesFit(emitted, initializedEvent, lastStoppedEvent) /\ joinedAt[c] \in Nat
    BY <1>5 DEF SessionInv, QueuesFit, Caches, TypeOK, MuxTypeOK
  <2>2. ASSUME NEW queue, queue = outbox'[c]
        PROVE  QueueInv(queue, joinedAt[c], Append(emitted, e), FirstAfter(e, initializedEvent),
                        StopLeft(e, lastStoppedEvent))
    <3>1. /\ queue = outbox[c] \/ queue = Append(outbox[c], e)
          /\ e.type = "event" =>
               (queue = IF ShouldFilterEvent(e.name) THEN outbox[c] ELSE Append(outbox[c], e))
      BY <1>5, <2>2
    <3> QED
      BY <2>1, <3>1, EmissionQueued
  <2> QED
    BY <1>1, <2>2
<1>6. QueuesFit'
  <2> SUFFICES ASSUME NEW c \in Clients
               PROVE  IF Registered(c)
                      THEN QueueInv(outbox'[c], joinedAt[c], emitted', initializedEvent', lastStoppedEvent')
                      ELSE outbox'[c] = <<>>
    BY DEF QueuesFit, Registered
  <2> QED
    BY <1>5 DEF SessionInv, QueuesFit
<1> QED
  BY <1>2, <1>3, <1>4, <1>6 DEF SessionInv

LEMMA NextEmissionFields ==
  ASSUME NEW type, NEW name
  PROVE  LET e == NextEmission(type, name)
         IN e.type = type /\ e.name = name /\ e.n = Len(emitted) + 1
BY DEF NextEmission

LEMMA SessionEvent ==
  ASSUME TypeOK, SessionInv, NEW name \in Events, EventBroadcast(name) \/ EventFiltered(name)
  PROVE  SessionInv'
<1> DEFINE e == NextEmission("event", name)
<1>1. e \in Emission /\ e.type = "event" /\ e.name = name /\ e.n = Len(emitted) + 1
  BY EmissionType, NextEmissionFields
<1>2. Emit(e) /\ EventAllowed(name) /\ session' = SessionAfterEvent(name)
  BY DEF EventBroadcast, EventFiltered, EmitEvent
<1>3. UNCHANGED <<pending, connection, joinedAt>>
  BY DEF EventBroadcast, EventFiltered, seqMap, clientVars
<1>4. name \in {"initialized", "stopped", "continued", "terminated"} => session # "idle"
  BY <1>2 DEF EventAllowed
<1>5. session' = "idle" <=> session = "idle"
  BY <1>2, <1>4 DEF SessionAfterEvent
<1>6. IsInitializedEvent(e) <=> name = "initialized"
  BY <1>1 DEF IsInitializedEvent
<1>7. IsStopNews(e) <=> name \in {"stopped", "continued", "terminated"}
  BY <1>1 DEF IsStopNews
<1>8. outbox \in [Clients -> Seq(Messages)]
  BY DEF TypeOK, MuxTypeOK
<1>9. CASE EventBroadcast(name)
  <2>1. ~ShouldFilterEvent(name) /\ Broadcast(e)
    BY <1>9 DEF EventBroadcast
  <2>2. /\ initializedEvent' = IF name = "initialized" THEN e ELSE initializedEvent
        /\ lastStoppedEvent' = StopAfter(e)
    BY <1>9 DEF EventBroadcast
  <2> HIDE DEF e
  <2>3. initializedEvent' = FirstAfter(e, initializedEvent)
    BY <1>6, <2>2 DEF FirstAfter
  <2>4. lastStoppedEvent' = StopLeft(e, lastStoppedEvent)
    BY <1>1, <1>7, <2>2 DEF StopAfter, StopLeft
  <2>5. \A c \in Clients : outbox'[c] = IF Registered(c) THEN Append(outbox[c], e) ELSE outbox[c]
    BY <2>1 DEF Broadcast
  <2> QED
    BY <1>1, <1>2, <1>3, <1>4, <1>5, <1>6, <1>7, <2>1, <2>3, <2>4, <2>5, SessionEmission
<1>10. CASE EventFiltered(name)
  <2>1. ShouldFilterEvent(name) /\ UNCHANGED <<outbox, initializedEvent, lastStoppedEvent>>
    BY <1>10 DEF EventFiltered, sessionCache
  <2>2. ~IsInitializedEvent(e) /\ ~IsStopNews(e)
    BY <1>6, <1>7, <2>1 DEF ShouldFilterEvent
  <2> HIDE DEF e
  <2> QED
    BY <1>1, <1>2, <1>3, <1>5, <2>1, <2>2, SessionEmission DEF FirstAfter, StopLeft
<1> QED
  BY <1>9, <1>10

LEMMA SessionReverseRequest ==
  ASSUME TypeOK, SessionInv, NEW command \in ReverseRequests,
         ReverseRequestRouted(command) \/ ReverseRequestUnknown(command)
  PROVE  SessionInv'
<1> DEFINE e == NextEmission("request", command)
<1>1. e \in Emission /\ e.type = "request" /\ e.n = Len(emitted) + 1
  BY EmissionType, NextEmissionFields
<1>2. Emit(e) /\ UNCHANGED <<pending, connection, joinedAt, session, initializedEvent, lastStoppedEvent>>
  BY DEF ReverseRequestRouted, ReverseRequestUnknown, EmitReverseRequest, seqMap, clientVars, sessionCache
<1>3. ~IsInitializedEvent(e) /\ ~IsStopNews(e)
  BY <1>1 DEF IsInitializedEvent, IsStopNews
<1>4. \A c \in Clients : outbox'[c] = outbox[c] \/ (Registered(c) /\ outbox'[c] = Append(outbox[c], e))
  BY DEF ReverseRequestRouted, ReverseRequestUnknown
<1> HIDE DEF e
<1> QED
  BY <1>1, <1>2, <1>3, <1>4, SessionEmission DEF FirstAfter, StopLeft

LEMMA SessionUntouched ==
  ASSUME SessionInv, UNCHANGED <<emitted, session, answers, upstream, pending, initializedEvent,
                                 lastStoppedEvent, connection, joinedAt, outbox>>
  PROVE  SessionInv'
BY SameQueuesFit DEF SessionInv, Caches, IdleIsSilent, ReadyWasAsked, Answered, PendingUnanswered,
                     AnswersAsked

LEMMA SessionStep ==
  TypeOK /\ RoutingInv /\ ProtectionInv /\ SessionInv /\ [Next]_vars => SessionInv'
<1> SUFFICES ASSUME TypeOK, RoutingInv, ProtectionInv, SessionInv, [Next]_vars PROVE SessionInv'
  OBVIOUS
<1>1. CASE AdapterLost
  BY <1>1, SessionUntouched DEF AdapterLost, Lose, seqMap, sessionCache, clientVars
<1>2. CASE UNCHANGED vars
  BY <1>2, SessionUntouched DEF vars, adapterVars, seqMap, sessionCache, clientVars
<1> QED
  BY <1>1, <1>2, SessionClientStep, SessionAnswerStep, SessionEvent, SessionReverseRequest
     DEF Next, AdapterStep

LEMMA SessionInitially == Init => SessionInv
<1> SUFFICES ASSUME Init PROVE SessionInv
  OBVIOUS
<1>1. /\ session = "idle" /\ DOMAIN answers = {} /\ DOMAIN pending = {} /\ emitted = <<>>
      /\ initializedEvent = NoEvent /\ lastStoppedEvent = NoEvent
      /\ \A c \in Clients : ~Registered(c) /\ outbox[c] = <<>>
  BY DEF Init, AdapterInit, Seqs!SeqMapInit, Registered
<1>2. Caches
  <2>1. ASSUME NEW log, log = <<>> PROVE CachesFit(log, NoEvent, NoEvent)
    <3>1. log \in Seq(Emission) /\ DOMAIN log = {}
      BY <2>1
    <3> QED
      BY <3>1 DEF CachesFit, StopIn
  <2> QED
    BY <1>1, <2>1 DEF Caches
<1> QED
  BY <1>1, <1>2 DEF SessionInv, QueuesFit, IdleIsSilent, ReadyWasAsked, PendingUnanswered, AnswersAsked

LEMMA SessionInvariant == Spec => []SessionInv
<1>1. Init => RoutingInv /\ ProtectionInv /\ SessionInv
  BY RoutingInitially, SessionInitially
     DEF Init, AdapterInit, ProtectionInv, PhaseRemembers, SharedSessionProtected
<1>2. /\ TypeOK /\ RoutingInv /\ ProtectionInv /\ SessionInv /\ [Next]_vars
      => RoutingInv' /\ ProtectionInv' /\ SessionInv'
  BY RoutingStep, ProtectionStep, SessionStep
<1> QED
  BY <1>1, <1>2, TypeCorrect, PTL DEF Spec

\* A client whose initialize succeeded gets initialized behind the answer,
\* whether it came first, was buffered or came late (mux.py:257-259, 284-285).
THEOREM HandshakesComplete == Spec => []HandshakeCompleted
<1>1. TypeOK /\ SessionInv => HandshakeCompleted
  <2> SUFFICES ASSUME TypeOK, SessionInv, NEW c \in Clients, NEW i \in DOMAIN outbox[c],
                      Accepts(outbox[c][i]),
                      \E k \in DOMAIN emitted : IsInitializedEvent(emitted[k])
               PROVE  \E j \in i+1..Len(outbox[c]) : outbox[c][j] = initializedEvent
    BY DEF HandshakeCompleted, Accepts, IsInitializedEvent
  <2>1. initializedEvent # NoEvent
    BY DEF SessionInv, Caches, CachesFit
  <2>2. CASE Registered(c)
    BY <2>1, <2>2 DEF SessionInv, QueuesFit, QueueInv, Handshaken
  <2>3. CASE ~Registered(c)
    BY <2>3 DEF SessionInv, QueuesFit
  <2> QED
    BY <2>2, <2>3
<1> QED
  BY <1>1, SessionInvariant, TypeCorrect, PTL

\* All clients that have initialized see the stop the adapter reported last,
\* however their joining interleaved with the events (mux.py:261-263, 286-291).
THEOREM StopIsShared == Spec => []StopStateShared
<1>1. SessionInv => StopStateShared
  <2> SUFFICES ASSUME SessionInv, NEW c \in Clients, IsInitialized(c)
               PROVE  StopIn(outbox[c]) = StopIn(emitted)
    BY DEF StopStateShared
  <2>1. PICK i \in DOMAIN outbox[c] : Accepts(outbox[c][i])
    BY DEF IsInitialized, Accepts
  <2>2. Registered(c)
    BY <2>1 DEF SessionInv, QueuesFit
  <2> QED
    BY <2>1, <2>2 DEF SessionInv, QueuesFit, QueueInv, StopKnown, Caches, CachesFit
<1> QED
  BY <1>1, SessionInvariant, PTL

\* A client misses no event emitted while it is connected, sees them first in
\* the order they were emitted, and none that is filtered (mux.py:265-291).
THEOREM EventsReachEveryone == Spec => []NoEventMissed
<1>1. SessionInv => NoEventMissed
  <2> SUFFICES ASSUME SessionInv, NEW c \in Clients, Registered(c)
               PROVE  \A k \in DOMAIN emitted : emitted[k].type = "event" =>
                        IF ShouldFilterEvent(emitted[k].name) THEN FirstSeen(c, k) = 0
                        ELSE k > joinedAt[c] =>
                               /\ FirstSeen(c, k) > 0
                               /\ \A l \in joinedAt[c]+1..k-1 : FirstSeen(c, l) < FirstSeen(c, k)
    BY DEF NoEventMissed
  <2>1. \A k : FirstSeen(c, k) = First(outbox[c], emitted[k])
    BY DEF FirstSeen, First
  <2> QED
    BY <2>1 DEF SessionInv, QueuesFit, QueueInv, NoneMissed
<1> QED
  BY <1>1, SessionInvariant, PTL

-----------------------------------------------------------------------------
(* Orderly clients: capabilities and the buffer.                           *)

\* The message m may stand in a queue when the phase is p.
Capable(m, p) == Accepts(m) => m.caps /\ p >= INITIALIZED

CapsInv ==
  /\ \A c \in Clients : \A i \in DOMAIN outbox[c] : Capable(outbox[c][i], phase)
  /\ phase >= INITIALIZED => capabilities

LEMMA PhaseIsNumber == (TypeOK => phase \in 0..3) /\ (TypeOK' => phase' \in 0..3)
BY DEF TypeOK, MuxTypeOK, PRE_INIT, INITIALIZING, INITIALIZED, CONFIGURED

LEMMA EmissionCapable == \A m \in Emission : ~Accepts(m) /\ \A p : Capable(m, p)
BY DEF Emission, Accepts, Capable

LEMMA ResponseCapable ==
  ASSUME NEW c, NEW n, NEW command, NEW ok, NEW caps, NEW about, NEW p
  PROVE  Capable(Response(c, n, command, ok, caps, about), p)
           <=> (command = "initialize" /\ ok => caps /\ p >= INITIALIZED)
BY DEF Capable, Accepts, Response

\* What the cached answer consists of.
LEMMA CachedMessages ==
  ASSUME TypeOK, NEW c \in Clients, NEW n \in Nat, NEW caps \in BOOLEAN
  PROVE  \A i \in DOMAIN CachedInitialize(c, n, caps) :
           \/ CachedInitialize(c, n, caps)[i] = Response(c, n, "initialize", TRUE, caps, <<c, n>>)
           \/ CachedInitialize(c, n, caps)[i] \in Emission
<1> DEFINE response == Response(c, n, "initialize", TRUE, caps, <<c, n>>)
           first == Replay(initializedEvent)
           second == Replay(lastStoppedEvent)
           S == Emission \cup {response}
<1>1. CachedInitialize(c, n, caps) = (<<response>> \o first) \o second
  BY DEF CachedInitialize
<1> HIDE DEF response
<1>2. first \in Seq(S) /\ second \in Seq(S) /\ <<response>> \in Seq(S)
  <2>1. \A event \in S : <<event>> \in Seq(S)
    OBVIOUS
  <2>2. <<>> \in Seq(S)
    OBVIOUS
  <2> QED
    BY <2>1, <2>2 DEF TypeOK, MuxTypeOK, Replay
<1> HIDE DEF first, second, S
<1>3. CachedInitialize(c, n, caps) \in Seq(S)
  BY <1>1, <1>2, ConcatProperties
<1>4. \A i \in DOMAIN CachedInitialize(c, n, caps) : CachedInitialize(c, n, caps)[i] \in S
  BY <1>3, ElementOfSeq
<1> QED
  BY <1>4 DEF response, S

\* Queues whose messages are old or capable.
LEMMA CapsQueues ==
  ASSUME TypeOK, TypeOK', CapsInv, phase' >= phase,
         phase' >= INITIALIZED => capabilities',
         \A c \in Clients : \A i \in DOMAIN outbox'[c] :
           \/ i \in DOMAIN outbox[c] /\ outbox'[c][i] = outbox[c][i]
           \/ Capable(outbox'[c][i], phase')
  PROVE  CapsInv'
<1>1. phase \in 0..3 /\ phase' \in 0..3
  BY PhaseIsNumber
<1>2. \A m : Capable(m, phase) => Capable(m, phase')
  BY <1>1 DEF Capable, INITIALIZED
<1> QED
  BY <1>2 DEF CapsInv

LEMMA CapsEnqueued ==
  ASSUME TypeOK, TypeOK', CapsInv, UNCHANGED <<phase, capabilities>>,
         NEW c \in Clients, NEW more \in Seq(Messages), Enqueue(c, more),
         \A i \in DOMAIN more : Capable(more[i], phase)
  PROVE  CapsInv'
<1>1. /\ outbox'[c] = outbox[c] \o more /\ outbox[c] \in Seq(Messages)
      /\ \A d \in Clients : d # c => outbox'[d] = outbox[d]
  BY DEF Enqueue, TypeOK, MuxTypeOK
<1>2. \A i \in DOMAIN outbox'[c] :
        \/ i \in DOMAIN outbox[c] /\ outbox'[c][i] = outbox[c][i]
        \/ Capable(outbox'[c][i], phase')
  BY <1>1, ConcatProperties
<1>3. phase \in 0..3
  BY PhaseIsNumber
<1> QED
  BY <1>1, <1>2, <1>3, CapsQueues DEF CapsInv

\* The answer that is routed and the queues it is put into.
RoutedOnto(longer, q, r, ok) ==
  \A i \in DOMAIN longer :
    \/ i \in DOMAIN q /\ longer[i] = q[i]
    \/ \E d, n, about :
         longer[i] = Response(d, n, r.command, ok, ok /\ r.command = "initialize", about)

LEMMA RoutedMessages ==
  ASSUME TypeOK, NEW r, NEW ok, NEW queues \in [Clients -> Seq(Messages)],
         RouteResponse(queues, r, ok), outbox' \in [Clients -> Seq(Messages)]
  PROVE  \A c \in Clients : RoutedOnto(outbox'[c], queues[c], r, ok)
<1> DEFINE entry == pending[r.seq]
           response == Response(entry.client, entry.clientSeq, r.command, ok,
                                ok /\ r.command = "initialize", <<r.client, r.clientSeq>>)
<1> SUFFICES ASSUME NEW c \in Clients
             PROVE  \A i \in DOMAIN outbox'[c] :
                      \/ i \in DOMAIN queues[c] /\ outbox'[c][i] = queues[c][i]
                      \/ outbox'[c][i] = response
  BY DEF RoutedOnto
<1>1. outbox'[c] = queues[c] \/ outbox'[c] = Append(queues[c], response)
  BY DEF RouteResponse
<1> HIDE DEF response
<1>2. queues[c] \in Seq(Messages \cup {response})
  BY SeqMonotonic
<1> QED
  BY <1>1, <1>2, AppendProperties

LEMMA FlushMessages ==
  ASSUME TypeOK, NEW c \in Clients
  PROVE  \A i \in DOMAIN (outbox[c] \o BufferedReplies(c)) :
           LET m == (outbox[c] \o BufferedReplies(c))[i]
           IN \/ i \in DOMAIN outbox[c] /\ m = outbox[c][i]
              \/ m \in Emission
              \/ \E n : m = Response(c, n, "initialize", TRUE, TRUE, <<c, n>>)
<1> DEFINE mine == {i \in DOMAIN pendingInitialize : pendingInitialize[i].client = c}
           k == CHOOSE i \in mine : TRUE
<1>1. outbox[c] \in Seq(Messages)
  BY DEF TypeOK, MuxTypeOK
<1>2. CASE mine = {} \/ ~Registered(c)
  <2>1. BufferedReplies(c) = <<>>
    BY <1>2 DEF BufferedReplies
  <2>2. outbox[c] \o <<>> = outbox[c]
    BY <1>1, ConcatEmptySeq
  <2> QED
    BY <2>1, <2>2
<1>3. CASE ~(mine = {} \/ ~Registered(c))
  <2> DEFINE n == pendingInitialize[k].seq
  <2>1. k \in DOMAIN pendingInitialize
    BY <1>3
  <2>2. BufferedReplies(c) = CachedInitialize(c, n, TRUE)
    BY <1>3 DEF BufferedReplies
  <2> HIDE DEF k
  <2>3. n \in Nat
    BY <2>1, BufferEntry
  <2> HIDE DEF n
  <2>4. BufferedReplies(c) \in Seq(Messages)
    BY <2>2, <2>3, CachedInitializeType
  <2>5. \A i \in DOMAIN BufferedReplies(c) :
          \/ BufferedReplies(c)[i] = Response(c, n, "initialize", TRUE, TRUE, <<c, n>>)
          \/ BufferedReplies(c)[i] \in Emission
    BY <2>2, <2>3, CachedMessages
  <2>6. \A i \in DOMAIN (outbox[c] \o BufferedReplies(c)) :
          \/ i \in DOMAIN outbox[c] /\ (outbox[c] \o BufferedReplies(c))[i] = outbox[c][i]
          \/ \E j \in DOMAIN BufferedReplies(c) :
               (outbox[c] \o BufferedReplies(c))[i] = BufferedReplies(c)[j]
    BY <1>1, <2>4, ConcatProperties
  <2> QED
    BY <2>5, <2>6
<1> QED
  BY <1>2, <1>3

LEMMA CapsAnswerStep ==
  ASSUME TypeOK, TypeOK', ProtectionInv, CapsInv, NEW k \in DOMAIN upstream, AnswerStep(upstream[k])
  PROVE  CapsInv'
<1> USE DEF PRE_INIT, INITIALIZING, INITIALIZED, CONFIGURED
<1> DEFINE r == upstream[k]
<1>1. outbox' \in [Clients -> Seq(Messages)] /\ phase \in 0..3 /\ phase' \in 0..3
  BY PhaseIsNumber DEF TypeOK, MuxTypeOK
<1>2. CASE InitializeResponse(r)
  <2> DEFINE queues == [c \in Clients |-> outbox[c] \o BufferedReplies(c)]
  <2>1. RouteResponse(queues, r, TRUE) /\ phase = 1 /\ phase' = 2 /\ capabilities' = TRUE
    BY <1>2 DEF InitializeResponse, CompletesInitialize
  <2>2. queues \in [Clients -> Seq(Messages)]
    BY FlushType
  <2>3. ASSUME NEW c \in Clients, NEW i \in DOMAIN queues[c]
        PROVE  \/ i \in DOMAIN outbox[c] /\ queues[c][i] = outbox[c][i]
               \/ Capable(queues[c][i], phase')
    <3>1. \/ i \in DOMAIN outbox[c] /\ queues[c][i] = outbox[c][i]
          \/ queues[c][i] \in Emission
          \/ \E n : queues[c][i] = Response(c, n, "initialize", TRUE, TRUE, <<c, n>>)
      BY <2>3, FlushMessages
    <3> HIDE DEF queues
    <3>2. phase' >= INITIALIZED
      BY <2>1
    <3>3. \A n : Capable(Response(c, n, "initialize", TRUE, TRUE, <<c, n>>), phase')
      BY <3>2, ResponseCapable
    <3> QED
      BY <3>1, <3>3, EmissionCapable
  <2> HIDE DEF queues
  <2>4. PICK ok \in BOOLEAN : ok = TRUE
    OBVIOUS
  <2>5. \A c \in Clients : RoutedOnto(outbox'[c], queues[c], r, ok)
    <3>1. RouteResponse(queues, r, ok)
      BY <2>1, <2>4
    <3> QED
      BY <1>1, <2>2, <3>1, RoutedMessages
  <2>6. phase' >= INITIALIZED
    BY <2>1
  <2>7. \A d, n, about :
          Capable(Response(d, n, r.command, ok, ok /\ r.command = "initialize", about), phase')
    BY <2>4, <2>6, ResponseCapable
  <2>8. ASSUME NEW c \in Clients, NEW i \in DOMAIN outbox'[c]
        PROVE  \/ i \in DOMAIN outbox[c] /\ outbox'[c][i] = outbox[c][i]
               \/ Capable(outbox'[c][i], phase')
    <3>1. CASE i \in DOMAIN queues[c] /\ outbox'[c][i] = queues[c][i]
      BY <2>3, <3>1
    <3> QED
      BY <2>5, <2>7, <3>1 DEF RoutedOnto
  <2> QED
    BY <2>1, <2>8, CapsQueues
<1>3. ASSUME NEW ok \in BOOLEAN, OtherResponse(r, ok) PROVE CapsInv'
  <2>1. RouteResponse(outbox, r, ok) /\ UNCHANGED <<phase, capabilities>>
    BY <1>3 DEF OtherResponse, handshake, sessionCache
  <2>2. outbox \in [Clients -> Seq(Messages)]
    BY DEF TypeOK, MuxTypeOK
  <2>3. r.command = "initialize" /\ ok => phase' >= INITIALIZED
    BY <1>1, <1>3, <2>1 DEF OtherResponse, CompletesInitialize, ProtectionInv, PhaseRemembers
  <2>4. ASSUME NEW c \in Clients, NEW i \in DOMAIN outbox'[c]
        PROVE  \/ i \in DOMAIN outbox[c] /\ outbox'[c][i] = outbox[c][i]
               \/ Capable(outbox'[c][i], phase')
    <3>1. RoutedOnto(outbox'[c], outbox[c], r, ok)
      BY <1>1, <2>1, <2>2, RoutedMessages
    <3>2. \A d, n, about :
            Capable(Response(d, n, r.command, ok, ok /\ r.command = "initialize", about), phase')
      BY <2>3, ResponseCapable
    <3> QED
      BY <3>1, <3>2 DEF RoutedOnto
  <2> QED
    BY <1>1, <2>1, <2>4, CapsQueues DEF CapsInv
<1> QED
  BY <1>2, <1>3 DEF AnswerStep

LEMMA CapsEmission ==
  ASSUME TypeOK, TypeOK', CapsInv, UNCHANGED <<phase, capabilities>>, NEW e \in Emission,
         \A c \in Clients : outbox'[c] = outbox[c] \/ outbox'[c] = Append(outbox[c], e)
  PROVE  CapsInv'
<1>1. e \in Messages
  BY DEF Messages
<1>2. ASSUME NEW c \in Clients, NEW i \in DOMAIN outbox'[c]
      PROVE  \/ i \in DOMAIN outbox[c] /\ outbox'[c][i] = outbox[c][i]
             \/ Capable(outbox'[c][i], phase')
  <2>1. outbox[c] \in Seq(Messages)
    BY DEF TypeOK, MuxTypeOK
  <2>2. (i \in DOMAIN outbox[c] /\ outbox'[c][i] = outbox[c][i]) \/ outbox'[c][i] = e
    BY <1>1, <1>2, <2>1, AppendProperties
  <2> QED
    BY <2>2, EmissionCapable
<1>3. phase \in 0..3
  BY PhaseIsNumber
<1> QED
  BY <1>2, <1>3, CapsQueues DEF CapsInv

LEMMA CapsSameQueues ==
  ASSUME CapsInv, UNCHANGED outbox, TypeOK, TypeOK', phase' >= phase,
         phase' >= INITIALIZED => capabilities'
  PROVE  CapsInv'
BY CapsQueues

\* An orderly client goes on only in a session that is initialized.
LEMMA OrderlyWaits ==
  ASSUME Orderly, CapsInv, NEW c \in Clients, NEW command, command # "initialize", Send(c, command)
  PROVE  phase >= INITIALIZED
<1>1. PICK i \in DOMAIN outbox[c] : Accepts(outbox[c][i])
  BY DEF Send, MaySend, IsInitialized, Accepts
<1> QED
  BY <1>1 DEF CapsInv, Capable

LEMMA CapsClientStep ==
  ASSUME Orderly, TypeOK, TypeOK', CapsInv, NEW c \in Clients, ClientStep(c)
  PROVE  CapsInv'
<1>1. phase \in 0..3 /\ INITIALIZED = 2 /\ INITIALIZING = 1 /\ PRE_INIT = 0 /\ CONFIGURED = 3
  BY PhaseIsNumber DEF PRE_INIT, INITIALIZING, INITIALIZED, CONFIGURED
<1>2. CASE Accept(c) \/ InitializeBuffered(c) \/ ReverseResponseIgnored(c)
  <2>1. UNCHANGED <<outbox, phase, capabilities>>
    BY <1>2 DEF Accept, InitializeBuffered, ReverseResponseIgnored, handshake, sessionCache
  <2> QED
    BY <1>1, <2>1, CapsSameQueues DEF CapsInv
<1>3. CASE Disconnect(c)
  <2>1. /\ UNCHANGED <<phase, capabilities>> /\ outbox'[c] = <<>>
        /\ \A d \in Clients : d # c => outbox'[d] = outbox[d]
    BY <1>3 DEF Disconnect, sessionCache, TypeOK, MuxTypeOK
  <2> QED
    BY <1>1, <2>1, CapsQueues DEF CapsInv
<1>4. CASE InitializeFromCache(c)
  <2> DEFINE more == CachedInitialize(c, Number(c), capabilities)
  <2>1. /\ Send(c, "initialize") /\ Enqueue(c, more) /\ phase >= INITIALIZED
        /\ UNCHANGED <<phase, capabilities>>
    BY <1>4 DEF InitializeFromCache, sessionCache
  <2>2. Number(c) \in Nat /\ capabilities \in BOOLEAN /\ capabilities
    BY <2>1, SendType DEF TypeOK, MuxTypeOK, CapsInv
  <2>3. more \in Seq(Messages)
    BY <2>2, CachedInitializeType
  <2>4. \A i \in DOMAIN more : Capable(more[i], phase)
    <3>1. \A n : Capable(Response(c, n, "initialize", TRUE, capabilities, <<c, n>>), phase)
      BY <2>1, <2>2, ResponseCapable
    <3>2. \A i \in DOMAIN more :
            \/ more[i] = Response(c, Number(c), "initialize", TRUE, capabilities, <<c, Number(c)>>)
            \/ more[i] \in Emission
      BY <2>2, CachedMessages
    <3> HIDE DEF more
    <3> QED
      BY <3>1, <3>2, EmissionCapable
  <2> HIDE DEF more
  <2> QED
    BY <2>1, <2>3, <2>4, CapsEnqueued
<1>5. CASE InitializeForwarded(c)
  <2>1. UNCHANGED <<outbox, capabilities>> /\ phase = 0 /\ phase' = 1
    BY <1>1, <1>5 DEF InitializeForwarded, sessionCache
  <2> QED
    BY <1>1, <2>1, CapsSameQueues
<1>6. CASE ConfigurationDoneForwarded(c)
  <2>1. UNCHANGED <<outbox, capabilities>> /\ phase' = 3 /\ Send(c, "configurationDone")
    BY <1>1, <1>6 DEF ConfigurationDoneForwarded, sessionCache
  <2>2. phase >= INITIALIZED
    BY <2>1, OrderlyWaits
  <2> QED
    BY <1>1, <2>1, <2>2, CapsSameQueues DEF CapsInv
<1>7. ASSUME NEW command \in Requests, RequestForwarded(c, command) PROVE CapsInv'
  <2>1. UNCHANGED <<outbox, phase, capabilities>>
    BY <1>7 DEF RequestForwarded, handshake, sessionCache
  <2> QED
    BY <1>1, <2>1, CapsSameQueues DEF CapsInv
<1>8. ASSUME NEW command \in Requests, RequestIntercepted(c, command) PROVE CapsInv'
  <2> DEFINE response == Response(c, Number(c), command, TRUE, FALSE, <<c, Number(c)>>)
  <2>1. /\ Send(c, command) /\ Enqueue(c, <<response>>) /\ UNCHANGED <<phase, capabilities>>
        /\ command # "initialize"
    BY <1>8 DEF RequestIntercepted, RespondSynthetic, handshake, sessionCache, Intercepted
  <2>2. response \in Messages
    <3>1. command \in Commands /\ Number(c) \in Nat
      BY <2>1, SendType
    <3> QED
      BY <3>1, ResponseType
  <2>3. Capable(response, phase)
    <3>1. response.command = command
      BY DEF Response
    <3> QED
      BY <2>1, <3>1 DEF Capable, Accepts
  <2> HIDE DEF response
  <2>4. <<response>> \in Seq(Messages) /\ \A i \in DOMAIN <<response>> : Capable(<<response>>[i], phase)
    BY <2>2, <2>3
  <2> QED
    BY <2>1, <2>4, CapsEnqueued
<1> QED
  BY <1>2, <1>3, <1>4, <1>5, <1>6, <1>7, <1>8 DEF ClientStep

LEMMA CapsStep ==
  ASSUME Orderly, TypeOK, TypeOK', ProtectionInv, CapsInv, [Next]_vars
  PROVE  CapsInv'
<1>1. phase \in 0..3
  BY PhaseIsNumber
<1>2. ASSUME NEW name \in Events, EventBroadcast(name) PROVE CapsInv'
  <2>1. NextEmission("event", name) \in Emission
    BY EmissionType
  <2> QED
    BY <1>2, <2>1, CapsEmission DEF EventBroadcast, Broadcast, handshake
<1>3. ASSUME NEW command \in ReverseRequests, ReverseRequestRouted(command) PROVE CapsInv'
  <2>1. NextEmission("request", command) \in Emission
    BY EmissionType
  <2> QED
    BY <1>3, <2>1, CapsEmission DEF ReverseRequestRouted, handshake, sessionCache
<1>4. ASSUME \/ \E name \in Events : EventFiltered(name)
             \/ \E command \in ReverseRequests : ReverseRequestUnknown(command)
             \/ AdapterLost
             \/ UNCHANGED vars
      PROVE  CapsInv'
  <2>1. UNCHANGED <<outbox, phase, capabilities>>
    BY <1>4 DEF EventFiltered, ReverseRequestUnknown, AdapterLost, vars, handshake, sessionCache
  <2> QED
    BY <1>1, <2>1, CapsSameQueues DEF CapsInv
<1> QED
  BY <1>2, <1>3, <1>4, CapsClientStep, CapsAnswerStep DEF Next, AdapterStep

LEMMA CapsInvariant == ASSUME Orderly PROVE Spec => []CapsInv
<1>1. Init => CapsInv /\ ProtectionInv
  BY DEF Init, AdapterInit, CapsInv, PRE_INIT, INITIALIZED, ProtectionInv, PhaseRemembers,
         SharedSessionProtected
<1>2. TypeOK /\ TypeOK' /\ ProtectionInv /\ CapsInv /\ [Next]_vars => CapsInv' /\ ProtectionInv'
  BY CapsStep, ProtectionStep
<1> QED
  BY <1>1, <1>2, TypeCorrect, PTL DEF Spec

\* Orderly clients get the adapter's capabilities with the success of their
\* initialize, also from the cache (mux.py:40, 213-220, 251-252).
THEOREM CapabilitiesReachOrderlyClients == ASSUME Orderly PROVE Spec => []CapabilitiesDelivered
<1>1. CapsInv => CapabilitiesDelivered
  BY DEF CapsInv, CapabilitiesDelivered, Capable, Accepts
<1> QED
  BY <1>1, CapsInvariant, PTL

\* The buffer is flushed by the answer to the one initialize that is upstream:
\* if that must succeed, a buffered initialize always has one to wait for.
BufferInv ==
  /\ phase = INITIALIZING =>
       \E j \in DOMAIN upstream : upstream[j].command = "initialize" /\ upstream[j].seq \notin DOMAIN answers
  /\ pendingInitialize # <<>> => phase = INITIALIZING

LEMMA BufferKept ==
  ASSUME BufferInv, UNCHANGED <<phase, pendingInitialize, answers>>,
         \A i \in DOMAIN upstream : i \in DOMAIN upstream' /\ upstream'[i] = upstream[i]
  PROVE  BufferInv'
BY DEF BufferInv

LEMMA BufferClientStep ==
  ASSUME Orderly, TypeOK, RoutingInv, SessionInv, CapsInv, BufferInv, NEW c \in Clients, ClientStep(c)
  PROVE  BufferInv'
<1>1. INITIALIZED = 2 /\ INITIALIZING = 1 /\ PRE_INIT = 0 /\ CONFIGURED = 3
  BY DEF PRE_INIT, INITIALIZING, INITIALIZED, CONFIGURED
<1>2. CASE Accept(c) \/ Disconnect(c) \/ ReverseResponseIgnored(c)
  <2>1. UNCHANGED <<upstream, answers, phase, pendingInitialize>>
    BY <1>2 DEF Accept, Disconnect, ReverseResponseIgnored, handshake, adapterVars
  <2> QED
    BY <2>1, BufferKept
<1>3. CASE InitializeFromCache(c)
  BY <1>3, BufferKept DEF InitializeFromCache, adapterVars
<1>4. CASE InitializeBuffered(c)
  <2>1. UNCHANGED <<upstream, answers, phase>> /\ phase = INITIALIZING
    BY <1>4 DEF InitializeBuffered, adapterVars
  <2> QED
    BY <2>1 DEF BufferInv
<1>5. CASE InitializeForwarded(c)
  <2>1. /\ Forward(c, "initialize") /\ phase = PRE_INIT /\ phase' = INITIALIZING
        /\ UNCHANGED pendingInitialize
    BY <1>5 DEF InitializeForwarded
  <2>2. UNCHANGED answers
    BY <2>1 DEF Forward
  <2> DEFINE last == Len(upstream) + 1
  <2>3. last \in DOMAIN upstream' /\ upstream'[last].command = "initialize" /\ upstream'[last].seq = last
    BY <2>1, ForwardOnUpstream DEF RoutingInv, Numbered
  <2>4. last \notin DOMAIN answers
    BY <2>1, ForwardOnUpstream DEF SessionInv, AnswersAsked
  <2>5. pendingInitialize = <<>>
    BY <1>1, <2>1 DEF BufferInv
  <2> HIDE DEF last
  <2> QED
    BY <2>1, <2>2, <2>3, <2>4, <2>5 DEF BufferInv
<1>6. CASE ConfigurationDoneForwarded(c)
  <2>1. /\ Send(c, "configurationDone") /\ phase' = CONFIGURED /\ UNCHANGED pendingInitialize
    BY <1>6 DEF ConfigurationDoneForwarded
  <2>2. phase >= INITIALIZED
    BY <2>1, OrderlyWaits
  <2>3. phase # INITIALIZING
    BY <1>1, <2>2
  <2> QED
    BY <1>1, <2>1, <2>3 DEF BufferInv
<1>7. ASSUME NEW command \in Requests, RequestForwarded(c, command) PROVE BufferInv'
  <2>1. Forward(c, command) /\ UNCHANGED <<phase, pendingInitialize>>
    BY <1>7 DEF RequestForwarded, handshake
  <2>2. UNCHANGED answers
    BY <2>1 DEF Forward
  <2> QED
    BY <2>1, <2>2, ForwardOnUpstream, BufferKept
<1>8. ASSUME NEW command \in Requests, RequestIntercepted(c, command) PROVE BufferInv'
  BY <1>8, BufferKept DEF RequestIntercepted, RespondSynthetic, handshake, adapterVars
<1> QED
  BY <1>2, <1>3, <1>4, <1>5, <1>6, <1>7, <1>8 DEF ClientStep

LEMMA BufferAnswerStep ==
  ASSUME "initialize" \notin MayFail, RoutingInv, BufferInv, NEW k \in DOMAIN upstream,
         AnswerStep(upstream[k])
  PROVE  BufferInv'
<1>1. CASE InitializeResponse(upstream[k])
  BY <1>1 DEF InitializeResponse, BufferInv, INITIALIZING, INITIALIZED
<1>2. ASSUME NEW ok \in BOOLEAN, OtherResponse(upstream[k], ok) PROVE BufferInv'
  <2>1. /\ Answer(upstream[k], ok) /\ UNCHANGED <<phase, pendingInitialize, upstream>>
        /\ ~CompletesInitialize(upstream[k], ok)
    BY <1>2 DEF OtherResponse, handshake, Answer
  <2>2. SUFFICES ASSUME phase = INITIALIZING
                 PROVE  \E j \in DOMAIN upstream : /\ upstream[j].command = "initialize"
                                                   /\ upstream[j].seq \notin DOMAIN answers'
    BY <2>1 DEF BufferInv
  <2>3. PICK j \in DOMAIN upstream :
          upstream[j].command = "initialize" /\ upstream[j].seq \notin DOMAIN answers
    BY <2>2 DEF BufferInv
  <2>4. CASE upstream[k].seq \in DOMAIN answers
    BY <2>1, <2>3, <2>4 DEF Answer
  <2>5. CASE upstream[k].seq \notin DOMAIN answers
    <3>1. ok \in Outcomes(upstream[k].command) /\ DOMAIN answers' = DOMAIN answers \cup {upstream[k].seq}
      BY <2>1, <2>5 DEF Answer
    <3>2. upstream[k].command # "initialize"
      BY <2>1, <2>2, <3>1 DEF Outcomes, CompletesInitialize
    <3>3. upstream[j].seq # upstream[k].seq
      BY <2>3, <3>2 DEF RoutingInv, Numbered, UpstreamIsNumbered
    <3> QED
      BY <2>3, <3>1, <3>3
  <2> QED
    BY <2>4, <2>5
<1> QED
  BY <1>1, <1>2 DEF AnswerStep

LEMMA BufferStep ==
  ASSUME Orderly, "initialize" \notin MayFail, TypeOK, RoutingInv, SessionInv, CapsInv, BufferInv,
         [Next]_vars
  PROVE  BufferInv'
<1>1. ASSUME \/ \E name \in Events : EventBroadcast(name) \/ EventFiltered(name)
             \/ \E command \in ReverseRequests :
                  ReverseRequestRouted(command) \/ ReverseRequestUnknown(command)
             \/ AdapterLost
             \/ UNCHANGED vars
      PROVE  BufferInv'
  <2>1. UNCHANGED <<upstream, answers, phase, pendingInitialize>>
    BY <1>1 DEF EventBroadcast, EventFiltered, EmitEvent, ReverseRequestRouted, ReverseRequestUnknown,
                EmitReverseRequest, Emit, AdapterLost, Lose, vars, handshake, adapterVars
  <2> QED
    BY <2>1, BufferKept
<1> QED
  BY <1>1, BufferClientStep, BufferAnswerStep DEF Next, AdapterStep

\* Among orderly clients, and with an adapter that accepts initialize, nobody's
\* initialize is left in the buffer: while one is there, an initialize is with
\* the adapter, unanswered, even if the client that sent it has left
\* (mux.py:150-157, 214-220).
THEOREM BufferIsNotLeftBehind ==
  ASSUME Orderly, "initialize" \notin MayFail PROVE Spec => []BufferAwaitsAnswer
<1>1. BufferInv => BufferAwaitsAnswer
  <2> SUFFICES ASSUME BufferInv, NEW i \in DOMAIN pendingInitialize
               PROVE  /\ phase = INITIALIZING
                      /\ \E j \in DOMAIN upstream : /\ upstream[j].command = "initialize"
                                                    /\ upstream[j].seq \notin DOMAIN answers
    BY DEF BufferAwaitsAnswer
  <2>1. pendingInitialize # <<>>
    OBVIOUS
  <2> QED
    BY <2>1 DEF BufferInv
<1>2. Init => RoutingInv /\ BufferInv
  BY RoutingInitially DEF Init, BufferInv, PRE_INIT, INITIALIZING
<1>3. TypeOK /\ RoutingInv /\ SessionInv /\ CapsInv /\ BufferInv /\ [Next]_vars
      => RoutingInv' /\ BufferInv'
  BY RoutingStep, BufferStep
<1> QED
  BY <1>1, <1>2, <1>3, SessionInvariant, CapsInvariant, TypeCorrect, PTL DEF Spec

\* A stop is cached only while the debuggee is stopped.
CachedOnlyWhenStopped == lastStoppedEvent # NoEvent => session = "stopped"

\* What is replayed to a late joiner is the stop the debuggee is at, or nothing,
\* if the adapter announces that it has resumed (README.md:37, 306; mux.py:286-291).
THEOREM CachedStopIsTrue == ASSUME AnnouncesContinued PROVE Spec => []CachedStopIsCurrent
<1>1. Init => CachedOnlyWhenStopped
  BY DEF Init, CachedOnlyWhenStopped
<1>2. ASSUME CachedOnlyWhenStopped, [Next]_vars PROVE CachedOnlyWhenStopped'
  <2>1. ASSUME NEW c \in Clients, ClientStep(c) PROVE UNCHANGED <<session, lastStoppedEvent>>
    BY <2>1 DEF ClientStep, Accept, Disconnect, InitializeFromCache, InitializeBuffered,
                InitializeForwarded, ConfigurationDoneForwarded, RequestIntercepted, RequestForwarded,
                ReverseResponseIgnored, Forward, RespondSynthetic, sessionCache, adapterVars
  <2>2. ASSUME NEW r, AnswerStep(r) PROVE CachedOnlyWhenStopped'
    <3>1. UNCHANGED lastStoppedEvent /\ \E ok : Answer(r, ok)
      BY <2>2 DEF AnswerStep, InitializeResponse, OtherResponse, sessionCache
    <3>2. session = "stopped" => session' = "stopped"
      BY <3>1 DEF Answer, SessionAfter
    <3> QED
      BY <1>2, <3>1, <3>2 DEF CachedOnlyWhenStopped
  <2>3. ASSUME NEW name \in Events, EventBroadcast(name) PROVE CachedOnlyWhenStopped'
    <3> DEFINE e == NextEmission("event", name)
    <3>1. e.name = name /\ lastStoppedEvent' = StopAfter(e) /\ session' = SessionAfterEvent(name)
      BY <2>3, NextEmissionFields DEF EventBroadcast, EmitEvent
    <3> HIDE DEF e
    <3> QED
      BY <1>2, <3>1 DEF CachedOnlyWhenStopped, StopAfter, SessionAfterEvent
  <2>4. ASSUME NEW name \in Events, EventFiltered(name) PROVE CachedOnlyWhenStopped'
    BY <1>2, <2>4 DEF EventFiltered, EmitEvent, SessionAfterEvent, ShouldFilterEvent, sessionCache,
                      CachedOnlyWhenStopped
  <2>5. ASSUME \/ \E command \in ReverseRequests :
                    ReverseRequestRouted(command) \/ ReverseRequestUnknown(command)
               \/ AdapterLost
               \/ UNCHANGED vars
        PROVE  UNCHANGED <<session, lastStoppedEvent>>
    BY <2>5 DEF ReverseRequestRouted, ReverseRequestUnknown, EmitReverseRequest, AdapterLost, Lose,
                vars, sessionCache, adapterVars
  <2>6. UNCHANGED <<session, lastStoppedEvent>> => CachedOnlyWhenStopped'
    BY <1>2 DEF CachedOnlyWhenStopped
  <2> QED
    BY <1>2, <2>1, <2>2, <2>3, <2>4, <2>5, <2>6 DEF Next, AdapterStep
<1>3. SessionInv /\ CachedOnlyWhenStopped => CachedStopIsCurrent
  BY DEF SessionInv, Caches, CachesFit, CachedOnlyWhenStopped, CachedStopIsCurrent
<1> QED
  BY <1>1, <1>2, <1>3, SessionInvariant, PTL DEF Spec

-----------------------------------------------------------------------------
(* Reverse requests.                                                       *)

\* The keys of the initialize arguments are the clients that are there and have
\* sent initialize (mux.py:141-142, 309).
KeysAreAsked ==
  \A c \in Clients : c \in Range(initOrder) <=> Registered(c) /\ AskedInitialize(c)

LEMMA WithoutKeyKeepsOthers ==
  ASSUME NEW keys \in Seq(Clients), NEW c \in Clients, NEW d \in Range(keys), d # c
  PROVE  d \in Range(WithoutKey(keys, c))
<1>1. CASE c \notin Range(keys)
  BY <1>1 DEF WithoutKey
<1>2. CASE c \in Range(keys)
  <2> DEFINE i == CHOOSE k \in DOMAIN keys : keys[k] = c
             rest == RemoveAt(keys, i)
  <2>1. i \in 1..Len(keys) /\ keys[i] = c
    BY <1>2 DEF Range
  <2>2. WithoutKey(keys, c) = rest
    BY <1>2 DEF WithoutKey
  <2> HIDE DEF i
  <2>3. /\ rest \in Seq(Clients)
        /\ Len(rest) = Len(keys) - 1
        /\ \A k \in 1..Len(keys)-1 : rest[k] = IF k < i THEN keys[k] ELSE keys[k + 1]
    BY <2>1, RemoveAtProperties
  <2> HIDE DEF rest
  <2>4. PICK j \in 1..Len(keys) : keys[j] = d
    BY DEF Range
  <2>5. CASE j < i
    <3>1. j \in DOMAIN rest /\ rest[j] = d
      BY <2>1, <2>3, <2>4, <2>5
    <3> QED
      BY <2>2, <3>1 DEF Range
  <2>6. CASE j > i
    <3>1. j - 1 \in DOMAIN rest /\ rest[j - 1] = d
      BY <2>1, <2>3, <2>4, <2>6
    <3> QED
      BY <2>2, <3>1 DEF Range
  <2> QED
    BY <2>1, <2>4, <2>5, <2>6
<1> QED
  BY <1>1, <1>2

\* Whether a client has sent initialize, after it sends something.
LEMMA AskedAfterSend ==
  ASSUME TypeOK, NEW c \in Clients, NEW command, Send(c, command)
  PROVE  /\ AskedInitialize(c)' <=> AskedInitialize(c) \/ command = "initialize"
         /\ \A d \in Clients : d # c => (AskedInitialize(d)' <=> AskedInitialize(d))
         /\ \A d \in Clients : Registered(d)' <=> Registered(d)
<1>1. /\ sent[c] \in Seq(Commands) /\ command \in Commands
      /\ sent'[c] = Append(sent[c], command)
      /\ \A d \in Clients : d # c => sent'[d] = sent[d]
  BY MuxAssumption DEF Send, TypeOK, MuxTypeOK
<1>2. \A x : x \in Range(Append(sent[c], command)) <=> x \in Range(sent[c]) \/ x = command
  <2> DEFINE longer == Append(sent[c], command)
  <2>1. /\ DOMAIN longer = 1..Len(sent[c])+1 /\ DOMAIN sent[c] = 1..Len(sent[c]) /\ Len(sent[c]) \in Nat
        /\ \A i \in 1..Len(sent[c]) : longer[i] = sent[c][i]
        /\ longer[Len(sent[c]) + 1] = command
    BY <1>1, AppendProperties
  <2> HIDE DEF longer
  <2> QED
    BY <2>1 DEF Range, longer
<1>3. UNCHANGED connection
  BY DEF Send
<1> QED
  BY <1>1, <1>2, <1>3 DEF AskedInitialize, Registered

LEMMA KeysKept ==
  ASSUME KeysAreAsked, UNCHANGED <<initOrder, connection, sent>>
  PROVE  KeysAreAsked'
BY DEF KeysAreAsked, Registered, AskedInitialize

LEMMA KeysClientStep ==
  ASSUME TypeOK, KeysDistinct, NewIsSilent, KeysAreAsked, NEW c \in Clients, ClientStep(c)
  PROVE  KeysAreAsked'
<1>1. CASE InitializeFromCache(c) \/ InitializeBuffered(c) \/ InitializeForwarded(c)
  <2>1. Send(c, "initialize") /\ CacheInitArgs(c)
    BY <1>1 DEF InitializeFromCache, InitializeBuffered, InitializeForwarded
  <2>2. Range(initOrder') = Range(initOrder) \cup {c} /\ Registered(c)
    BY <2>1, CacheInitArgsType DEF Send
  <2> QED
    BY <2>1, <2>2, AskedAfterSend DEF KeysAreAsked
<1>2. ASSUME NEW command \in Requests, RequestIntercepted(c, command) \/ RequestForwarded(c, command)
      PROVE  KeysAreAsked'
  <2>1. Send(c, command) /\ command # "initialize" /\ UNCHANGED initOrder
    BY <1>2 DEF RequestIntercepted, RequestForwarded, Intercepted, handshake
  <2> QED
    BY <2>1, AskedAfterSend DEF KeysAreAsked
<1>3. CASE ConfigurationDoneForwarded(c)
  <2>1. Send(c, "configurationDone") /\ UNCHANGED initOrder
    BY <1>3 DEF ConfigurationDoneForwarded
  <2> QED
    BY <2>1, AskedAfterSend DEF KeysAreAsked
<1>4. CASE Accept(c)
  <2>1. /\ UNCHANGED <<initOrder, sent>> /\ sent[c] = <<>> /\ ~Registered(c)
        /\ \A d \in Clients : d # c => connection'[d] = connection[d]
    BY <1>4 DEF Accept, handshake, NewIsSilent, Registered, TypeOK, MuxTypeOK
  <2>2. ~AskedInitialize(c)
    BY <2>1 DEF AskedInitialize, Range
  <2> QED
    BY <2>1, <2>2 DEF KeysAreAsked, Registered, AskedInitialize
<1>5. CASE Disconnect(c)
  <2>1. /\ initOrder' = WithoutKey(initOrder, c) /\ UNCHANGED sent
        /\ connection'[c] = "gone" /\ \A d \in Clients : d # c => connection'[d] = connection[d]
    BY <1>5 DEF Disconnect, TypeOK, MuxTypeOK
  <2>2. initOrder \in Seq(Clients)
    BY DEF TypeOK, MuxTypeOK
  <2>3. Range(initOrder') \subseteq Range(initOrder) \ {c}
    BY <2>1, <2>2, WithoutKeyProperties DEF KeysDistinct
  <2>4. \A d \in Clients : d # c => (d \in Range(initOrder') <=> d \in Range(initOrder))
    BY <2>1, <2>2, <2>3, WithoutKeyKeepsOthers
  <2> QED
    BY <2>1, <2>3, <2>4 DEF KeysAreAsked, Registered, AskedInitialize
<1>6. CASE ReverseResponseIgnored(c)
  BY <1>6, KeysKept DEF ReverseResponseIgnored, handshake
<1> QED
  BY <1>1, <1>2, <1>3, <1>4, <1>5, <1>6 DEF ClientStep

LEMMA KeysStep ==
  ASSUME TypeOK, KeysDistinct, NewIsSilent, KeysAreAsked, [Next]_vars
  PROVE  KeysAreAsked'
<1>1. ASSUME NEW r, AnswerStep(r) PROVE KeysAreAsked'
  BY <1>1, KeysKept DEF AnswerStep, InitializeResponse, OtherResponse, clientVars, handshake
<1>2. ASSUME \/ \E name \in Events : EventBroadcast(name) \/ EventFiltered(name)
             \/ \E command \in ReverseRequests :
                  ReverseRequestRouted(command) \/ ReverseRequestUnknown(command)
             \/ AdapterLost
             \/ UNCHANGED vars
      PROVE  KeysAreAsked'
  BY <1>2, KeysKept DEF EventBroadcast, EventFiltered, ReverseRequestRouted, ReverseRequestUnknown,
                        AdapterLost, vars, handshake, clientVars
<1> QED
  BY <1>1, <1>2, KeysClientStep DEF Next, AdapterStep

\* Whom the request is for: the first eligible key (compat.py:145-162).
LEMMA TargetIsFirst ==
  ASSUME NEW keys \in Seq(Clients), NEW optIn, NEW command
  PROVE  LET target == PickReverseRequestTarget(keys, optIn, command)
         IN /\ target \subseteq Range(keys)
            /\ \A c, d \in target : c = d
            /\ Range(keys) # {} => target # {}
            /\ command = "runInTerminal" /\ Range(keys) \cap optIn # {} => target \subseteq optIn
<1> DEFINE willing == {i \in DOMAIN keys : keys[i] \in optIn}
           eligible == IF command = "runInTerminal" /\ willing # {} THEN willing ELSE DOMAIN keys
           first == {k \in eligible : \A j \in eligible : k <= j}
           target == {keys[i] : i \in first}
<1>1. eligible \subseteq Nat /\ eligible \subseteq DOMAIN keys
  OBVIOUS
<1>2. Range(keys) # {} => eligible # {}
  BY DEF Range
<1>3. command = "runInTerminal" /\ Range(keys) \cap optIn # {} => \A i \in eligible : keys[i] \in optIn
  BY DEF Range
<1> HIDE DEF eligible
<1>4. eligible # {} => first # {}
  BY <1>1, FirstOfSome
<1>5. \A i, j \in first : i = j
  BY <1>1
<1>6. first \subseteq eligible
  OBVIOUS
<1> HIDE DEF first
<1>7. /\ target \subseteq Range(keys)
      /\ \A c, d \in target : c = d
      /\ Range(keys) # {} => target # {}
      /\ command = "runInTerminal" /\ Range(keys) \cap optIn # {} => target \subseteq optIn
  BY <1>1, <1>2, <1>3, <1>4, <1>5, <1>6 DEF Range
<1>8. PickReverseRequestTarget(keys, optIn, command) = target
  BY DEF PickReverseRequestTarget, first, eligible
<1> QED
  BY <1>7, <1>8

\* The step that emits a reverse request is the one that routes it.
LEMMA EmittedByRouting ==
  ASSUME TypeOK, [Next]_vars, NEW command \in ReverseRequests, IsKnownReverseRequest(command),
         emitted' = Append(emitted, NextEmission("request", command))
  PROVE  ReverseRequestRouted(command)
<1> DEFINE message == NextEmission("request", command)
<1>1. emitted \in Seq(Emission) /\ message \in Emission
  BY EmissionType DEF TypeOK, AdapterTypeOK
<1>2. message.type = "request" /\ message.name = command
  BY NextEmissionFields
<1>3. emitted' # emitted
  <2> HIDE DEF message
  <2>1. Len(Append(emitted, message)) = Len(emitted) + 1 /\ Len(emitted) \in Nat
    BY <1>1, AppendProperties
  <2> QED
    BY <2>1 DEF message
<1>4. \A other \in Emission : emitted' = Append(emitted, other) => other = message
  <2> HIDE DEF message
  <2>1. \A other \in Emission : Append(emitted, other)[Len(emitted) + 1] = other
    BY <1>1, AppendProperties
  <2> QED
    BY <1>1, <2>1 DEF message
<1>5. ASSUME NEW c \in Clients, ClientStep(c) PROVE FALSE
  <2>1. UNCHANGED emitted
    BY <1>5 DEF ClientStep, Accept, Disconnect, InitializeFromCache, InitializeBuffered,
                InitializeForwarded, ConfigurationDoneForwarded, RequestIntercepted, RequestForwarded,
                ReverseResponseIgnored, Forward, RespondSynthetic, adapterVars
  <2> QED
    BY <1>3, <2>1
<1>6. ASSUME NEW r, AnswerStep(r) PROVE FALSE
  <2>1. UNCHANGED emitted
    BY <1>6 DEF AnswerStep, InitializeResponse, OtherResponse, Answer
  <2> QED
    BY <1>3, <2>1
<1>7. ~AdapterLost /\ ~UNCHANGED vars
  BY <1>3 DEF AdapterLost, Lose, vars, adapterVars
<1>8. ASSUME NEW name \in Events, EventBroadcast(name) \/ EventFiltered(name) PROVE FALSE
  <2> DEFINE event == NextEmission("event", name)
  <2>1. event \in Emission /\ event.type = "event"
    BY EmissionType, NextEmissionFields
  <2>2. emitted' = Append(emitted, event)
    BY <1>8 DEF EventBroadcast, EventFiltered, EmitEvent, Emit
  <2> HIDE DEF event, message
  <2> QED
    BY <1>2, <1>4, <2>1, <2>2
<1>9. ASSUME NEW other \in ReverseRequests, ReverseRequestRouted(other) \/ ReverseRequestUnknown(other)
      PROVE  ReverseRequestRouted(command)
  <2> DEFINE asked == NextEmission("request", other)
  <2>1. asked \in Emission /\ asked.name = other
    BY EmissionType, NextEmissionFields
  <2>2. emitted' = Append(emitted, asked)
    BY <1>9 DEF ReverseRequestRouted, ReverseRequestUnknown, EmitReverseRequest, Emit
  <2> HIDE DEF asked, message
  <2>3. other = command
    BY <1>2, <1>4, <2>1, <2>2
  <2> QED
    BY <1>9, <2>3 DEF ReverseRequestUnknown
<1> QED
  BY <1>5, <1>6, <1>7, <1>8, <1>9 DEF Next, AdapterStep

\* A known reverse request reaches exactly one client as soon as one has sent
\* initialize, and runInTerminal one that opted in if there is one, for every
\* set of clients (compat.py:145-162, mux.py:293-301).
THEOREM ReverseRequestsReachOne == Spec => ReverseRequestReachesOne
<1> DEFINE ReachesOne ==
      \A command \in ReverseRequests :
        LET message == NextEmission("request", command)
            asked == {c \in Clients : Registered(c) /\ AskedInitialize(c)}
            willing == {c \in asked : c \in OptIn}
            target == {c \in Clients : outbox'[c] # outbox[c]}
        IN emitted' = Append(emitted, message) /\ IsKnownReverseRequest(command) =>
             /\ Cardinality(target) = IF asked = {} THEN 0 ELSE 1
             /\ target \subseteq asked
             /\ command = "runInTerminal" /\ willing # {} => target \subseteq willing
<1>1. ASSUME TypeOK, KeysAreAsked, [Next]_vars PROVE ReachesOne
  <2> SUFFICES ASSUME NEW command \in ReverseRequests, IsKnownReverseRequest(command),
                      emitted' = Append(emitted, NextEmission("request", command))
               PROVE  LET asked == {c \in Clients : Registered(c) /\ AskedInitialize(c)}
                          willing == {c \in asked : c \in OptIn}
                          target == {c \in Clients : outbox'[c] # outbox[c]}
                      IN /\ Cardinality(target) = IF asked = {} THEN 0 ELSE 1
                         /\ target \subseteq asked
                         /\ command = "runInTerminal" /\ willing # {} => target \subseteq willing
    OBVIOUS
  <2> DEFINE asked == {c \in Clients : Registered(c) /\ AskedInitialize(c)}
             willing == {c \in asked : c \in OptIn}
             target == {c \in Clients : outbox'[c] # outbox[c]}
             picked == PickReverseRequestTarget(initOrder, OptIn, command)
             message == NextEmission("request", command)
  <2>1. initOrder \in Seq(Clients) /\ Range(initOrder) = asked
    BY <1>1, SMTT(30) DEF TypeOK, MuxTypeOK, KeysAreAsked, Range
  <2>2. /\ picked \subseteq asked
        /\ \A c, d \in picked : c = d
        /\ asked # {} => picked # {}
        /\ command = "runInTerminal" /\ asked \cap OptIn # {} => picked \subseteq OptIn
    BY <2>1, TargetIsFirst
  <2>3. ReverseRequestRouted(command)
    BY <1>1, EmittedByRouting
  <2>4. outbox' = [c \in Clients |-> IF c \in picked /\ Registered(c) THEN Append(outbox[c], message)
                                     ELSE outbox[c]]
    BY <2>3 DEF ReverseRequestRouted
  <2>5. \A c \in Clients : outbox[c] # Append(outbox[c], message)
    <3>1. message \in Messages
      BY <1>1, EmissionType DEF Messages
    <3> HIDE DEF message
    <3> SUFFICES ASSUME NEW c \in Clients PROVE outbox[c] # Append(outbox[c], message)
      OBVIOUS
    <3>2. outbox[c] \in Seq(Messages)
      BY <1>1 DEF TypeOK, MuxTypeOK
    <3>3. Len(Append(outbox[c], message)) = Len(outbox[c]) + 1 /\ Len(outbox[c]) \in Nat
      BY <3>1, <3>2, AppendProperties
    <3> QED
      BY <3>3
  <2> HIDE DEF picked, message
  <2>6. target = picked
    BY <2>2, <2>4, <2>5
  <2> HIDE DEF target
  <2>7. Cardinality(target) = IF target = {} THEN 0 ELSE 1
    BY <2>2, <2>6, CountsOne
  <2>8. target = {} <=> asked = {}
    BY <2>2, <2>6
  <2>9. command = "runInTerminal" /\ willing # {} => target \subseteq willing
    BY <2>2, <2>6
  <2>10. target \subseteq asked
    BY <2>2, <2>6
  <2> QED
    BY <2>7, <2>8, <2>9, <2>10 DEF target
<1>2. Init => KeysAreAsked /\ FateInv /\ RoutingInv
  BY RoutingInitially, FateInitially DEF Init, KeysAreAsked, Registered, Range
<1>3. /\ TypeOK /\ KeysDistinct /\ RoutingInv /\ FateInv /\ KeysAreAsked /\ [Next]_vars
      => KeysAreAsked' /\ RoutingInv' /\ FateInv'
  BY RoutingStep, FateStep, KeysStep DEF FateInv
<1>4. TypeOK /\ KeysAreAsked /\ [Next]_vars => [ReachesOne]_vars
  BY <1>1
<1> QED
  BY <1>2, <1>3, <1>4, TypesInvariant, PTL DEF Spec, ReverseRequestReachesOne

=============================================================================
