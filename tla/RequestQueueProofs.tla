-------------------------- MODULE RequestQueueProofs -------------------------
(***************************************************************************)
(* Lemmas on the queue that all links share, for every set of requests and *)
(* every priority: what cutting and inserting give, what running a         *)
(* callback adds to the history, how every request stays accounted for     *)
(* through the moves a queue makes, and how these keep the order of the    *)
(* priorities and the order of the whole line: what was served, what is in *)
(* progress and what waits.                                                *)
(***************************************************************************)
EXTENDS RequestQueue, SequenceTheorems, FiniteSetTheorems, TLAPS

Callbacks == [request : Requests, answer : Requests]

-----------------------------------------------------------------------------
(* The operators on the queue *)

\* Counting entries of a queue gives a place in it.
LEMMA CountInQueue ==
    ASSUME NEW q \in Seq(Requests), NEW I \in SUBSET DOMAIN q
    PROVE  Cardinality(I) \in 0 .. Len(q)
<1>0. Len(q) \in Nat /\ 1 \in Int /\ Len(q) \in Int
    OBVIOUS
<1>1. IsFiniteSet(1 .. Len(q)) /\ Cardinality(1 .. Len(q)) = Len(q)
    BY <1>0, FS_Interval
<1>2. I \in SUBSET (1 .. Len(q))
    OBVIOUS
<1>3. IsFiniteSet(I) /\ Cardinality(I) =< Len(q)
    BY <1>1, <1>2, FS_Subset
<1> QED
    BY <1>3, FS_CardinalityType

\* Cutting a queue gives queues.
LEMMA CutQueue ==
    ASSUME NEW q \in Seq(Requests), NEW i \in 1 .. Len(q) + 1, NEW j \in 0 .. Len(q)
    PROVE  SubSeq(q, i, j) \in Seq(Requests)
<1>1. i \in Int /\ j \in Int /\ \A k \in i .. j : q[k] \in Requests
    OBVIOUS
<1> QED
    BY <1>1, SubSeqProperties

\* A request put into a queue, at either end of its priority, gives a queue.
LEMMA InsertIsQueue ==
    ASSUME NEW q \in Seq(Requests), NEW r \in Requests
    PROVE  InsertFirst(q, r) \in Seq(Requests) /\ InsertLast(q, r) \in Seq(Requests)
<1>1. ASSUME NEW n \in 0 .. Len(q)
      PROVE  InsertAt(q, n + 1, r) \in Seq(Requests)
    <2>1. SubSeq(q, 1, n + 1 - 1) \in Seq(Requests) /\ SubSeq(q, n + 1, Len(q)) \in Seq(Requests)
        BY CutQueue
    <2>2. <<r>> \in Seq(Requests)
        OBVIOUS
    <2> QED
        BY <2>1, <2>2, ConcatProperties DEF InsertAt
<1>2. Cardinality({i \in DOMAIN q : Priority[q[i]] < Priority[r]}) \in 0 .. Len(q)
    BY CountInQueue
<1>3. Cardinality({i \in DOMAIN q : Priority[q[i]] =< Priority[r]}) \in 0 .. Len(q)
    BY CountInQueue
<1> QED
    BY <1>1, <1>2, <1>3 DEF InsertFirst, InsertLast

-----------------------------------------------------------------------------
(* The callbacks that ran *)

LEMMA CallbacksAppended ==
    ASSUME NEW s \in Seq(Callbacks), NEW t \in Seq(Callbacks),
           \A i \in DOMAIN s : s[i].request = s[i].answer,
           \A i \in DOMAIN t : t[i].request = t[i].answer
    PROVE  /\ s \o t \in Seq(Callbacks)
           /\ \A i \in DOMAIN (s \o t) : (s \o t)[i].request = (s \o t)[i].answer
<1>1. /\ s \o t \in Seq(Callbacks)
      /\ Len(s \o t) = Len(s) + Len(t)
      /\ \A i \in 1 .. Len(s) + Len(t) :
            (s \o t)[i] = IF i =< Len(s) THEN s[i] ELSE t[i - Len(s)]
    BY ConcatProperties
<1>2. DOMAIN (s \o t) = 1 .. Len(s) + Len(t) /\ DOMAIN s = 1 .. Len(s) /\ DOMAIN t = 1 .. Len(t)
    BY <1>1
<1> QED
    BY <1>1, <1>2

\* One callback more, with its own answer or another's.
LEMMA CallbackAdded ==
    ASSUME NEW s \in Seq(Callbacks), NEW r \in Requests, NEW a \in Requests
    PROVE  /\ Append(s, Callback(r, a)) \in Seq(Callbacks)
           /\ r = a /\ (\A i \in DOMAIN s : s[i].request = s[i].answer)
                => LET t == Append(s, Callback(r, a))
                   IN  \A i \in DOMAIN t : t[i].request = t[i].answer
<1> DEFINE c == Callback(r, a)
           t == Append(s, c)
<1>1. c \in Callbacks /\ c.request = r /\ c.answer = a
    BY DEF Callback, Callbacks
<1> HIDE DEF c
<1>2. /\ t \in Seq(Callbacks) /\ Len(t) = Len(s) + 1
      /\ \A i \in 1 .. Len(s) : t[i] = s[i]
      /\ t[Len(s) + 1] = c
    BY <1>1, AppendProperties
<1>3. DOMAIN t = 1 .. Len(s) + 1 /\ DOMAIN s = 1 .. Len(s) /\ Len(s) \in Nat
    BY <1>2
<1> HIDE DEF t
<1>4. \A i \in 1 .. Len(s) + 1 : i \in 1 .. Len(s) \/ i = Len(s) + 1
    BY <1>3
<1>5. r = a /\ (\A i \in DOMAIN s : s[i].request = s[i].answer)
        => \A i \in DOMAIN t : t[i].request = t[i].answer
    BY <1>1, <1>2, <1>3, <1>4
<1> QED
    BY <1>2, <1>5 DEF t, c

-----------------------------------------------------------------------------
(* What a queue holds *)

\* No request waits twice.
Distinct(q) == \A i, j \in DOMAIN q : q[i] = q[j] => i = j

LEMMA AppendHolds ==
    ASSUME NEW S, NEW s \in Seq(S), NEW e \in S
    PROVE  ToSet(Append(s, e)) = ToSet(s) \cup {e}
<1> DEFINE t == Append(s, e)
<1>1. /\ t \in Seq(S) /\ Len(t) = Len(s) + 1
      /\ \A i \in 1 .. Len(s) : t[i] = s[i]
      /\ t[Len(s) + 1] = e
    BY AppendProperties
<1>2. DOMAIN t = 1 .. Len(s) + 1 /\ DOMAIN s = 1 .. Len(s) /\ Len(s) \in Nat
    BY <1>1
<1> HIDE DEF t
<1>3. 1 .. Len(s) + 1 = (1 .. Len(s)) \cup {Len(s) + 1}
    BY <1>2
<1> QED
    BY <1>1, <1>2, <1>3 DEF ToSet, t

\* Taking the head of a queue takes nothing else.
LEMMA TailHolds ==
    ASSUME NEW q \in Seq(Requests), q # <<>>, Distinct(q)
    PROVE  /\ Head(q) \in Requests /\ Tail(q) \in Seq(Requests) /\ Distinct(Tail(q))
           /\ Head(q) \in ToSet(q) /\ ToSet(Tail(q)) = ToSet(q) \ {Head(q)}
<1>1. /\ Head(q) \in Requests
      /\ Tail(q) \in Seq(Requests)
      /\ Len(Tail(q)) = Len(q) - 1
      /\ \A i \in 1 .. Len(Tail(q)) : Tail(q)[i] = q[i + 1]
    BY HeadTailProperties
<1>2. /\ DOMAIN q = 1 .. Len(q) /\ Len(q) \in Int /\ Len(q) >= 1
      /\ DOMAIN Tail(q) = 1 .. Len(q) - 1 /\ Head(q) = q[1]
    BY <1>1
<1>3. \A i \in 1 .. Len(q) - 1 : i + 1 \in 1 .. Len(q) /\ i + 1 # 1
    BY <1>2
<1>4. \A i \in 1 .. Len(q) : i = 1 \/ (i - 1 \in 1 .. Len(q) - 1 /\ i = (i - 1) + 1)
    BY <1>2
<1>5. \A i, j \in 1 .. Len(q) - 1 : i + 1 = j + 1 => i = j
    BY <1>2
<1>6. Distinct(Tail(q))
    BY <1>1, <1>2, <1>3, <1>5 DEF Distinct
<1>7. ToSet(Tail(q)) \subseteq ToSet(q) \ {Head(q)}
    BY <1>1, <1>2, <1>3 DEF ToSet, Distinct
<1>8. ToSet(q) \ {Head(q)} \subseteq ToSet(Tail(q))
    <2> SUFFICES ASSUME NEW i \in 1 .. Len(q), i # 1
                 PROVE  \E k \in DOMAIN Tail(q) : Tail(q)[k] = q[i]
        BY <1>2 DEF ToSet
    <2>1. i - 1 \in 1 .. Len(q) - 1 /\ i = (i - 1) + 1
        BY <1>4
    <2>2. Tail(q)[i - 1] = q[(i - 1) + 1]
        BY <1>1, <2>1
    <2> QED
        BY <1>2, <2>1, <2>2
<1>9. Head(q) \in ToSet(q)
    BY <1>2 DEF ToSet
<1> QED
    BY <1>1, <1>6, <1>7, <1>8, <1>9

\* Where everything is when r was put at place n + 1 of the queue.
InsertedAt(q, n, r, t) ==
    /\ DOMAIN t = 1 .. Len(q) + 1
    /\ \A i \in 1 .. Len(q) + 1 :
          \/ i =< n /\ i \in 1 .. n /\ i \in 1 .. Len(q) /\ t[i] = q[i]
          \/ i = n + 1 /\ t[i] = r
          \/ i > n + 1 /\ i - 1 \in 1 .. Len(q) /\ i - 1 > n /\ t[i] = q[i - 1]

LEMMA InsertPlaces ==
    ASSUME NEW q \in Seq(Requests), NEW r \in Requests, NEW n \in 0 .. Len(q)
    PROVE  LET t == InsertAt(q, n + 1, r)
           IN  /\ t \in Seq(Requests) /\ Len(t) = Len(q) + 1
               /\ InsertedAt(q, n, r, t)
<1> DEFINE front == SubSeq(q, 1, (n + 1) - 1)
           back == SubSeq(q, n + 1, Len(q))
           one == <<r>>
           head == front \o one
           t == head \o back
<1>12. InsertAt(q, n + 1, r) = t
    BY DEF InsertAt
<1>0. Len(q) \in Int /\ Len(q) >= 0 /\ n \in Int /\ n >= 0 /\ n =< Len(q) /\ DOMAIN q = 1 .. Len(q)
    OBVIOUS
<1>1. front \in Seq(Requests) /\ Len(front) = n /\ \A i \in 1 .. n : front[i] = q[i]
    <2>1. (n + 1) - 1 \in Int /\ \A i \in 1 .. (n + 1) - 1 : q[i] \in Requests
        BY <1>0
    <2>2. /\ front \in Seq(Requests)
          /\ Len(front) = IF 1 =< n + 1 - 1 THEN (n + 1) - 1 - 1 + 1 ELSE 0
          /\ \A i \in 1 .. (n + 1) - 1 - 1 + 1 : front[i] = q[1 + i - 1]
        BY <2>1, SubSeqProperties
    <2> QED
        BY <1>0, <2>2
<1>2. /\ back \in Seq(Requests) /\ Len(back) = Len(q) - n
      /\ \A i \in 1 .. Len(q) - n : back[i] = q[n + i]
    <2>1. n + 1 \in Int /\ Len(q) \in Int /\ \A i \in n + 1 .. Len(q) : q[i] \in Requests
        BY <1>0
    <2>2. /\ back \in Seq(Requests)
          /\ Len(back) = IF n + 1 =< Len(q) THEN Len(q) - (n + 1) + 1 ELSE 0
          /\ \A i \in 1 .. Len(q) - (n + 1) + 1 : back[i] = q[n + 1 + i - 1]
        BY <2>1, SubSeqProperties
    <2>4. \A i \in 1 .. Len(q) - n : n + 1 + i - 1 = n + i
        BY <1>0
    <2>5. Len(back) = Len(q) - n
        <3>1. CASE n + 1 =< Len(q)
            BY <3>1, <2>2, <1>0
        <3>2. CASE ~(n + 1 =< Len(q))
            <4>1. Len(back) = 0
                BY <3>2, <2>2
            <4>2. \A a, b \in Int : a =< b /\ ~(a + 1 =< b) => b - a = 0
                OBVIOUS
            <4>3. Len(q) - n = 0
                BY <3>2, <4>2, <1>0
            <4> QED
                BY <4>1, <4>3
        <3> QED
            BY <3>1, <3>2
    <2>6. \A i \in 1 .. Len(q) - n : back[i] = q[n + i]
        <3>1. \A i \in 1 .. Len(q) - n : i \in 1 .. Len(q) - (n + 1) + 1
            BY <1>0
        <3> QED
            BY <2>2, <2>4, <3>1
    <2> QED
        BY <2>2, <2>5, <2>6
<1>3. one \in Seq(Requests) /\ Len(one) = 1 /\ one[1] = r
    OBVIOUS
<1> HIDE DEF front, back, one
<1>4. /\ head \in Seq(Requests) /\ Len(head) = n + 1
      /\ \A i \in 1 .. n + 1 : head[i] = IF i =< n THEN front[i] ELSE one[i - n]
    <2>1. /\ head \in Seq(Requests) /\ Len(head) = Len(front) + Len(one)
          /\ \A i \in 1 .. Len(front) + Len(one) :
                head[i] = IF i =< Len(front) THEN front[i] ELSE one[i - Len(front)]
        BY <1>1, <1>3, ConcatProperties
    <2> QED
        BY <1>1, <1>3, <2>1
<1>5. head[n + 1] = r /\ \A i \in 1 .. n : head[i] = q[i]
    BY <1>0, <1>1, <1>3, <1>4
<1> HIDE DEF head
<1>6. /\ t \in Seq(Requests) /\ Len(t) = Len(q) + 1
      /\ \A i \in 1 .. Len(q) + 1 : t[i] = IF i =< n + 1 THEN head[i] ELSE back[i - (n + 1)]
    <2>1. /\ t \in Seq(Requests) /\ Len(t) = Len(head) + Len(back)
          /\ \A i \in 1 .. Len(head) + Len(back) :
                t[i] = IF i =< Len(head) THEN head[i] ELSE back[i - Len(head)]
        BY <1>2, <1>4, ConcatProperties
    <2>2. n + 1 + (Len(q) - n) = Len(q) + 1
        BY <1>0
    <2> QED
        BY <1>2, <1>4, <2>1, <2>2
<1> HIDE DEF t
<1>7. \A i \in 1 .. Len(q) + 1 :
          \/ i =< n /\ i \in 1 .. n /\ i \in 1 .. Len(q) /\ t[i] = q[i]
          \/ i = n + 1 /\ t[i] = r
          \/ i > n + 1 /\ i - 1 \in 1 .. Len(q) /\ i - 1 > n /\ t[i] = q[i - 1]
    <2> SUFFICES ASSUME NEW i \in 1 .. Len(q) + 1
                 PROVE  \/ i =< n /\ i \in 1 .. n /\ i \in 1 .. Len(q) /\ t[i] = q[i]
                        \/ i = n + 1 /\ t[i] = r
                        \/ i > n + 1 /\ i - 1 \in 1 .. Len(q) /\ i - 1 > n /\ t[i] = q[i - 1]
        OBVIOUS
    <2>1. CASE i =< n
        BY <2>1, <1>0, <1>5, <1>6
    <2>2. CASE i = n + 1
        BY <2>2, <1>0, <1>5, <1>6
    <2>3. CASE i > n + 1
        <3>1. i - (n + 1) \in 1 .. Len(q) - n /\ n + (i - (n + 1)) = i - 1
            BY <2>3, <1>0
        <3>2. t[i] = back[i - (n + 1)]
            BY <2>3, <1>0, <1>6
        <3>3. back[i - (n + 1)] = q[n + (i - (n + 1))]
            BY <3>1, <1>2
        <3> QED
            BY <3>1, <3>2, <3>3, <2>3, <1>0
    <2> QED
        BY <2>1, <2>2, <2>3, <1>0
<1>8. DOMAIN t = 1 .. Len(q) + 1
    BY <1>6
<1>9. InsertedAt(q, n, r, t)
    BY <1>7, <1>8 DEF InsertedAt
<1> QED
    BY <1>12, <1>6, <1>9

\* A request put anywhere into a queue is in it once, and nothing else moves.
LEMMA InsertHolds ==
    ASSUME NEW q \in Seq(Requests), NEW r \in Requests, NEW n \in 0 .. Len(q)
    PROVE  LET t == InsertAt(q, n + 1, r)
           IN  /\ t \in Seq(Requests) /\ Len(t) = Len(q) + 1
               /\ ToSet(t) = ToSet(q) \cup {r}
               /\ Distinct(q) /\ r \notin ToSet(q) => Distinct(t)
<1> DEFINE t == InsertAt(q, n + 1, r)
<1>0. Len(q) \in Int /\ Len(q) >= 0 /\ n \in Int /\ n >= 0 /\ n =< Len(q) /\ DOMAIN q = 1 .. Len(q)
    OBVIOUS
<1>6. t \in Seq(Requests) /\ Len(t) = Len(q) + 1 /\ InsertedAt(q, n, r, t)
    BY InsertPlaces
<1> HIDE DEF t
<1>7. \A i \in 1 .. Len(q) + 1 :
          \/ i =< n /\ i \in 1 .. n /\ i \in 1 .. Len(q) /\ t[i] = q[i]
          \/ i = n + 1 /\ t[i] = r
          \/ i > n + 1 /\ i - 1 \in 1 .. Len(q) /\ i - 1 > n /\ t[i] = q[i - 1]
    BY <1>6 DEF InsertedAt
<1>8. DOMAIN t = 1 .. Len(q) + 1
    BY <1>6 DEF InsertedAt
<1>9. ToSet(t) \subseteq ToSet(q) \cup {r}
    BY <1>0, <1>7, <1>8 DEF ToSet
<1>10. ToSet(q) \cup {r} \subseteq ToSet(t)
    <2>1. n + 1 \in DOMAIN t /\ t[n + 1] = r
        BY <1>0, <1>7, <1>8
    <2>2. ASSUME NEW i \in 1 .. Len(q)
          PROVE  \E k \in DOMAIN t : t[k] = q[i]
        <3>1. CASE i =< n
            BY <3>1, <1>0, <1>7, <1>8
        <3>2. CASE i > n
            <4>1. i + 1 \in 1 .. Len(q) + 1 /\ i + 1 > n + 1 /\ (i + 1) - 1 = i
                BY <3>2, <1>0
            <4>2. t[i + 1] = q[i]
                BY <4>1, <1>7, <1>0
            <4> QED
                BY <4>1, <4>2, <1>8
        <3> QED
            BY <3>1, <3>2, <1>0
    <2> QED
        BY <2>1, <2>2, <1>0 DEF ToSet
<1>11. ASSUME Distinct(q), r \notin ToSet(q)
       PROVE  Distinct(t)
    <2>1. \A i \in 1 .. Len(q) : q[i] # r
        BY <1>0, <1>11 DEF ToSet
    <2>2. \A i, j \in 1 .. Len(q) : q[i] = q[j] => i = j
        BY <1>0, <1>11 DEF Distinct
    <2>3. \A i, j \in 1 .. Len(q) + 1 : t[i] = t[j] => i = j
        BY <2>1, <2>2, <1>7, <1>0
    <2> QED
        BY <2>3, <1>8 DEF Distinct
<1> QED
    BY <1>6, <1>9, <1>10, <1>11 DEF t

LEMMA InsertLastHolds ==
    ASSUME NEW q \in Seq(Requests), NEW r \in Requests
    PROVE  /\ InsertLast(q, r) \in Seq(Requests)
           /\ ToSet(InsertLast(q, r)) = ToSet(q) \cup {r}
           /\ Distinct(q) /\ r \notin ToSet(q) => Distinct(InsertLast(q, r))
<1> DEFINE n == Cardinality({i \in DOMAIN q : Priority[q[i]] =< Priority[r]})
<1>1. n \in 0 .. Len(q)
    BY CountInQueue
<1>2. InsertLast(q, r) = InsertAt(q, n + 1, r)
    BY DEF InsertLast
<1> HIDE DEF n
<1> QED
    BY <1>1, <1>2, InsertHolds

LEMMA InsertFirstHolds ==
    ASSUME NEW q \in Seq(Requests), NEW r \in Requests
    PROVE  /\ InsertFirst(q, r) \in Seq(Requests)
           /\ ToSet(InsertFirst(q, r)) = ToSet(q) \cup {r}
           /\ Distinct(q) /\ r \notin ToSet(q) => Distinct(InsertFirst(q, r))
<1> DEFINE n == Cardinality({i \in DOMAIN q : Priority[q[i]] < Priority[r]})
<1>1. n \in 0 .. Len(q)
    BY CountInQueue
<1>2. InsertFirst(q, r) = InsertAt(q, n + 1, r)
    BY DEF InsertFirst
<1> HIDE DEF n
<1> QED
    BY <1>1, <1>2, InsertHolds

-----------------------------------------------------------------------------
(* Steps of the contract *)

LEMMA NothingServed == ToSet(Served) = {answered[i].request : i \in DOMAIN answered}
BY DEF Served, ToSet

\* The requests served, when one callback more has run.
LEMMA ServedGrows ==
    ASSUME answered \in Seq(Callbacks), NEW r \in Requests, NEW a \in Requests,
           answered' = Append(answered, Callback(r, a))
    PROVE  ToSet(Served)' = ToSet(Served) \cup {r}
<1> DEFINE c == Callback(r, a)
<1>1. c \in Callbacks /\ c.request = r
    BY DEF Callback, Callbacks
<1> HIDE DEF c
<1>2. /\ Len(answered') = Len(answered) + 1 /\ answered' \in Seq(Callbacks)
      /\ \A i \in 1 .. Len(answered) : answered'[i] = answered[i]
      /\ answered'[Len(answered) + 1] = c
    BY <1>1, AppendProperties DEF c
<1>3. DOMAIN answered' = 1 .. Len(answered) + 1 /\ DOMAIN answered = 1 .. Len(answered)
    BY <1>2
<1>4. 1 .. Len(answered) + 1 = (1 .. Len(answered)) \cup {Len(answered) + 1}
    OBVIOUS
<1>5. {answered'[i].request : i \in DOMAIN answered'}
        = {answered[i].request : i \in DOMAIN answered} \cup {r}
    BY <1>1, <1>2, <1>3, <1>4
<1> QED
    BY <1>5 DEF Served, ToSet

\* The permutations the contract takes a step by: none, and one.
LEMMA ContractOrders ==
    ASSUME NEW S, NEW r \in S
    PROVE  /\ <<>> \in Contract!SetToAllKPermutations(S)
           /\ <<r>> \in Contract!SetToAllKPermutations(S)
<1>1. /\ Contract!Cardinality({}) = Cardinality({})
      /\ Contract!Cardinality({r}) = Cardinality({r})
    BY DEF Contract!Cardinality, Cardinality, Contract!IsFiniteSet, IsFiniteSet
<1>2. Cardinality({}) = 0 /\ Cardinality({r}) = 1
    BY FS_EmptySet, FS_Singleton
<1>3. <<>> \in Contract!SetToSeqs({})
    BY <1>1, <1>2 DEF Contract!SetToSeqs
<1>4. <<r>> \in Contract!SetToSeqs({r})
    BY <1>1, <1>2 DEF Contract!SetToSeqs
<1> QED
    BY <1>3, <1>4 DEF Contract!SetToAllKPermutations

\* A request is sent.
LEMMA ContractSends ==
    ASSUME answered \in Seq(Callbacks), issued \in Seq(Requests),
           ToSet(Served) \subseteq ToSet(issued),
           NEW r \in Requests, r \notin ToSet(issued),
           issued' = Append(issued, r), UNCHANGED answered
    PROVE  Contract!Next
<1> DEFINE open == ToSet(issued) \ ToSet(Served)
           done == <<>>
<1>1. ToSet(issued)' = ToSet(issued) \cup {r} /\ ToSet(Served)' = ToSet(Served)
    BY AppendHolds DEF Served, ToSet
<1>2. r \in Contract!Fresh
    BY NothingServed DEF Contract!Fresh
<1>3. done \in Contract!SetToAllKPermutations(open \cup {r})
    BY ContractOrders
<1>4. Contract!Completed(done) = <<>> /\ Contract!ToSet(done) = {}
    BY DEF Contract!Completed, Contract!ToSet
<1>5. answered' = answered \o Contract!Completed(done)
    BY <1>4, ConcatEmptySeq
<1>6. (ToSet(issued) \ ToSet(Served))' = (open \cup {r}) \ Contract!ToSet(done)
    BY <1>1, <1>4
<1> HIDE DEF open, done
<1>7. Contract!Step({r})
    BY <1>3, <1>5, <1>6 DEF Contract!Step, open
<1> QED
    BY <1>2, <1>7 DEF Contract!Next, Contract!Issue

\* One callback as the contract records it.
LEMMA ContractRecords ==
    ASSUME answered \in Seq(Callbacks), NEW r \in Requests,
           answered' = Append(answered, Callback(r, r))
    PROVE  answered' = answered \o Contract!Completed(<<r>>) /\ Contract!ToSet(<<r>>) = {r}
<1>1. Contract!Completed(<<r>>) = <<Callback(r, r)>>
    BY DEF Contract!Completed, Callback
<1>2. Callback(r, r) \in Callbacks
    BY DEF Callback, Callbacks
<1>3. Append(answered, Callback(r, r)) = answered \o <<Callback(r, r)>>
    BY <1>2, AppendIsConcat
<1>4. Contract!ToSet(<<r>>) = {r}
    BY DEF Contract!ToSet
<1> QED
    BY <1>1, <1>3, <1>4

\* A request that was sent is answered.
LEMMA ContractAnswers ==
    ASSUME answered \in Seq(Callbacks), NEW r \in Requests,
           r \in ToSet(issued), r \notin ToSet(Served),
           answered' = Append(answered, Callback(r, r)), UNCHANGED issued
    PROVE  Contract!Next
<1> DEFINE open == ToSet(issued) \ ToSet(Served)
           done == <<r>>
<1>1. ToSet(issued)' = ToSet(issued) /\ ToSet(Served)' = ToSet(Served) \cup {r}
    BY ServedGrows DEF ToSet
<1>2. done \in Contract!SetToAllKPermutations(open \cup {})
    BY ContractOrders
<1>3. answered' = answered \o Contract!Completed(done) /\ Contract!ToSet(done) = {r}
    BY ContractRecords
<1>4. (ToSet(issued) \ ToSet(Served))' = (open \cup {}) \ Contract!ToSet(done)
    BY <1>1, <1>3
<1> HIDE DEF open, done
<1>5. Contract!Step({})
    BY <1>2, <1>3, <1>4 DEF Contract!Step, open
<1> QED
    BY <1>5 DEF Contract!Next, Contract!Complete

\* A request is answered, and its callback sends another.
LEMMA ContractAnswersAndSends ==
    ASSUME answered \in Seq(Callbacks), issued \in Seq(Requests),
           NEW r \in Requests, r \in ToSet(issued), r \notin ToSet(Served),
           answered' = Append(answered, Callback(r, r)),
           ToSet(Served) \subseteq ToSet(issued),
           NEW n \in Requests, n \notin ToSet(issued), issued' = Append(issued, n)
    PROVE  Contract!Next
<1> DEFINE open == ToSet(issued) \ ToSet(Served)
           done == <<r>>
<1>1. ToSet(issued)' = ToSet(issued) \cup {n} /\ ToSet(Served)' = ToSet(Served) \cup {r}
    <2>1. ToSet(Append(issued, n)) = ToSet(issued) \cup {n}
        BY AppendHolds
    <2>2. ToSet(Served)' = ToSet(Served) \cup {r}
        BY ServedGrows
    <2> QED
        BY <2>1, <2>2 DEF ToSet
<1>2. done \in Contract!SetToAllKPermutations(open \cup {n})
    BY ContractOrders
<1>3. answered' = answered \o Contract!Completed(done) /\ Contract!ToSet(done) = {r}
    BY ContractRecords
<1>4. (ToSet(issued) \ ToSet(Served))' = (open \cup {n}) \ Contract!ToSet(done)
    BY <1>1, <1>3
<1>5. n \in Contract!Fresh
    BY NothingServed DEF Contract!Fresh
<1> HIDE DEF open, done
<1>6. Contract!Step({n})
    BY <1>2, <1>3, <1>4 DEF Contract!Step, open
<1> QED
    BY <1>5, <1>6 DEF Contract!Next, Contract!Issue

-----------------------------------------------------------------------------
(* The ends of a sequence, and of the stack of nested waits in particular *)

LEMMA AppendPlaces ==
    ASSUME NEW S, NEW s \in Seq(S), NEW e \in S
    PROVE  LET t == Append(s, e)
           IN  /\ t \in Seq(S)
               /\ DOMAIN t = DOMAIN s \cup {Len(s) + 1}
               /\ \A i \in DOMAIN s : t[i] = s[i]
               /\ t[Len(s) + 1] = e
<1> DEFINE t == Append(s, e)
<1>1. /\ t \in Seq(S) /\ Len(t) = Len(s) + 1
      /\ \A i \in 1 .. Len(s) : t[i] = s[i]
      /\ t[Len(s) + 1] = e
    BY AppendProperties
<1>2. DOMAIN t = 1 .. Len(s) + 1 /\ DOMAIN s = 1 .. Len(s) /\ Len(s) \in Nat
    BY <1>1
<1> HIDE DEF t
<1>3. 1 .. Len(s) + 1 = (1 .. Len(s)) \cup {Len(s) + 1}
    BY <1>2
<1> QED
    BY <1>1, <1>2, <1>3 DEF t

LEMMA FrontPlaces ==
    ASSUME NEW S, NEW s \in Seq(S), s # <<>>
    PROVE  /\ Front(s) \in Seq(S)
           /\ DOMAIN Front(s) = DOMAIN s \ {Len(s)}
           /\ \A i \in DOMAIN Front(s) : Front(s)[i] = s[i]
           /\ Len(s) \in DOMAIN s
           /\ Last(s) = s[Len(s)] /\ Last(s) \in S
<1>1. /\ DOMAIN s = 1 .. Len(s) /\ Len(s) \in Int /\ Len(s) >= 1
      /\ Front(s) = SubSeq(s, 1, Len(s) - 1) /\ Last(s) = s[Len(s)]
    BY DEF Front, Last
<1>2. Len(s) - 1 \in Int /\ 1 \in Int /\ \A i \in 1 .. Len(s) - 1 : i \in 1 .. Len(s)
    BY <1>1
<1>3. \A i \in 1 .. Len(s) - 1 : s[i] \in S
    BY <1>1, <1>2
<1> DEFINE n == Len(s) - 1
<1>4. n \in Int /\ n >= 0
    BY <1>1
<1> HIDE DEF n
<1>5. /\ SubSeq(s, 1, n) \in Seq(S)
      /\ Len(SubSeq(s, 1, n)) = IF 1 =< n THEN n - 1 + 1 ELSE 0
      /\ \A i \in 1 .. n - 1 + 1 : SubSeq(s, 1, n)[i] = s[1 + i - 1]
    BY <1>3, <1>4, SubSeqProperties DEF n
<1>6. Len(SubSeq(s, 1, n)) = n
    <2>1. CASE 1 =< n
        BY <2>1, <1>5, <1>4
    <2>2. CASE ~(1 =< n)
        <3>1. n = 0
            BY <2>2, <1>4
        <3> QED
            BY <3>1, <2>2, <1>5
    <2> QED
        BY <2>1, <2>2
<1>7. \A i \in 1 .. n : i \in 1 .. n - 1 + 1 /\ 1 + i - 1 = i
    BY <1>4
<1>8. \A i \in 1 .. n : SubSeq(s, 1, n)[i] = s[i]
    BY <1>5, <1>7
<1>9. DOMAIN SubSeq(s, 1, n) = 1 .. n
    BY <1>5, <1>6
<1>10. 1 .. n = (1 .. Len(s)) \ {Len(s)} /\ Len(s) \in 1 .. Len(s)
    BY <1>1 DEF n
<1>11. s[Len(s)] \in S
    BY <1>1, <1>10
<1> QED
    BY <1>1, <1>5, <1>8, <1>9, <1>10, <1>11 DEF n

-----------------------------------------------------------------------------
(* Several callbacks in one step *)

\* The front of a queue in reverse, its next request, and what is left.
LEMMA ReversedFront ==
    ASSUME NEW q \in Seq(Requests), Distinct(q), NEW n \in 0 .. Len(q)
    PROVE  LET front == [i \in 1 .. n |-> q[n + 1 - i]]
               rest == SubSeq(q, n + 2, Len(q))
           IN  /\ front \in Seq(Requests) /\ Distinct(front)
               /\ rest \in Seq(Requests) /\ Distinct(rest)
               /\ ToSet(front) \cap ToSet(rest) = {}
               /\ n < Len(q) =>
                    /\ q[n + 1] \in Requests
                    /\ q[n + 1] \notin ToSet(front) \cup ToSet(rest)
                    /\ ToSet(q) = ToSet(front) \cup {q[n + 1]} \cup ToSet(rest)
               /\ n = Len(q) => ToSet(q) = ToSet(front) /\ ToSet(rest) = {}
<1> DEFINE front == [i \in 1 .. n |-> q[n + 1 - i]]
           rest == SubSeq(q, n + 2, Len(q))
           m == IF n + 2 =< Len(q) THEN Len(q) - n - 1 ELSE 0
<1>1. n \in Int /\ n >= 0 /\ n =< Len(q) /\ Len(q) \in Int /\ DOMAIN q = 1 .. Len(q)
    OBVIOUS
<1>2. \A i \in 1 .. n : n + 1 - i \in 1 .. Len(q) /\ n + 1 - i =< n
    BY <1>1
<1>3. DOMAIN front = 1 .. n /\ \A i \in 1 .. n : front[i] = q[n + 1 - i]
    OBVIOUS
<1>4. front \in Seq(Requests)
    <2>1. \A i \in 1 .. n : q[n + 1 - i] \in Requests
        BY <1>2
    <2>2. front \in [1 .. n -> Requests] /\ n \in Nat
        BY <1>1, <2>1
    <2> HIDE DEF front
    <2> QED
        BY <2>2, SeqDef
<1>5. rest \in Seq(Requests) /\ Len(rest) = m
    <2>1. \A i \in n + 2 .. Len(q) : q[i] \in Requests
        BY <1>1
    <2>2. n + 2 \in Int
        BY <1>1
    <2> HIDE DEF m
    <2>3. /\ rest \in Seq(Requests)
          /\ Len(rest) = IF n + 2 =< Len(q) THEN Len(q) - (n + 2) + 1 ELSE 0
        BY <1>1, <2>1, <2>2, SubSeqProperties
    <2> QED
        BY <1>1, <2>3 DEF m
<1>6. DOMAIN rest = 1 .. m /\ \A i \in 1 .. m : rest[i] = q[n + 1 + i]
    <2>1. \A i \in n + 2 .. Len(q) : q[i] \in Requests
        BY <1>1
    <2>2. n + 2 \in Int
        BY <1>1
    <2>3. \A i \in 1 .. Len(rest) : rest[i] = q[n + 2 + i - 1]
        BY <1>1, <2>1, <2>2, SubSeqProperties
    <2>4. DOMAIN rest = 1 .. m
        BY <1>5
    <2> HIDE DEF rest, m
    <2>5. m \in Int
        BY <1>1 DEF m
    <2>6. \A i \in 1 .. m : n + 2 + i - 1 = n + 1 + i
        BY <1>1, <2>5
    <2> QED
        BY <1>5, <2>3, <2>4, <2>6
<1>7. \A i \in 1 .. m : n + 1 + i \in 1 .. Len(q) /\ n + 1 + i > n + 1
    BY <1>1
<1> HIDE DEF front, rest
<1>8. Distinct(front)
    <2> SUFFICES ASSUME NEW i \in 1 .. n, NEW j \in 1 .. n, front[i] = front[j]
                 PROVE  i = j
        BY <1>3 DEF Distinct
    <2>1. n + 1 - i = n + 1 - j
        BY <1>1, <1>2, <1>3 DEF Distinct
    <2> QED
        BY <1>1, <2>1
<1>9. Distinct(rest)
    <2> SUFFICES ASSUME NEW i \in 1 .. m, NEW j \in 1 .. m, rest[i] = rest[j]
                 PROVE  i = j
        BY <1>6 DEF Distinct
    <2>1. n + 1 + i = n + 1 + j
        BY <1>1, <1>6, <1>7 DEF Distinct
    <2>2. m \in Int
        BY <1>1
    <2> QED
        BY <1>1, <2>1, <2>2
<1>10. ToSet(front) = {q[i] : i \in 1 .. n}
    <2>1. \A i \in 1 .. n : n + 1 - i \in 1 .. n /\ n + 1 - (n + 1 - i) = i
        BY <1>1
    <2>2. ToSet(front) = {front[i] : i \in 1 .. n}
        BY <1>3 DEF ToSet
    <2>3. ASSUME NEW i \in 1 .. n PROVE front[i] \in {q[j] : j \in 1 .. n}
        BY <1>3, <2>1
    <2>4. ASSUME NEW i \in 1 .. n PROVE q[i] \in {front[j] : j \in 1 .. n}
        <3>1. front[n + 1 - i] = q[n + 1 - (n + 1 - i)]
            BY <1>3, <2>1
        <3> QED
            BY <2>1, <3>1
    <2> QED
        BY <2>2, <2>3, <2>4
<1>11. ToSet(rest) = {q[i] : i \in n + 2 .. Len(q)}
    <2>1. \A i \in 1 .. m : n + 1 + i \in n + 2 .. Len(q)
        BY <1>1
    <2>2. \A i \in n + 2 .. Len(q) : i - n - 1 \in 1 .. m /\ n + 1 + (i - n - 1) = i
        BY <1>1
    <2> HIDE DEF m
    <2> QED
        BY <1>6, <2>1, <2>2 DEF ToSet
<1>12. \A i \in 1 .. n : i \in 1 .. Len(q) /\ i < n + 1
    BY <1>1
<1>13. \A i \in n + 2 .. Len(q) : i \in 1 .. Len(q) /\ i > n + 1
    BY <1>1
<1>14. ToSet(front) \cap ToSet(rest) = {}
    <2> SUFFICES ASSUME NEW i \in 1 .. n, NEW j \in n + 2 .. Len(q), q[i] = q[j]
                 PROVE  FALSE
        BY <1>10, <1>11
    <2>1. i = j
        BY <1>1, <1>12, <1>13 DEF Distinct
    <2> QED
        BY <1>1, <1>12, <1>13, <2>1
<1>15. ASSUME n < Len(q)
       PROVE  /\ q[n + 1] \in Requests
              /\ q[n + 1] \notin ToSet(front) \cup ToSet(rest)
              /\ ToSet(q) = ToSet(front) \cup {q[n + 1]} \cup ToSet(rest)
    <2>1. n + 1 \in 1 .. Len(q)
        BY <1>1, <1>15
    <2>2. \A i \in 1 .. Len(q) : i \in 1 .. n \/ i = n + 1 \/ i \in n + 2 .. Len(q)
        BY <1>1
    <2>3. ToSet(q) = {q[i] : i \in 1 .. Len(q)}
        BY <1>1 DEF ToSet
    <2>4. ToSet(q) = ToSet(front) \cup {q[n + 1]} \cup ToSet(rest)
        BY <1>10, <1>11, <1>12, <1>13, <2>1, <2>2, <2>3
    <2>5. \A i \in 1 .. n : q[i] # q[n + 1]
        <3>1. \A i \in 1 .. n : i # n + 1
            BY <1>1
        <3> QED
            BY <1>1, <1>12, <2>1, <3>1 DEF Distinct
    <2>6. \A i \in n + 2 .. Len(q) : q[i] # q[n + 1]
        <3>1. \A i \in n + 2 .. Len(q) : i # n + 1
            BY <1>1
        <3> QED
            BY <1>1, <1>13, <2>1, <3>1 DEF Distinct
    <2>7. q[n + 1] \in Requests
        BY <2>1
    <2> QED
        BY <1>10, <1>11, <2>4, <2>5, <2>6, <2>7
<1>16. ASSUME n = Len(q)
       PROVE  ToSet(q) = ToSet(front) /\ ToSet(rest) = {}
    <2>1. n + 2 .. Len(q) = {}
        BY <1>1, <1>16
    <2> QED
        BY <1>1, <1>10, <1>11, <1>16, <2>1 DEF ToSet
<1> QED
    BY <1>4, <1>5, <1>8, <1>9, <1>14, <1>15, <1>16 DEF front, rest

\* The callbacks of the requests of s run, with their own answers if told so.
Ran(s, own) ==
    /\ s \in Seq(Requests) /\ Distinct(s)
    /\ ToSet(s) \cap ToSet(Served) = {}
    /\ \E c \in Seq(Callbacks) :
        /\ answered' = answered \o c
        /\ Len(c) = Len(s)
        /\ \A i \in 1 .. Len(s) : c[i].request = s[i] /\ (own => c[i].answer = s[i])

\* Two sequences in a row hold what they hold, and nothing twice if they share
\* nothing.
LEMMA ConcatHolds ==
    ASSUME NEW S, NEW s \in Seq(S), NEW t \in Seq(S)
    PROVE  /\ ToSet(s \o t) = ToSet(s) \cup ToSet(t)
           /\ Distinct(s) /\ Distinct(t) /\ ToSet(s) \cap ToSet(t) = {} => Distinct(s \o t)
<1> DEFINE n == Len(s)
           m == Len(t)
           v == s \o t
<1>1. n \in Int /\ n >= 0 /\ m \in Int /\ m >= 0 /\ DOMAIN s = 1 .. n /\ DOMAIN t = 1 .. m
    OBVIOUS
<1>2. DOMAIN v = 1 .. n + m /\ \A i \in 1 .. n + m : v[i] = IF i =< n THEN s[i] ELSE t[i - n]
    <2>1. v \in Seq(S) /\ Len(v) = n + m
        BY ConcatProperties
    <2>2. DOMAIN v = 1 .. n + m
        BY <2>1
    <2> QED
        BY <2>2, ConcatProperties
<1> HIDE DEF n, m, v
<1>3. \A i \in 1 .. n : i \in 1 .. n + m /\ v[i] = s[i]
    BY <1>1, <1>2
<1>4. \A i \in 1 .. m : n + i \in 1 .. n + m /\ v[n + i] = t[i]
    <2> TAKE i \in 1 .. m
    <2>1. n + i \in 1 .. n + m /\ ~(n + i =< n) /\ (n + i) - n = i
        BY <1>1
    <2>2. v[n + i] = IF n + i =< n THEN s[n + i] ELSE t[(n + i) - n]
        BY <1>2, <2>1
    <2>3. v[n + i] = t[(n + i) - n]
        BY <2>1, <2>2
    <2> QED
        BY <2>1, <2>3
<1>5. \A i \in 1 .. n + m : i \in 1 .. n \/ (i - n \in 1 .. m /\ n + (i - n) = i)
    BY <1>1
<1>6. /\ ToSet(v) = {v[i] : i \in 1 .. n + m}
      /\ ToSet(s) = {s[i] : i \in 1 .. n} /\ ToSet(t) = {t[i] : i \in 1 .. m}
    BY <1>1, <1>2 DEF ToSet
<1>7. \A i \in 1 .. n + m : i \notin 1 .. n => v[i] = t[i - n]
    <2> TAKE i \in 1 .. n + m
    <2> HAVE i \notin 1 .. n
    <2>1. i - n \in 1 .. m /\ n + (i - n) = i
        BY <1>5
    <2>2. v[n + (i - n)] = t[i - n]
        BY <1>4, <2>1
    <2> QED
        BY <2>1, <2>2
<1>8. ToSet(v) = ToSet(s) \cup ToSet(t)
    <2>1. ASSUME NEW i \in 1 .. n + m PROVE v[i] \in ToSet(s) \cup ToSet(t)
        BY <1>3, <1>5, <1>6, <1>7
    <2>2. \A i \in 1 .. n : s[i] \in ToSet(v)
        BY <1>3, <1>6
    <2>3. \A i \in 1 .. m : t[i] \in ToSet(v)
        BY <1>4, <1>6
    <2> QED
        BY <1>6, <2>1, <2>2, <2>3
<1>9. ASSUME Distinct(s), Distinct(t), ToSet(s) \cap ToSet(t) = {}
      PROVE  Distinct(v)
    <2>1. \A i \in 1 .. n, j \in 1 .. m : s[i] # t[j]
        BY <1>6, <1>9
    <2> SUFFICES ASSUME NEW i \in 1 .. n + m, NEW j \in 1 .. n + m, v[i] = v[j]
                 PROVE  i = j
        BY <1>2 DEF Distinct
    <2>2. CASE i \in 1 .. n /\ j \in 1 .. n
        BY <1>1, <1>3, <1>9, <2>2 DEF Distinct
    <2>3. CASE i \in 1 .. n /\ j \notin 1 .. n
        BY <1>3, <1>5, <1>7, <2>1, <2>3
    <2>4. CASE i \notin 1 .. n /\ j \in 1 .. n
        BY <1>3, <1>5, <1>7, <2>1, <2>4
    <2>5. CASE i \notin 1 .. n /\ j \notin 1 .. n
        <3>1. t[i - n] = t[j - n] /\ i - n \in 1 .. m /\ j - n \in 1 .. m
            BY <1>5, <1>7, <2>5
        <3>2. i - n = j - n
            BY <1>1, <1>9, <3>1 DEF Distinct
        <3> QED
            BY <1>1, <3>2
    <2> QED
        BY <2>2, <2>3, <2>4, <2>5
<1> QED
    BY <1>8, <1>9 DEF v

\* They are served, none of them twice.
LEMMA RanServed ==
    ASSUME answered \in Seq(Callbacks), Distinct(Served), NEW s, NEW own, Ran(s, own)
    PROVE  /\ answered' \in Seq(Callbacks)
           /\ Served' = Served \o s /\ Served \in Seq(Requests)
           /\ ToSet(Served)' = ToSet(Served) \cup ToSet(s)
           /\ Distinct(Served)'
<1>1. PICK c \in Seq(Callbacks) :
        /\ answered' = answered \o c
        /\ Len(c) = Len(s)
        /\ \A i \in 1 .. Len(s) : c[i].request = s[i]
    BY DEF Ran
<1> DEFINE n == Len(answered)
           m == Len(s)
           t == answered'
<1>2. n \in Nat /\ m \in Nat /\ s \in Seq(Requests) /\ DOMAIN answered = 1 .. n
    BY DEF Ran
<1>3. /\ t \in Seq(Callbacks) /\ Len(t) = n + m
      /\ \A i \in 1 .. n + m : t[i] = IF i =< n THEN answered[i] ELSE c[i - n]
    <2>1. /\ answered \o c \in Seq(Callbacks)
          /\ Len(answered \o c) = Len(answered) + Len(c)
          /\ \A i \in 1 .. Len(answered) + Len(c) :
                (answered \o c)[i] = IF i =< Len(answered) THEN answered[i]
                                     ELSE c[i - Len(answered)]
        BY ConcatProperties
    <2> QED
        BY <1>1, <2>1
<1>4. DOMAIN t = 1 .. n + m
    BY <1>3
<1>5. Served \in Seq(Requests) /\ Len(Served) = n /\ \A i \in 1 .. n : Served[i] = answered[i].request
    <2>1. \A i \in 1 .. n : answered[i] \in Callbacks
        BY <1>2
    <2>2. Served = [i \in 1 .. n |-> answered[i].request]
        BY <1>2 DEF Served
    <2>3. Served \in [1 .. n -> Requests]
        BY <2>1, <2>2 DEF Callbacks
    <2> HIDE DEF n
    <2>4. Served \in Seq(Requests)
        BY <1>2, <2>3, SeqDef
    <2>5. Len(Served) = n
        BY <1>2, <2>2, <2>4
    <2> QED
        BY <2>2, <2>4, <2>5
<1> HIDE DEF n, m, t
<1> DEFINE v == Served \o s
<1>6. /\ v \in Seq(Requests) /\ Len(v) = n + m
      /\ \A i \in 1 .. n + m : v[i] = IF i =< n THEN Served[i] ELSE s[i - n]
    BY <1>2, <1>5, ConcatProperties DEF m
<1> HIDE DEF v
<1>7. \A i \in 1 .. n + m : t[i].request = v[i]
    <2> SUFFICES ASSUME NEW i \in 1 .. n + m PROVE t[i].request = v[i]
        OBVIOUS
    <2>1. CASE i =< n
        <3>1. i \in 1 .. n
            BY <1>2, <2>1
        <3> QED
            BY <1>3, <1>5, <1>6, <2>1, <3>1
    <2>2. CASE ~(i =< n)
        <3>1. i - n \in 1 .. m
            BY <1>2, <2>2
        <3>2. c[i - n].request = s[i - n]
            BY <1>1, <3>1 DEF m
        <3> QED
            BY <1>3, <1>6, <2>2, <3>2
    <2> QED
        BY <2>1, <2>2
<1>8. Served' = [i \in 1 .. n + m |-> t[i].request]
    BY <1>4 DEF Served, t
<1>9. v = [i \in 1 .. n + m |-> v[i]]
    <2>1. DOMAIN v = 1 .. n + m
        BY <1>6
    <2> QED
        BY <1>6, <2>1
<1>10. Served' = v
    BY <1>7, <1>8, <1>9
<1>11. ToSet(v) = ToSet(Served) \cup ToSet(s) /\ Distinct(v)
    <2>1. Distinct(s) /\ ToSet(Served) \cap ToSet(s) = {}
        BY DEF Ran
    <2> QED
        BY <1>2, <1>5, <2>1, ConcatHolds DEF v
<1>12. (ToSet(Served))' = ToSet(Served') /\ (Distinct(Served))' = Distinct(Served')
    BY DEF ToSet, Distinct
<1> QED
    BY <1>3, <1>5, <1>10, <1>11, <1>12 DEF t, v

\* Any order in which members of a set complete is one the contract allows.
LEMMA ContractAnyOrder ==
    ASSUME NEW s \in Seq(Requests), Distinct(s), NEW S, ToSet(s) \subseteq S
    PROVE  s \in Contract!SetToAllKPermutations(S)
<1> DEFINE T == ToSet(s)
           n == Len(s)
<1>1. n \in Nat /\ n \in Int /\ 1 \in Int /\ DOMAIN s = 1 .. n /\ T = {s[i] : i \in 1 .. n}
    BY DEF ToSet
<1>2. Contract!Cardinality(T) = Cardinality(T)
    BY DEF Contract!Cardinality, Cardinality, Contract!IsFiniteSet, IsFiniteSet
<1>3. Cardinality(T) = n
    <2>1. IsFiniteSet(1 .. n) /\ Cardinality(1 .. n) = n
        <3> HIDE DEF n
        <3> QED
            BY <1>1, FS_Interval
    <2>2. s \in Bijection(1 .. n, T)
        BY <1>1 DEF Distinct, Bijection, Injection, Surjection, IsInjective
    <2>3. ExistsBijection(1 .. n, T)
        BY <2>2 DEF ExistsBijection
    <2> HIDE DEF T, n
    <2> QED
        BY <2>1, <2>3, FS_Bijection
<1>4. s \in [1 .. n -> T]
    BY <1>1
<1>5. s \in Contract!SetToSeqs(T)
    BY <1>1, <1>2, <1>3, <1>4 DEF Contract!SetToSeqs, Distinct
<1> QED
    BY <1>5 DEF Contract!SetToAllKPermutations

\* Whatever a handler does to the history, it is a step of the contract, if it
\* sends at most one new request and runs the callbacks of outstanding ones.
LEMMA RanContract ==
    ASSUME answered \in Seq(Callbacks), issued \in Seq(Requests), Distinct(Served),
           ToSet(Served) \subseteq ToSet(issued),
           NEW sent,
           \/ sent = {} /\ issued' = issued
           \/ \E r \in Requests \ ToSet(issued) : sent = {r} /\ issued' = Append(issued, r),
           NEW s, Ran(s, TRUE), ToSet(s) \subseteq ToSet(issued) \cup sent
    PROVE  Contract!Next
<1> DEFINE open == ToSet(issued) \ ToSet(Served)
<1>1. ToSet(issued)' = ToSet(issued) \cup sent
    <2>1. \A r \in Requests : ToSet(Append(issued, r)) = ToSet(issued) \cup {r}
        BY AppendHolds
    <2> QED
        BY <2>1 DEF ToSet
<1>2. ToSet(Served)' = ToSet(Served) \cup ToSet(s)
    BY RanServed
<1>3. s \in Seq(Requests) /\ Distinct(s) /\ ToSet(s) \cap ToSet(Served) = {}
    BY DEF Ran
<1>4. s \in Contract!SetToAllKPermutations(open \cup sent)
    <2>1. ToSet(s) \subseteq open \cup sent
        BY <1>3
    <2> HIDE DEF open
    <2> QED
        BY <1>3, <2>1, ContractAnyOrder
<1>5. Contract!ToSet(s) = ToSet(s)
    BY DEF Contract!ToSet, ToSet
<1>6. answered' = answered \o Contract!Completed(s)
    <2>1. PICK c \in Seq(Callbacks) :
            /\ answered' = answered \o c
            /\ Len(c) = Len(s)
            /\ \A i \in 1 .. Len(s) : c[i].request = s[i] /\ c[i].answer = s[i]
        BY DEF Ran
    <2>2. /\ DOMAIN s = 1 .. Len(s) /\ DOMAIN c = 1 .. Len(s)
          /\ \A i \in 1 .. Len(s) : c[i] \in Callbacks
        BY <1>3, <2>1
    <2>3. \A i \in 1 .. Len(s) : c[i] = [request |-> s[i], answer |-> s[i]]
        BY <2>1, <2>2 DEF Callbacks
    <2>4. c = [i \in 1 .. Len(s) |-> c[i]]
        BY <2>1, <2>2
    <2>5. c = Contract!Completed(s)
        BY <2>2, <2>3, <2>4 DEF Contract!Completed
    <2> QED
        BY <2>1, <2>5
<1>7. (ToSet(issued) \ ToSet(Served))' = (open \cup sent) \ Contract!ToSet(s)
    <2>1. sent \cap ToSet(Served) = {}
        BY DEF ToSet
    <2> QED
        BY <1>1, <1>2, <1>5, <2>1
<1> HIDE DEF open
<1>8. Contract!Step(sent)
    BY <1>4, <1>6, <1>7 DEF Contract!Step, open
<1>9. CASE sent = {}
    BY <1>8, <1>9 DEF Contract!Next, Contract!Complete
<1>10. CASE \E r \in Requests \ ToSet(issued) : sent = {r}
    <2>1. PICK r \in Requests \ ToSet(issued) : sent = {r}
        BY <1>10
    <2>2. r \in Contract!Fresh
        BY <2>1, NothingServed DEF Contract!Fresh
    <2> QED
        BY <1>8, <2>1, <2>2 DEF Contract!Next, Contract!Issue
<1> QED
    BY <1>9, <1>10

\* Every request sent waits, is in progress, or was answered, once.
Accounted ==
    /\ Distinct(ipmi_msgq) /\ Distinct(Served)
    /\ inprogress \notin ToSet(ipmi_msgq)
    /\ (ToSet(ipmi_msgq) \cup {inprogress}) \cap ToSet(Served) = {}
    /\ ToSet(issued) = (ToSet(ipmi_msgq) \cup {inprogress} \cup ToSet(Served)) \ {None}

LEMMA OccursOnce ==
    ASSUME NEW s, Distinct(s), NEW r
    PROVE  Occurrences(s, r) = IF r \in ToSet(s) THEN 1 ELSE 0
<1> DEFINE I == {i \in DOMAIN s : s[i] = r}
<1>1. CASE r \in ToSet(s)
    <2>1. PICK i \in DOMAIN s : s[i] = r
        BY <1>1 DEF ToSet
    <2>2. I = {i}
        BY <2>1 DEF Distinct
    <2> QED
        BY <1>1, <2>2, FS_Singleton DEF Occurrences
<1>2. CASE r \notin ToSet(s)
    <2>1. I = {}
        BY <1>2 DEF ToSet
    <2> QED
        BY <1>2, <2>1, FS_EmptySet DEF Occurrences
<1> QED
    BY <1>1, <1>2

LEMMA AccountedMeansOnce ==
    ASSUME RequestsAssumption, Accounted
    PROVE  EveryRequestAccounted
<1> SUFFICES ASSUME NEW r \in Requests
             PROVE  Occurrences(ipmi_msgq, r) + Occurrences(<<inprogress>>, r) + Occurrences(Served, r)
                        = IF r \in ToSet(issued) THEN 1 ELSE 0
    BY DEF EveryRequestAccounted
<1> DEFINE one == <<inprogress>>
<1>1. Distinct(one) /\ ToSet(one) = {inprogress}
    BY DEF Distinct, ToSet
<1> HIDE DEF one
<1>2. /\ Occurrences(ipmi_msgq, r) = IF r \in ToSet(ipmi_msgq) THEN 1 ELSE 0
      /\ Occurrences(one, r) = IF r = inprogress THEN 1 ELSE 0
      /\ Occurrences(Served, r) = IF r \in ToSet(Served) THEN 1 ELSE 0
    BY <1>1, OccursOnce DEF Accounted
<1>3. r # None
    BY DEF RequestsAssumption
<1> QED
    BY <1>2, <1>3 DEF Accounted, one

LEMMA NoneNotServed ==
    ASSUME RequestsAssumption, answered \in Seq(Callbacks)
    PROVE  None \notin ToSet(Served)
<1>1. \A i \in DOMAIN answered : answered[i] \in Callbacks
    OBVIOUS
<1>2. \A i \in DOMAIN answered : answered[i].request \in Requests
    BY <1>1 DEF Callbacks
<1> QED
    BY <1>2, NothingServed DEF RequestsAssumption

LEMMA NothingRan ==
    ASSUME answered \in Seq(Callbacks), UNCHANGED answered
    PROVE  Ran(<<>>, TRUE) /\ ToSet(<<>>) = {}
<1>1. <<>> \in Seq(Requests) /\ <<>> \in Seq(Callbacks) /\ Len(<<>>) = 0
    OBVIOUS
<1>2. Distinct(<<>>) /\ ToSet(<<>>) = {} /\ \A i \in 1 .. 0 : FALSE
    BY DEF Distinct, ToSet
<1>3. answered' = answered \o <<>>
    BY ConcatEmptySeq
<1> QED
    BY <1>1, <1>2, <1>3 DEF Ran

\* A handler moves requests between the queue and the slot, sends at most one
\* and runs callbacks of those it takes out.
LEMMA MovesKeepAccount ==
    ASSUME RequestsAssumption,
           answered \in Seq(Callbacks), issued \in Seq(Requests), Accounted,
           NEW sent,
           \/ sent = {} /\ issued' = issued
           \/ \E r \in Requests \ ToSet(issued) : sent = {r} /\ issued' = Append(issued, r),
           NEW s, NEW own, Ran(s, own), None \notin ToSet(s),
           Distinct(ipmi_msgq'), inprogress' \notin ToSet(ipmi_msgq'),
           (ToSet(ipmi_msgq') \cup {inprogress'}) \cap (ToSet(Served) \cup ToSet(s)) = {},
           ToSet(issued) \cup sent
               = (ToSet(ipmi_msgq') \cup {inprogress'} \cup ToSet(Served) \cup ToSet(s)) \ {None}
    PROVE  Accounted' /\ (own => Contract!Next)
<1>1. /\ answered' \in Seq(Callbacks)
      /\ ToSet(Served)' = ToSet(Served) \cup ToSet(s)
      /\ Distinct(Served)'
    BY RanServed DEF Accounted
<1>2. ToSet(issued)' = ToSet(issued) \cup sent
    <2>1. \A r \in Requests : ToSet(Append(issued, r)) = ToSet(issued) \cup {r}
        BY AppendHolds
    <2>2. (ToSet(issued))' = ToSet(issued')
        BY DEF ToSet
    <2>3. CASE sent = {} /\ issued' = issued
        BY <2>2, <2>3
    <2>4. CASE \E r \in Requests \ ToSet(issued) : sent = {r} /\ issued' = Append(issued, r)
        BY <2>1, <2>2, <2>4
    <2> QED
        BY <2>3, <2>4
<1>3. (ToSet(ipmi_msgq))' = ToSet(ipmi_msgq') /\ (Distinct(ipmi_msgq))' = Distinct(ipmi_msgq')
    BY DEF ToSet, Distinct
<1>4. Accounted'
    BY <1>1, <1>2, <1>3 DEF Accounted
<1>5. ToSet(s) \subseteq ToSet(issued) \cup sent /\ ToSet(Served) \subseteq ToSet(issued)
    BY NoneNotServed DEF Accounted
<1>6. own => Contract!Next
    <2>1. own => Ran(s, TRUE)
        BY DEF Ran
    <2> QED
        BY <1>5, <2>1, RanContract DEF Accounted
<1> QED
    BY <1>4, <1>6

\* The callbacks c are those of the requests s, run with their own answers if
\* own holds.
CallbacksOf(c, s, own) ==
    /\ Len(c) = Len(s)
    /\ \A i \in 1 .. Len(s) : c[i].request = s[i] /\ (own => c[i].answer = s[i])

\* What a handler does to the list and the slot when it sends: it answers
\* the first n requests of q itself, last one first, and puts the next in
\* progress; done is the callback, if any, that it runs at the end.
Move(q, n, done) ==
    /\ answered' = answered \o [i \in 1 .. n |-> Callback(q[n + 1 - i], q[n + 1 - i])] \o done
    /\ ipmi_msgq' = SubSeq(q, n + 2, Len(q))
    /\ \/ n < Len(q) /\ inprogress' = q[n + 1]
       \/ n = Len(q) /\ inprogress' = None

\* A handler that wants to send from q, and may find that it cannot.
MayMove(q) ==
    \/ inprogress = None /\ \E n \in 0 .. Len(q) : Move(q, n, <<>>)
    \/ ipmi_msgq' = q /\ UNCHANGED <<inprogress, answered>>

\* The types of the list, the slot and the histories.
ListTyped ==
    /\ ipmi_msgq \in Seq(Requests)
    /\ inprogress \in Requests \cup {None}
    /\ issued \in Seq(Requests)
    /\ answered \in Seq(Callbacks)

\* What moves comes from q, and the types stay.
LEMMA MoveTyped ==
    ASSUME answered \in Seq(Callbacks),
           NEW q \in Seq(Requests), NEW done \in Seq(Callbacks),
           NEW n \in 0 .. Len(q), Move(q, n, done)
    PROVE  /\ ipmi_msgq' \in Seq(Requests) /\ answered' \in Seq(Callbacks)
           /\ ToSet(ipmi_msgq') \subseteq ToSet(q)
           /\ inprogress' \in ToSet(q) \cup {None}
<1> DEFINE fakes == [i \in 1 .. n |-> Callback(q[n + 1 - i], q[n + 1 - i])]
           s == SubSeq(q, n + 2, Len(q))
<1>1. /\ n \in Nat /\ n + 2 \in Int /\ Len(q) \in Nat /\ DOMAIN q = 1 .. Len(q)
      /\ \A k \in n + 2 .. Len(q) : q[k] \in Requests
      /\ \A i \in 1 .. n : q[n + 1 - i] \in Requests
    OBVIOUS
<1>2. /\ s \in Seq(Requests)
      /\ Len(s) = IF n + 2 =< Len(q) THEN Len(q) - (n + 2) + 1 ELSE 0
      /\ \A i \in 1 .. Len(q) - (n + 2) + 1 : s[i] = q[n + 2 + i - 1]
    BY <1>1, SubSeqProperties
<1>3. fakes \in Seq(Callbacks)
    <2>1. \A i \in 1 .. n : fakes[i] \in Callbacks
        BY <1>1 DEF Callback, Callbacks
    <2>2. fakes \in [1 .. n -> Callbacks]
        BY <2>1
    <2> HIDE DEF fakes
    <2> QED
        BY <1>1, <2>2, SeqDef
<1>4. /\ answered' = answered \o fakes \o done /\ ipmi_msgq' = s
      /\ (n < Len(q) /\ inprogress' = q[n + 1]) \/ inprogress' = None
    BY DEF Move
<1> HIDE DEF fakes, s
<1>5. answered' \in Seq(Callbacks)
    <2>1. answered \o fakes \in Seq(Callbacks)
        BY <1>3, ConcatProperties
    <2> QED
        BY <1>4, <2>1, ConcatProperties
<1>6. ToSet(s) \subseteq ToSet(q)
    <2> SUFFICES ASSUME NEW i \in DOMAIN s PROVE \E k \in DOMAIN q : q[k] = s[i]
        BY DEF ToSet
    <2>1. i \in 1 .. Len(s)
        BY <1>2
    <2>2. n + 2 =< Len(q) /\ Len(s) = Len(q) - (n + 2) + 1
        BY <1>2, <2>1
    <2>3. i \in 1 .. Len(q) - (n + 2) + 1
        BY <2>1, <2>2
    <2>4. n + 2 + i - 1 \in 1 .. Len(q)
        BY <1>1, <2>2, <2>3
    <2> QED
        BY <1>1, <1>2, <2>3, <2>4
<1>7. n < Len(q) => n + 1 \in DOMAIN q
    BY <1>1
<1> QED
    BY <1>2, <1>4, <1>5, <1>6, <1>7 DEF ToSet

LEMMA MayMoveTyped ==
    ASSUME ListTyped, NEW q \in Seq(Requests), MayMove(q)
    PROVE  /\ ipmi_msgq' \in Seq(Requests) /\ answered' \in Seq(Callbacks)
           /\ ToSet(ipmi_msgq') \subseteq ToSet(q)
           /\ inprogress' \in ToSet(q) \cup {None, inprogress}
<1> DEFINE none == <<>>
<1>1. none \in Seq(Callbacks)
    OBVIOUS
<1> HIDE DEF none
<1>2. ASSUME NEW n \in 0 .. Len(q), Move(q, n, none)
      PROVE  /\ ipmi_msgq' \in Seq(Requests) /\ answered' \in Seq(Callbacks)
             /\ ToSet(ipmi_msgq') \subseteq ToSet(q)
             /\ inprogress' \in ToSet(q) \cup {None, inprogress}
    BY <1>1, <1>2, MoveTyped DEF ListTyped
<1>3. \/ \E n \in 0 .. Len(q) : Move(q, n, none)
      \/ ipmi_msgq' = q /\ UNCHANGED <<inprogress, answered>>
    BY DEF MayMove, none
<1>4. CASE ipmi_msgq' = q /\ UNCHANGED <<inprogress, answered>>
    BY <1>4 DEF ListTyped
<1> QED
    BY <1>2, <1>3, <1>4

\* What a send does to the requests of q, with one callback or none that the
\* caller still has to run: all that left the queue was answered, but one.
LEMMA MoveRuns ==
    ASSUME RequestsAssumption, answered \in Seq(Callbacks),
           NEW q \in Seq(Requests), Distinct(q),
           NEW last \in Seq(Requests), Distinct(last), ToSet(last) \cap ToSet(q) = {},
           (ToSet(q) \cup ToSet(last)) \cap ToSet(Served) = {},
           NEW done \in Seq(Callbacks),
           NEW own, CallbacksOf(done, last, own),
           NEW n \in 0 .. Len(q), Move(q, n, done)
    PROVE  \E s : /\ Ran(s, own) /\ s \in Seq(Requests)
                  /\ Distinct(ipmi_msgq') /\ inprogress' \notin ToSet(ipmi_msgq')
                  /\ ToSet(s) \cap (ToSet(ipmi_msgq') \cup {inprogress'}) = {}
                  /\ None \notin ToSet(ipmi_msgq')
                  /\ ToSet(s) \cup ((ToSet(ipmi_msgq') \cup {inprogress'}) \ {None})
                        = ToSet(q) \cup ToSet(last)
<1> DEFINE front == [i \in 1 .. n |-> q[n + 1 - i]]
           fakes == [i \in 1 .. n |-> Callback(q[n + 1 - i], q[n + 1 - i])]
           rest == SubSeq(q, n + 2, Len(q))
           s == front \o last
           c == fakes \o done
<1>1. n \in 0 .. Len(q)
    OBVIOUS
<1>2. /\ answered' = answered \o fakes \o done
      /\ ipmi_msgq' = rest
      /\ \/ n < Len(q) /\ inprogress' = q[n + 1]
         \/ n = Len(q) /\ inprogress' = None
    BY DEF Move
<1>3. /\ front \in Seq(Requests) /\ Distinct(front)
      /\ rest \in Seq(Requests) /\ Distinct(rest)
      /\ ToSet(front) \cap ToSet(rest) = {}
      /\ n < Len(q) =>
            /\ q[n + 1] \in Requests
            /\ q[n + 1] \notin ToSet(front) \cup ToSet(rest)
            /\ ToSet(q) = ToSet(front) \cup {q[n + 1]} \cup ToSet(rest)
      /\ n = Len(q) => ToSet(q) = ToSet(front) /\ ToSet(rest) = {}
    BY <1>1, ReversedFront
<1>4. /\ fakes \in Seq(Callbacks) /\ Len(fakes) = n /\ Len(front) = n
      /\ \A i \in 1 .. n : fakes[i].request = front[i] /\ fakes[i].answer = front[i]
    <2>1. n \in Nat /\ DOMAIN front = 1 .. n /\ DOMAIN fakes = 1 .. n
        BY <1>1
    <2>2. \A i \in 1 .. n : front[i] \in Requests
        BY <1>3, <2>1
    <2>3. \A i \in 1 .. n : fakes[i] = Callback(front[i], front[i])
        OBVIOUS
    <2>4. \A i \in 1 .. n : /\ fakes[i] \in Callbacks
                            /\ fakes[i].request = front[i] /\ fakes[i].answer = front[i]
        BY <2>2, <2>3 DEF Callback, Callbacks
    <2>5. fakes \in [1 .. n -> Callbacks] /\ n \in Nat
        BY <2>1, <2>4
    <2> HIDE DEF fakes, front
    <2>6. fakes \in Seq(Callbacks)
        BY <2>5, SeqDef
    <2>7. Len(fakes) = n /\ Len(front) = n
        BY <1>3, <2>1, <2>6
    <2> QED
        BY <2>4, <2>6, <2>7
<1> HIDE DEF front, fakes, rest
<1>5. /\ s \in Seq(Requests) /\ Len(s) = n + Len(last)
      /\ \A i \in 1 .. n + Len(last) : s[i] = IF i =< n THEN front[i] ELSE last[i - n]
    <2>1. /\ s \in Seq(Requests) /\ Len(s) = Len(front) + Len(last)
          /\ \A i \in 1 .. Len(front) + Len(last) :
                s[i] = IF i =< Len(front) THEN front[i] ELSE last[i - Len(front)]
        BY <1>3, ConcatProperties
    <2> HIDE DEF s
    <2> QED
        BY <1>4, <2>1
<1>6. /\ c \in Seq(Callbacks) /\ Len(c) = n + Len(last)
      /\ \A i \in 1 .. n + Len(last) : c[i] = IF i =< n THEN fakes[i] ELSE done[i - n]
    <2>0. fakes \in Seq(Callbacks) /\ done \in Seq(Callbacks)
        BY <1>4
    <2>1. /\ c \in Seq(Callbacks) /\ Len(c) = Len(fakes) + Len(done)
          /\ \A i \in 1 .. Len(fakes) + Len(done) :
                c[i] = IF i =< Len(fakes) THEN fakes[i] ELSE done[i - Len(fakes)]
        BY <2>0, ConcatProperties
    <2>2. Len(done) = Len(last)
        BY DEF CallbacksOf
    <2> HIDE DEF c
    <2> QED
        BY <1>4, <2>1, <2>2
<1>7. answered' = answered \o c
    <2>1. (answered \o fakes) \o done = answered \o (fakes \o done)
        <3>1. fakes \in Seq(Callbacks) /\ done \in Seq(Callbacks)
            BY <1>4
        <3> QED
            BY <3>1, ConcatAssociative
    <2> QED
        BY <1>2, <2>1
<1> HIDE DEF s, c
<1>8. \A i \in 1 .. Len(s) : c[i].request = s[i] /\ (own => c[i].answer = s[i])
    <2> SUFFICES ASSUME NEW i \in 1 .. n + Len(last)
                 PROVE  c[i].request = s[i] /\ (own => c[i].answer = s[i])
        BY <1>5
    <2>0. n \in Int /\ Len(last) \in Int
        BY <1>1
    <2>1. CASE i =< n
        <3>1. i \in 1 .. n
            BY <2>0, <2>1
        <3> QED
            BY <1>4, <1>5, <1>6, <2>1, <3>1
    <2>2. CASE ~(i =< n)
        <3>1. i - n \in 1 .. Len(last)
            BY <2>0, <2>2
        <3>2. done[i - n].request = last[i - n] /\ (own => done[i - n].answer = last[i - n])
            BY <3>1 DEF CallbacksOf
        <3>3. c[i] = done[i - n] /\ s[i] = last[i - n]
            BY <1>5, <1>6, <2>2
        <3> QED
            BY <3>2, <3>3
    <2> QED
        BY <2>1, <2>2
<1>9. ToSet(s) = ToSet(front) \cup ToSet(last)
    BY <1>3, ConcatHolds DEF s
<1>10. Distinct(s)
    <2>1. ToSet(front) \cap ToSet(last) = {}
        BY <1>1, <1>3
    <2> QED
        BY <1>3, <2>1, ConcatHolds DEF s
<1>11. Ran(s, own)
    <2>1. ToSet(s) \cap ToSet(Served) = {}
        BY <1>1, <1>3, <1>9
    <2>2. Len(c) = Len(s)
        BY <1>5, <1>6
    <2> QED
        BY <1>5, <1>6, <1>7, <1>8, <1>10, <2>1, <2>2 DEF Ran
<1>12. None \notin ToSet(front) \cup ToSet(rest) \cup ToSet(last)
    <2>1. \A t \in Seq(Requests) : ToSet(t) \subseteq Requests
        BY DEF ToSet
    <2> QED
        BY <1>3, <2>1 DEF RequestsAssumption
<1>13. CASE n < Len(q) /\ inprogress' = q[n + 1]
    <2>1. q[n + 1] # None
        BY <1>3, <1>13 DEF RequestsAssumption
    <2>2. /\ ToSet(q) = ToSet(front) \cup {inprogress'} \cup ToSet(rest)
          /\ inprogress' \notin ToSet(front) \cup ToSet(rest) /\ inprogress' # None
          /\ ipmi_msgq' = rest
        BY <1>2, <1>3, <1>13, <2>1
    <2>3. ToSet(s) \cap (ToSet(rest) \cup {inprogress'}) = {}
        BY <1>3, <1>9, <2>2
    <2>4. ToSet(s) \cup ((ToSet(rest) \cup {inprogress'}) \ {None}) = ToSet(q) \cup ToSet(last)
        BY <1>9, <1>12, <2>2
    <2> QED
        BY <1>3, <1>5, <1>11, <1>12, <2>2, <2>3, <2>4
<1>14. CASE n = Len(q) /\ inprogress' = None
    <2>1. ToSet(q) = ToSet(front) /\ ToSet(rest) = {} /\ ipmi_msgq' = rest /\ inprogress' = None
        BY <1>2, <1>3, <1>14
    <2>2. ToSet(s) \cap (ToSet(rest) \cup {inprogress'}) = {}
        BY <1>9, <1>12, <2>1
    <2>3. ToSet(s) \cup ((ToSet(rest) \cup {inprogress'}) \ {None}) = ToSet(q) \cup ToSet(last)
        BY <1>9, <2>1
    <2> QED
        BY <1>3, <1>5, <1>11, <1>12, <2>1, <2>2, <2>3
<1> QED
    BY <1>2, <1>13, <1>14

\* Nothing runs and nothing is sent, and the requests are where they were.
LEMMA AccountUndisturbed ==
    ASSUME RequestsAssumption, ListTyped, Accounted,
           UNCHANGED <<answered, issued>>,
           Distinct(ipmi_msgq'), inprogress' \notin ToSet(ipmi_msgq'),
           (ToSet(ipmi_msgq') \cup {inprogress'}) \ {None}
               = (ToSet(ipmi_msgq) \cup {inprogress}) \ {None}
    PROVE  Accounted' /\ Contract!Next
<1>1. Ran(<<>>, TRUE) /\ ToSet(<<>>) = {}
    BY NothingRan DEF ListTyped
<1> DEFINE s == <<>>
<1> HIDE DEF s
<1>2. Ran(s, TRUE) /\ ToSet(s) = {}
    BY <1>1 DEF s
<1>3. None \notin ToSet(Served)
    BY NoneNotServed DEF ListTyped
<1>4. /\ (ToSet(ipmi_msgq') \cup {inprogress'}) \cap (ToSet(Served) \cup ToSet(s)) = {}
      /\ ToSet(issued) \cup {}
            = (ToSet(ipmi_msgq') \cup {inprogress'} \cup ToSet(Served) \cup ToSet(s)) \ {None}
    BY <1>2, <1>3 DEF Accounted
<1> QED
    BY <1>2, <1>4, MovesKeepAccount DEF ListTyped

\* A send from the queue q, which has all that waited and what is newly sent.
LEMMA MoveAccounted ==
    ASSUME RequestsAssumption, ListTyped, Accounted,
           NEW sent,
           \/ sent = {} /\ issued' = issued
           \/ \E r \in Requests \ ToSet(issued) : sent = {r} /\ issued' = Append(issued, r),
           NEW q \in Seq(Requests), Distinct(q), ToSet(q) = ToSet(ipmi_msgq) \cup sent,
           NEW last \in Seq(Requests), Distinct(last), ToSet(last) = {inprogress} \ {None},
           NEW done \in Seq(Callbacks),
           NEW own, CallbacksOf(done, last, own),
           NEW n \in 0 .. Len(q), Move(q, n, done)
    PROVE  Accounted' /\ (own => Contract!Next)
<1>1. answered \in Seq(Callbacks) /\ issued \in Seq(Requests)
    BY DEF ListTyped
<1>2. None \notin ToSet(Served) /\ None \notin sent
    BY <1>1, NoneNotServed DEF RequestsAssumption
<1>3. sent \cap (ToSet(ipmi_msgq) \cup {inprogress} \cup ToSet(Served)) = {}
    BY <1>2 DEF Accounted
<1>4. ToSet(last) \cap ToSet(q) = {} /\ (ToSet(q) \cup ToSet(last)) \cap ToSet(Served) = {}
    BY <1>3 DEF Accounted
<1>5. PICK s : /\ Ran(s, own) /\ s \in Seq(Requests)
               /\ Distinct(ipmi_msgq') /\ inprogress' \notin ToSet(ipmi_msgq')
               /\ ToSet(s) \cap (ToSet(ipmi_msgq') \cup {inprogress'}) = {}
               /\ None \notin ToSet(ipmi_msgq')
               /\ ToSet(s) \cup ((ToSet(ipmi_msgq') \cup {inprogress'}) \ {None})
                     = ToSet(q) \cup ToSet(last)
    BY <1>1, <1>4, MoveRuns
<1>6. None \notin ToSet(s)
    BY <1>5 DEF ToSet, RequestsAssumption
<1>7. (ToSet(ipmi_msgq') \cup {inprogress'}) \cap (ToSet(Served) \cup ToSet(s)) = {}
    BY <1>2, <1>4, <1>5
<1>8. ToSet(issued) \cup sent
        = (ToSet(ipmi_msgq') \cup {inprogress'} \cup ToSet(Served) \cup ToSet(s)) \ {None}
    <2>1. ToSet(issued) \cup sent
            = ((ToSet(q) \cup ToSet(last)) \cup ToSet(Served)) \ {None}
        BY <1>2 DEF Accounted
    <2> QED
        BY <1>2, <1>5, <1>6, <2>1
<1> QED
    BY <1>1, <1>5, <1>6, <1>7, <1>8, MovesKeepAccount

LEMMA MayMoveAccounted ==
    ASSUME RequestsAssumption, ListTyped, Accounted,
           NEW sent,
           \/ sent = {} /\ issued' = issued
           \/ \E r \in Requests \ ToSet(issued) : sent = {r} /\ issued' = Append(issued, r),
           NEW q \in Seq(Requests), Distinct(q), ToSet(q) = ToSet(ipmi_msgq) \cup sent,
           MayMove(q)
    PROVE  Accounted' /\ Contract!Next
<1>1. <<>> \in Seq(Requests) /\ <<>> \in Seq(Callbacks) /\ Len(<<>>) = 0
    OBVIOUS
<1>2. Distinct(<<>>) /\ ToSet(<<>>) = {} /\ \A i \in 1 .. 0 : FALSE
    BY DEF Distinct, ToSet
<1> DEFINE none == <<>>
<1>3. /\ none \in Seq(Requests) /\ none \in Seq(Callbacks) /\ Len(none) = 0
      /\ Distinct(none) /\ ToSet(none) = {}
      /\ CallbacksOf(none, none, TRUE)
    BY <1>1, <1>2 DEF CallbacksOf
<1> HIDE DEF none
<1>4. CASE inprogress = None /\ \E n \in 0 .. Len(q) : Move(q, n, none)
    <2>1. ToSet(none) = {inprogress} \ {None}
        BY <1>3, <1>4
    <2>2. PICK n \in 0 .. Len(q) : Move(q, n, none)
        BY <1>4
    <2> QED
        BY <1>3, <2>1, <2>2, MoveAccounted
<1>5. CASE ipmi_msgq' = q /\ UNCHANGED <<inprogress, answered>>
    <2>1. answered \in Seq(Callbacks) /\ issued \in Seq(Requests)
        BY DEF ListTyped
    <2>2. Ran(none, TRUE)
        BY <1>5, <2>1, NothingRan DEF none
    <2>3. None \notin ToSet(Served) /\ None \notin sent
        BY <2>1, NoneNotServed DEF RequestsAssumption
    <2>4. sent \cap (ToSet(ipmi_msgq) \cup {inprogress} \cup ToSet(Served)) = {}
        BY <2>3 DEF Accounted
    <2>5. /\ Distinct(ipmi_msgq') /\ inprogress' \notin ToSet(ipmi_msgq')
          /\ (ToSet(ipmi_msgq') \cup {inprogress'}) \cap (ToSet(Served) \cup ToSet(none)) = {}
          /\ ToSet(issued) \cup sent
                = (ToSet(ipmi_msgq') \cup {inprogress'} \cup ToSet(Served) \cup ToSet(none)) \ {None}
        BY <1>3, <1>5, <2>3, <2>4 DEF Accounted
    <2> QED
        BY <1>3, <2>1, <2>2, <2>5, MovesKeepAccount
<1> QED
    BY <1>4, <1>5 DEF MayMove, none

LEMMA NewRequestAccounted ==
    ASSUME RequestsAssumption, ListTyped, Accounted,
           NEW r \in Requests \ ToSet(issued), issued' = Append(issued, r),
           MayMove(InsertLast(ipmi_msgq, r))
    PROVE  Accounted' /\ Contract!Next
<1> DEFINE q == InsertLast(ipmi_msgq, r)
           sent == {r}
<1>1. r \notin ToSet(ipmi_msgq)
    BY DEF Accounted, RequestsAssumption
<1>2. q \in Seq(Requests) /\ Distinct(q) /\ ToSet(q) = ToSet(ipmi_msgq) \cup sent
    BY <1>1, InsertLastHolds DEF ListTyped, Accounted
<1> HIDE DEF q
<1>3. MayMove(q)
    BY DEF q
<1>4. \E x \in Requests \ ToSet(issued) : sent = {x} /\ issued' = Append(issued, x)
    OBVIOUS
<1> HIDE DEF sent
<1> QED
    BY <1>2, <1>3, <1>4, MayMoveAccounted

LEMMA NextRequestAccounted ==
    ASSUME RequestsAssumption, ListTyped, Accounted,
           MayMove(ipmi_msgq), UNCHANGED issued
    PROVE  Accounted' /\ Contract!Next
<1> DEFINE sent == {}
<1>1. ToSet(ipmi_msgq) = ToSet(ipmi_msgq) \cup sent /\ sent = {}
    OBVIOUS
<1> HIDE DEF sent
<1> QED
    BY <1>1, MayMoveAccounted DEF ListTyped, Accounted

LEMMA TakeBackAccounted ==
    ASSUME RequestsAssumption, ListTyped, Accounted,
           ipmi_msgq' = IF inprogress = None THEN ipmi_msgq
                        ELSE InsertFirst(ipmi_msgq, inprogress),
           inprogress' = None, UNCHANGED <<answered, issued>>
    PROVE  Accounted' /\ Contract!Next
<1>1. CASE inprogress = None
    BY <1>1, AccountUndisturbed DEF Accounted
<1>2. CASE inprogress # None
    <2> DEFINE q == InsertFirst(ipmi_msgq, inprogress)
    <2>1. q \in Seq(Requests) /\ Distinct(q) /\ ToSet(q) = ToSet(ipmi_msgq) \cup {inprogress}
        BY <1>2, InsertFirstHolds DEF ListTyped, Accounted
    <2>2. ipmi_msgq' = q /\ inprogress' = None /\ UNCHANGED answered
        BY <1>2
    <2> HIDE DEF q
    <2>3. None \notin ToSet(q)
        BY <2>1 DEF ToSet, RequestsAssumption
    <2> QED
        BY <2>1, <2>2, <2>3, AccountUndisturbed
<1> QED
    BY <1>1, <1>2

\* The request in progress is given the answer to a; in what follows the
\* contract is kept only if that is its own.
LEMMA AnswerAccounted ==
    ASSUME RequestsAssumption, ListTyped, Accounted, UNCHANGED issued,
           inprogress \in Requests, NEW a \in Requests,
           \/ \E n \in 0 .. Len(ipmi_msgq) : Move(ipmi_msgq, n, <<Callback(inprogress, a)>>)
           \/ /\ inprogress' = None
              /\ answered' = Append(answered, Callback(inprogress, a))
              /\ UNCHANGED ipmi_msgq
    PROVE  Accounted' /\ (a = inprogress => Contract!Next)
<1> DEFINE last == <<inprogress>>
           done == <<Callback(inprogress, a)>>
           own == (a = inprogress)
<1>1. /\ last \in Seq(Requests) /\ Distinct(last) /\ ToSet(last) = {inprogress}
      /\ done \in Seq(Callbacks) /\ CallbacksOf(done, last, own)
    BY DEF Callback, Callbacks, Distinct, ToSet, CallbacksOf
<1>2. \/ \E n \in 0 .. Len(ipmi_msgq) : Move(ipmi_msgq, n, done)
      \/ /\ inprogress' = None
         /\ answered' = answered \o done
         /\ UNCHANGED ipmi_msgq
    <2>1. Callback(inprogress, a) \in Callbacks /\ answered \in Seq(Callbacks)
        BY DEF Callback, Callbacks, ListTyped
    <2>2. Append(answered, Callback(inprogress, a)) = answered \o done
        BY <2>1, AppendIsConcat
    <2> QED
        BY <2>2
<1>3. inprogress # None
    BY DEF RequestsAssumption
<1> DEFINE sent == {}
<1>4. sent = {} /\ ToSet(ipmi_msgq) = ToSet(ipmi_msgq) \cup sent /\ own \in BOOLEAN
    OBVIOUS
<1> HIDE DEF last, done, sent
<1>5. CASE \E n \in 0 .. Len(ipmi_msgq) : Move(ipmi_msgq, n, done)
    <2>1. PICK n \in 0 .. Len(ipmi_msgq) : Move(ipmi_msgq, n, done)
        BY <1>5
    <2>2. ToSet(last) = {inprogress} \ {None}
        BY <1>1, <1>3
    <2> HIDE DEF own
    <2>3. Accounted' /\ (own => Contract!Next)
        BY <1>1, <1>4, <2>1, <2>2, MoveAccounted DEF ListTyped, Accounted
    <2> QED
        BY <2>3 DEF own
<1>6. CASE inprogress' = None /\ answered' = answered \o done /\ UNCHANGED ipmi_msgq
    <2>1. /\ answered \in Seq(Callbacks) /\ issued \in Seq(Requests)
          /\ None \notin ToSet(Served)
        BY NoneNotServed DEF ListTyped
    <2>2. Ran(last, own)
        BY <1>1, <1>6 DEF Ran, Accounted, CallbacksOf
    <2>3. None \notin ToSet(ipmi_msgq)
        BY DEF ListTyped, ToSet, RequestsAssumption
    <2>4. /\ Distinct(ipmi_msgq') /\ inprogress' \notin ToSet(ipmi_msgq')
          /\ (ToSet(ipmi_msgq') \cup {inprogress'}) \cap (ToSet(Served) \cup ToSet(last)) = {}
          /\ ToSet(issued) \cup sent
                = (ToSet(ipmi_msgq') \cup {inprogress'} \cup ToSet(Served) \cup ToSet(last)) \ {None}
        BY <1>1, <1>3, <1>4, <1>6, <2>1, <2>3 DEF Accounted
    <2>5. None \notin ToSet(last)
        BY <1>1, <1>3
    <2> QED
        BY <1>4, <2>1, <2>2, <2>4, <2>5, MovesKeepAccount
<1> QED
    BY <1>2, <1>5, <1>6

-----------------------------------------------------------------------------
(* The order of the queue *)

\* More urgent requests stand before less urgent ones.
Sorted(q) == \A i, j \in DOMAIN q : i < j => Priority[q[i]] =< Priority[q[j]]

\* The places that the list operators count are those at the front.
LEMMA CountedInFront ==
    ASSUME NEW n \in Nat, NEW I \in SUBSET (1 .. n),
           \A i \in I, j \in 1 .. n : j < i => j \in I
    PROVE  \A i \in 1 .. n : i \in I <=> i =< Cardinality(I)
<1>1. n \in Int /\ 1 \in Int
    OBVIOUS
<1>2. IsFiniteSet(1 .. n)
    BY <1>1, FS_Interval
<1>3. IsFiniteSet(I) /\ Cardinality(I) =< Cardinality(1 .. n)
    BY <1>2, FS_Subset
<1>4. Cardinality(I) \in Nat
    BY <1>3, FS_CardinalityType
<1>5. ASSUME NEW k \in Nat
      PROVE  IsFiniteSet(1 .. k) /\ Cardinality(1 .. k) = k
    <2>1. k \in Int /\ (IF 1 > k THEN 0 ELSE k - 1 + 1) = k
        OBVIOUS
    <2> QED
        BY <1>1, <2>1, FS_Interval
<1>6. ASSUME NEW i \in I
      PROVE  i =< Cardinality(I)
    <2>1. i \in Nat /\ 1 .. i \in SUBSET I
        OBVIOUS
    <2>2. Cardinality(1 .. i) =< Cardinality(I)
        BY <1>3, <2>1, FS_Subset
    <2> QED
        BY <1>5, <2>1, <2>2
<1>7. I \in SUBSET (1 .. Cardinality(I))
    BY <1>4, <1>6
<1>8. I = 1 .. Cardinality(I)
    <2>1. Cardinality(1 .. Cardinality(I)) = Cardinality(I) /\ IsFiniteSet(1 .. Cardinality(I))
        BY <1>4, <1>5
    <2> QED
        BY <1>7, <2>1, FS_Subset
<1> QED
    BY <1>4, <1>8

\* A request put where those before it are at least as urgent, and those
\* after it at most, leaves the queue sorted.
LEMMA InsertSorts ==
    ASSUME RequestsAssumption,
           NEW q \in Seq(Requests), NEW r \in Requests, NEW n \in 0 .. Len(q), Sorted(q),
           \A i \in 1 .. Len(q) : i =< n => Priority[q[i]] =< Priority[r],
           \A i \in 1 .. Len(q) : i > n => Priority[r] =< Priority[q[i]]
    PROVE  Sorted(InsertAt(q, n + 1, r))
<1> DEFINE t == InsertAt(q, n + 1, r)
<1>1. InsertedAt(q, n, r, t)
    BY InsertPlaces
<1> HIDE DEF t
<1>2. Len(q) \in Nat /\ DOMAIN q = 1 .. Len(q) /\ n \in Nat
    OBVIOUS
<1>3. /\ DOMAIN t = 1 .. Len(q) + 1
      /\ \A i \in 1 .. Len(q) + 1 :
          \/ i =< n /\ i \in 1 .. n /\ i \in 1 .. Len(q) /\ t[i] = q[i]
          \/ i = n + 1 /\ t[i] = r
          \/ i > n + 1 /\ i - 1 \in 1 .. Len(q) /\ i - 1 > n /\ t[i] = q[i - 1]
    BY <1>1 DEF InsertedAt
<1>4. \A i, j \in 1 .. Len(q) : i < j => Priority[q[i]] =< Priority[q[j]]
    BY <1>2 DEF Sorted
<1> DEFINE p == [i \in 1 .. Len(q) |-> Priority[q[i]]]
           pr == Priority[r]
<1>5. pr \in Int /\ \A i \in 1 .. Len(q) : p[i] \in Int
    BY DEF RequestsAssumption
<1>6. /\ \A i, j \in 1 .. Len(q) : i < j => p[i] =< p[j]
      /\ \A i \in 1 .. Len(q) : i =< n => p[i] =< pr
      /\ \A i \in 1 .. Len(q) : i > n => pr =< p[i]
    BY <1>4
<1>7. \A i \in 1 .. Len(q) + 1 :
          \/ i =< n /\ i \in 1 .. Len(q) /\ Priority[t[i]] = p[i]
          \/ i = n + 1 /\ Priority[t[i]] = pr
          \/ i > n + 1 /\ i - 1 \in 1 .. Len(q) /\ i - 1 > n /\ Priority[t[i]] = p[i - 1]
    BY <1>3
<1> HIDE DEF p, pr
<1>8. ASSUME NEW i \in 1 .. Len(q) + 1, NEW j \in 1 .. Len(q) + 1, i < j
      PROVE  Priority[t[i]] =< Priority[t[j]]
    <2>1. CASE i =< n /\ i \in 1 .. Len(q) /\ Priority[t[i]] = p[i]
        <3>1. CASE j =< n /\ j \in 1 .. Len(q) /\ Priority[t[j]] = p[j]
            BY <1>6, <1>8, <2>1, <3>1
        <3>2. CASE j = n + 1 /\ Priority[t[j]] = pr
            BY <1>6, <2>1, <3>2
        <3>3. CASE j > n + 1 /\ j - 1 \in 1 .. Len(q) /\ j - 1 > n /\ Priority[t[j]] = p[j - 1]
            <4>1. i < j - 1
                BY <1>2, <2>1, <3>3
            <4> QED
                BY <1>6, <2>1, <3>3, <4>1
        <3> QED
            BY <1>7, <3>1, <3>2, <3>3
    <2>2. CASE i = n + 1 /\ Priority[t[i]] = pr
        <3>1. j > n + 1
            BY <1>8, <2>2
        <3>2. j - 1 \in 1 .. Len(q) /\ j - 1 > n /\ Priority[t[j]] = p[j - 1]
            BY <1>2, <1>7, <3>1
        <3> QED
            BY <1>6, <2>2, <3>2
    <2>3. CASE i > n + 1 /\ i - 1 \in 1 .. Len(q) /\ i - 1 > n /\ Priority[t[i]] = p[i - 1]
        <3>1. j > n + 1 /\ i - 1 < j - 1
            BY <1>2, <1>8, <2>3
        <3>2. j \in 1 .. Len(q) + 1 /\ j > n + 1
            BY <1>2, <2>3, <3>1
        <3>3. j - 1 \in 1 .. Len(q) /\ Priority[t[j]] = p[j - 1]
            BY <1>2, <1>7, <3>2
        <3> QED
            BY <1>6, <2>3, <3>1, <3>3
    <2> QED
        BY <1>7, <2>1, <2>2, <2>3
<1>9. Sorted(t)
    BY <1>3, <1>8 DEF Sorted
<1> QED
    BY <1>9 DEF t

\* Where a sorted queue takes a request: behind all that are as urgent, or
\* before them.
LEMMA InsertLastPlace ==
    ASSUME RequestsAssumption, NEW q \in Seq(Requests), NEW r \in Requests, Sorted(q)
    PROVE  \E n \in 0 .. Len(q) :
               /\ InsertLast(q, r) = InsertAt(q, n + 1, r)
               /\ \A i \in 1 .. Len(q) : i =< n <=> Priority[q[i]] =< Priority[r]
<1> DEFINE I == {i \in DOMAIN q : Priority[q[i]] =< Priority[r]}
           n == Cardinality(I)
<1>1. n \in 0 .. Len(q)
    BY CountInQueue
<1>2. Len(q) \in Nat /\ DOMAIN q = 1 .. Len(q) /\ I \in SUBSET (1 .. Len(q))
    OBVIOUS
<1>3. Priority[r] \in Int /\ \A i \in 1 .. Len(q) : Priority[q[i]] \in Int
    BY DEF RequestsAssumption
<1>4. \A i \in I, j \in 1 .. Len(q) : j < i => j \in I
    <2> SUFFICES ASSUME NEW i \in I, NEW j \in 1 .. Len(q), j < i
                 PROVE  Priority[q[j]] =< Priority[r]
        BY <1>2
    <2>1. i \in 1 .. Len(q) /\ Priority[q[i]] =< Priority[r]
        BY <1>2
    <2>2. Priority[q[j]] =< Priority[q[i]]
        BY <1>2, <2>1 DEF Sorted
    <2> QED
        BY <1>3, <2>1, <2>2
<1>5. \A i \in 1 .. Len(q) : i \in I <=> Priority[q[i]] =< Priority[r]
    BY <1>2
<1>6. InsertLast(q, r) = InsertAt(q, n + 1, r)
    BY DEF InsertLast
<1> HIDE DEF I
<1>7. \A i \in 1 .. Len(q) : i \in I <=> i =< n
    BY <1>2, <1>4, CountedInFront
<1> HIDE DEF n
<1> QED
    BY <1>1, <1>5, <1>6, <1>7

LEMMA InsertFirstPlace ==
    ASSUME RequestsAssumption, NEW q \in Seq(Requests), NEW r \in Requests, Sorted(q)
    PROVE  \E n \in 0 .. Len(q) :
               /\ InsertFirst(q, r) = InsertAt(q, n + 1, r)
               /\ \A i \in 1 .. Len(q) : i =< n <=> Priority[q[i]] < Priority[r]
<1> DEFINE I == {i \in DOMAIN q : Priority[q[i]] < Priority[r]}
           n == Cardinality(I)
<1>1. n \in 0 .. Len(q)
    BY CountInQueue
<1>2. Len(q) \in Nat /\ DOMAIN q = 1 .. Len(q) /\ I \in SUBSET (1 .. Len(q))
    OBVIOUS
<1>3. Priority[r] \in Int /\ \A i \in 1 .. Len(q) : Priority[q[i]] \in Int
    BY DEF RequestsAssumption
<1>4. \A i \in I, j \in 1 .. Len(q) : j < i => j \in I
    <2> SUFFICES ASSUME NEW i \in I, NEW j \in 1 .. Len(q), j < i
                 PROVE  Priority[q[j]] < Priority[r]
        BY <1>2
    <2>1. i \in 1 .. Len(q) /\ Priority[q[i]] < Priority[r]
        BY <1>2
    <2>2. Priority[q[j]] =< Priority[q[i]]
        BY <1>2, <2>1 DEF Sorted
    <2> QED
        BY <1>3, <2>1, <2>2
<1>5. \A i \in 1 .. Len(q) : i \in I <=> Priority[q[i]] < Priority[r]
    BY <1>2
<1>6. InsertFirst(q, r) = InsertAt(q, n + 1, r)
    BY DEF InsertFirst
<1> HIDE DEF I
<1>7. \A i \in 1 .. Len(q) : i \in I <=> i =< n
    BY <1>2, <1>4, CountedInFront
<1> HIDE DEF n
<1> QED
    BY <1>1, <1>5, <1>6, <1>7

LEMMA InsertLastSorts ==
    ASSUME RequestsAssumption, NEW q \in Seq(Requests), NEW r \in Requests, Sorted(q)
    PROVE  Sorted(InsertLast(q, r))
<1>1. PICK n \in 0 .. Len(q) :
          /\ InsertLast(q, r) = InsertAt(q, n + 1, r)
          /\ \A i \in 1 .. Len(q) : i =< n <=> Priority[q[i]] =< Priority[r]
    BY InsertLastPlace
<1>2. Priority[r] \in Int /\ \A i \in 1 .. Len(q) : Priority[q[i]] \in Int
    BY DEF RequestsAssumption
<1>3. /\ \A i \in 1 .. Len(q) : i =< n => Priority[q[i]] =< Priority[r]
      /\ \A i \in 1 .. Len(q) : i > n => Priority[r] =< Priority[q[i]]
    BY <1>1, <1>2
<1> QED
    BY <1>1, <1>3, InsertSorts

LEMMA InsertFirstSorts ==
    ASSUME RequestsAssumption, NEW q \in Seq(Requests), NEW r \in Requests, Sorted(q)
    PROVE  Sorted(InsertFirst(q, r))
<1>1. PICK n \in 0 .. Len(q) :
          /\ InsertFirst(q, r) = InsertAt(q, n + 1, r)
          /\ \A i \in 1 .. Len(q) : i =< n <=> Priority[q[i]] < Priority[r]
    BY InsertFirstPlace
<1>2. Priority[r] \in Int /\ \A i \in 1 .. Len(q) : Priority[q[i]] \in Int
    BY DEF RequestsAssumption
<1>3. /\ \A i \in 1 .. Len(q) : i =< n => Priority[q[i]] =< Priority[r]
      /\ \A i \in 1 .. Len(q) : i > n => Priority[r] =< Priority[q[i]]
    BY <1>1, <1>2
<1> QED
    BY <1>1, <1>3, InsertSorts

\* What is left of a queue when its first n + 1 requests are gone.
LEMMA RestPlaces ==
    ASSUME NEW q \in Seq(Requests), NEW n \in 0 .. Len(q)
    PROVE  LET s == SubSeq(q, n + 2, Len(q))
           IN  /\ s \in Seq(Requests) /\ DOMAIN s = 1 .. Len(s)
               /\ \A i \in 1 .. Len(s) : /\ (n + 1) + i \in 1 .. Len(q) /\ n + 1 < (n + 1) + i
                                         /\ s[i] = q[(n + 1) + i]
<1> DEFINE s == SubSeq(q, n + 2, Len(q))
<1>1. /\ n \in Nat /\ n + 2 \in Int /\ Len(q) \in Nat /\ DOMAIN q = 1 .. Len(q)
      /\ \A k \in n + 2 .. Len(q) : q[k] \in Requests
    OBVIOUS
<1>2. /\ s \in Seq(Requests)
      /\ Len(s) = IF n + 2 =< Len(q) THEN Len(q) - (n + 2) + 1 ELSE 0
      /\ \A i \in 1 .. Len(q) - (n + 2) + 1 : s[i] = q[n + 2 + i - 1]
    BY <1>1, SubSeqProperties
<1>3. DOMAIN s = 1 .. Len(s)
    BY <1>2
<1> HIDE DEF s
<1>4. \A i \in 1 .. Len(s) : /\ (n + 1) + i \in 1 .. Len(q) /\ n + 1 < (n + 1) + i
                             /\ s[i] = q[(n + 1) + i]
    <2> SUFFICES ASSUME NEW i \in 1 .. Len(s)
                 PROVE  /\ (n + 1) + i \in 1 .. Len(q) /\ n + 1 < (n + 1) + i
                        /\ s[i] = q[(n + 1) + i]
        OBVIOUS
    <2>1. n + 2 =< Len(q) /\ i \in 1 .. Len(q) - (n + 2) + 1
        BY <1>2
    <2>2. n + 2 + i - 1 = (n + 1) + i
        BY <1>1
    <2>3. s[i] = q[(n + 1) + i]
        BY <1>2, <2>1, <2>2
    <2> QED
        BY <1>1, <2>1, <2>3
<1> QED
    BY <1>2, <1>3, <1>4 DEF s

\* What is left of a sorted queue is sorted.
LEMMA RestSorted ==
    ASSUME NEW q \in Seq(Requests), NEW n \in 0 .. Len(q), Sorted(q)
    PROVE  /\ Sorted(SubSeq(q, n + 2, Len(q)))
           /\ n < Len(q) => \A r \in ToSet(SubSeq(q, n + 2, Len(q))) :
                                Priority[q[n + 1]] =< Priority[r]
<1> DEFINE s == SubSeq(q, n + 2, Len(q))
<1>1. n \in Nat /\ Len(q) \in Nat /\ DOMAIN q = 1 .. Len(q)
    OBVIOUS
<1>2. /\ DOMAIN s = 1 .. Len(s)
      /\ \A i \in 1 .. Len(s) : /\ (n + 1) + i \in 1 .. Len(q) /\ n + 1 < (n + 1) + i
                                /\ s[i] = q[(n + 1) + i]
    BY RestPlaces
<1> HIDE DEF s
<1>3. Sorted(s)
    <2>1. \A i, j \in 1 .. Len(s) : i < j => (n + 1) + i < (n + 1) + j
        BY <1>1
    <2> QED
        BY <1>1, <1>2, <2>1 DEF Sorted
<1>4. n < Len(q) => \A r \in ToSet(s) : Priority[q[n + 1]] =< Priority[r]
    <2>1. n < Len(q) => n + 1 \in 1 .. Len(q)
        BY <1>1
    <2> QED
        BY <1>1, <1>2, <2>1 DEF Sorted, ToSet
<1> QED
    BY <1>3, <1>4 DEF s

-----------------------------------------------------------------------------
(* The order of the whole line *)

\* The requests of S in A were sent before those in B that have their priority.
Ahead(A, B, sent, S) ==
    \A a \in A, b \in B :
        a \in S /\ b \in S /\ Priority[a] = Priority[b] => Before(sent, a, b)

\* Where everything is in two sequences in a row.
LEMMA ConcatPlaces ==
    ASSUME NEW S, NEW p \in Seq(S), NEW q \in Seq(S)
    PROVE  LET v == p \o q
           IN  /\ v \in Seq(S) /\ DOMAIN v = 1 .. Len(p) + Len(q)
               /\ \A i \in 1 .. Len(p) : i \in DOMAIN v /\ v[i] = p[i]
               /\ \A i \in 1 .. Len(q) : Len(p) + i \in DOMAIN v /\ v[Len(p) + i] = q[i]
               /\ \A i \in DOMAIN v : \/ i \in 1 .. Len(p) /\ v[i] = p[i]
                                      \/ /\ i > Len(p) /\ i - Len(p) \in 1 .. Len(q)
                                         /\ v[i] = q[i - Len(p)]
<1> DEFINE n == Len(p)
           m == Len(q)
           v == p \o q
<1>1. n \in Int /\ n >= 0 /\ m \in Int /\ m >= 0
    OBVIOUS
<1>2. /\ v \in Seq(S) /\ Len(v) = n + m
      /\ \A i \in 1 .. n + m : v[i] = IF i =< n THEN p[i] ELSE q[i - n]
    BY ConcatProperties
<1>3. DOMAIN v = 1 .. n + m
    BY <1>2
<1> HIDE DEF n, m, v
<1>4. \A i \in 1 .. n : i \in 1 .. n + m /\ v[i] = p[i]
    BY <1>1, <1>2
<1>5. ASSUME NEW i \in 1 .. m
      PROVE  n + i \in 1 .. n + m /\ v[n + i] = q[i]
    <2>1. n + i \in 1 .. n + m /\ ~(n + i =< n) /\ (n + i) - n = i
        BY <1>1
    <2>2. v[n + i] = IF n + i =< n THEN p[n + i] ELSE q[(n + i) - n]
        BY <1>2, <2>1
    <2>3. v[n + i] = q[(n + i) - n]
        BY <2>1, <2>2
    <2> QED
        BY <2>1, <2>3
<1>6. ASSUME NEW i \in 1 .. n + m
      PROVE  (i \in 1 .. n /\ v[i] = p[i]) \/ (i > n /\ i - n \in 1 .. m /\ v[i] = q[i - n])
    <2>1. CASE i =< n
        BY <1>1, <1>4, <2>1
    <2>2. CASE ~(i =< n)
        <3>1. i > n /\ i - n \in 1 .. m
            BY <1>1, <2>2
        <3> QED
            BY <1>2, <2>2, <3>1
    <2> QED
        BY <2>1, <2>2
<1>7. /\ v \in Seq(S) /\ DOMAIN v = 1 .. n + m
      /\ \A i \in 1 .. n : i \in DOMAIN v /\ v[i] = p[i]
      /\ \A i \in 1 .. m : n + i \in DOMAIN v /\ v[n + i] = q[i]
      /\ \A i \in DOMAIN v : \/ i \in 1 .. n /\ v[i] = p[i]
                             \/ i > n /\ i - n \in 1 .. m /\ v[i] = q[i - n]
    BY <1>2, <1>3, <1>4, <1>5, <1>6
<1> QED
    BY <1>7 DEF n, m, v

\* Two sequences in a row keep the order when each does and the first is ahead.
LEMMA ConcatOrder ==
    ASSUME NEW T, NEW p \in Seq(T), NEW q \in Seq(T), NEW sent, NEW S,
           KeepsOrder(p, sent, S), KeepsOrder(q, sent, S),
           Ahead(ToSet(p), ToSet(q), sent, S)
    PROVE  KeepsOrder(p \o q, sent, S)
<1> DEFINE n == Len(p)
           m == Len(q)
           v == p \o q
<1>1. /\ DOMAIN v = 1 .. n + m
      /\ \A i \in DOMAIN v : \/ i \in 1 .. n /\ v[i] = p[i]
                             \/ i > n /\ i - n \in 1 .. m /\ v[i] = q[i - n]
    BY ConcatPlaces
<1>2. DOMAIN p = 1 .. n /\ DOMAIN q = 1 .. m /\ n \in Int /\ m \in Int
    OBVIOUS
<1> HIDE DEF n, m, v
<1>3. ASSUME NEW i \in DOMAIN v, NEW j \in DOMAIN v, i < j,
             v[i] \in S, v[j] \in S, Priority[v[i]] = Priority[v[j]]
      PROVE  Before(sent, v[i], v[j])
    <2>1. i \in Int /\ j \in Int
        BY <1>1, <1>2
    <2>2. CASE j \in 1 .. n /\ v[j] = p[j]
        <3>1. i \in 1 .. n /\ v[i] = p[i]
            BY <1>1, <1>2, <1>3, <2>1, <2>2
        <3> QED
            BY <1>2, <1>3, <2>2, <3>1 DEF KeepsOrder
    <2>3. CASE j > n /\ j - n \in 1 .. m /\ v[j] = q[j - n]
        <3>1. CASE i \in 1 .. n /\ v[i] = p[i]
            BY <1>2, <1>3, <2>3, <3>1 DEF Ahead, ToSet
        <3>2. CASE i > n /\ i - n \in 1 .. m /\ v[i] = q[i - n]
            <4>1. i - n < j - n
                BY <1>2, <1>3, <2>1
            <4> QED
                BY <1>2, <1>3, <2>3, <3>2, <4>1 DEF KeepsOrder
        <3> QED
            BY <1>1, <3>1, <3>2
    <2> QED
        BY <1>1, <2>2, <2>3
<1>4. KeepsOrder(v, sent, S)
    BY <1>3 DEF KeepsOrder
<1> QED
    BY <1>4 DEF v

\* What was sent in some order stays so when one request more is sent, and the
\* new one comes after all.
LEMMA SentLater ==
    ASSUME NEW sent \in Seq(Requests), NEW r \in Requests
    PROVE  /\ \A a, b : Before(sent, a, b) => Before(Append(sent, r), a, b)
           /\ \A a \in ToSet(sent) : Before(Append(sent, r), a, r)
<1> DEFINE t == Append(sent, r)
<1>1. /\ DOMAIN t = DOMAIN sent \cup {Len(sent) + 1}
      /\ \A i \in DOMAIN sent : t[i] = sent[i]
      /\ t[Len(sent) + 1] = r
    BY AppendPlaces
<1>2. \A i \in DOMAIN sent : i < Len(sent) + 1
    OBVIOUS
<1> HIDE DEF t
<1>3. \A a, b : Before(sent, a, b) => Before(t, a, b)
    BY <1>1 DEF Before
<1>4. \A a \in ToSet(sent) : Before(t, a, r)
    BY <1>1, <1>2 DEF Before, ToSet
<1> QED
    BY <1>3, <1>4 DEF t

\* A request put behind all of its priority that were sent before it, and
\* before all that were sent after it, keeps the order.
LEMMA InsertOrder ==
    ASSUME NEW q \in Seq(Requests), NEW r \in Requests, NEW n \in 0 .. Len(q), NEW sent, NEW S,
           KeepsOrder(q, sent, S),
           \A i \in 1 .. Len(q) : i =< n /\ q[i] \in S /\ r \in S /\ Priority[q[i]] = Priority[r]
                => Before(sent, q[i], r),
           \A i \in 1 .. Len(q) : i > n /\ q[i] \in S /\ r \in S /\ Priority[q[i]] = Priority[r]
                => Before(sent, r, q[i])
    PROVE  KeepsOrder(InsertAt(q, n + 1, r), sent, S)
<1> DEFINE t == InsertAt(q, n + 1, r)
<1>1. InsertedAt(q, n, r, t)
    BY InsertPlaces
<1> HIDE DEF t
<1>2. Len(q) \in Nat /\ DOMAIN q = 1 .. Len(q) /\ n \in Nat
    OBVIOUS
<1>3. /\ DOMAIN t = 1 .. Len(q) + 1
      /\ \A i \in 1 .. Len(q) + 1 :
          \/ i =< n /\ i \in 1 .. Len(q) /\ t[i] = q[i]
          \/ i = n + 1 /\ t[i] = r
          \/ i > n + 1 /\ i - 1 \in 1 .. Len(q) /\ i - 1 > n /\ t[i] = q[i - 1]
    BY <1>1 DEF InsertedAt
<1>4. ASSUME NEW i \in 1 .. Len(q) + 1, NEW j \in 1 .. Len(q) + 1, i < j,
             t[i] \in S, t[j] \in S, Priority[t[i]] = Priority[t[j]]
      PROVE  Before(sent, t[i], t[j])
    <2>1. CASE i =< n /\ i \in 1 .. Len(q) /\ t[i] = q[i]
        <3>1. CASE j =< n /\ j \in 1 .. Len(q) /\ t[j] = q[j]
            BY <1>2, <1>4, <2>1, <3>1 DEF KeepsOrder
        <3>2. CASE j = n + 1 /\ t[j] = r
            BY <1>4, <2>1, <3>2
        <3>3. CASE j > n + 1 /\ j - 1 \in 1 .. Len(q) /\ j - 1 > n /\ t[j] = q[j - 1]
            <4>1. i < j - 1
                BY <1>2, <2>1, <3>3
            <4> QED
                BY <1>2, <1>4, <2>1, <3>3, <4>1 DEF KeepsOrder
        <3> QED
            BY <1>3, <3>1, <3>2, <3>3
    <2>2. CASE i = n + 1 /\ t[i] = r
        <3>1. j > n + 1
            BY <1>4, <2>2
        <3>2. j - 1 \in 1 .. Len(q) /\ j - 1 > n /\ t[j] = q[j - 1]
            BY <1>2, <1>3, <3>1
        <3> QED
            BY <1>4, <2>2, <3>2
    <2>3. CASE i > n + 1 /\ i - 1 \in 1 .. Len(q) /\ i - 1 > n /\ t[i] = q[i - 1]
        <3>1. j > n + 1 /\ i - 1 < j - 1
            BY <1>2, <1>4, <2>3
        <3>2. j - 1 \in 1 .. Len(q) /\ t[j] = q[j - 1]
            BY <1>2, <1>3, <2>3, <3>1
        <3> QED
            BY <1>2, <1>4, <2>3, <3>1, <3>2 DEF KeepsOrder
    <2> QED
        BY <1>3, <2>1, <2>2, <2>3
<1>5. KeepsOrder(t, sent, S)
    BY <1>3, <1>4 DEF KeepsOrder
<1> QED
    BY <1>5 DEF t

\* The order of everything on a link: the requests served, then the one in the
\* slot, then those that wait, each group ahead of the next.
InLine(served, slot, q, sent, S) ==
    /\ Sorted(q)
    /\ KeepsOrder(served, sent, S)
    /\ KeepsOrder(q, sent, S)
    /\ Ahead(ToSet(served), {slot} \cup ToSet(q), sent, S)
    /\ Ahead({slot}, ToSet(q), sent, S)

\* Then the whole line keeps the order.
LEMMA LineOrder ==
    ASSUME NEW served \in Seq(Requests), NEW slot \in Requests \cup {None},
           NEW q \in Seq(Requests), NEW sent, NEW S, InLine(served, slot, q, sent, S)
    PROVE  KeepsOrder(served \o <<slot>> \o q, sent, S)
<1> DEFINE T == Requests \cup {None}
           one == <<slot>>
           head == served \o one
<1>1. served \in Seq(T) /\ one \in Seq(T) /\ q \in Seq(T)
    OBVIOUS
<1>2. ToSet(one) = {slot} /\ KeepsOrder(one, sent, S)
    BY DEF ToSet, KeepsOrder
<1> HIDE DEF one, T
<1>3. Ahead(ToSet(served), ToSet(one), sent, S)
    BY <1>2 DEF InLine, Ahead
<1>4. head \in Seq(T) /\ ToSet(head) = ToSet(served) \cup ToSet(one)
    BY <1>1, ConcatProperties, ConcatHolds
<1>5. KeepsOrder(head, sent, S)
    BY <1>1, <1>2, <1>3, ConcatOrder DEF InLine
<1> HIDE DEF head
<1>6. Ahead(ToSet(head), ToSet(q), sent, S)
    BY <1>2, <1>4 DEF InLine, Ahead
<1>7. KeepsOrder(head \o q, sent, S)
    BY <1>1, <1>4, <1>5, <1>6, ConcatOrder DEF InLine
<1> QED
    BY <1>7 DEF head, one

\* A new request takes its place behind those of its priority.
LEMMA NewInLine ==
    ASSUME RequestsAssumption,
           NEW served \in Seq(Requests), NEW slot \in Requests \cup {None},
           NEW q \in Seq(Requests), NEW sent \in Seq(Requests), NEW S \in SUBSET Requests,
           InLine(served, slot, q, sent, S),
           NEW r \in Requests, ToSet(served) \cup {slot} \cup ToSet(q) \subseteq ToSet(sent) \cup {None}
    PROVE  InLine(served, slot, InsertLast(q, r), Append(sent, r), S)
<1> DEFINE later == Append(sent, r)
           t == InsertLast(q, r)
<1>1. /\ \A a, b : Before(sent, a, b) => Before(later, a, b)
      /\ \A a \in ToSet(sent) : Before(later, a, r)
    BY SentLater
<1> HIDE DEF later
<1>2. None \notin S
    BY DEF RequestsAssumption
<1>3. KeepsOrder(served, later, S) /\ KeepsOrder(q, later, S)
    BY <1>1 DEF InLine, KeepsOrder
<1>4. /\ Ahead(ToSet(served), {slot} \cup ToSet(q), later, S)
      /\ Ahead({slot}, ToSet(q), later, S)
    BY <1>1 DEF InLine, Ahead
<1>5. Sorted(t) /\ t \in Seq(Requests)
    BY InsertLastSorts, InsertIsQueue DEF InLine
<1>6. ToSet(t) \subseteq ToSet(q) \cup {r}
    BY InsertLastHolds
<1>7. KeepsOrder(t, later, S)
    <2>1. PICK n \in 0 .. Len(q) :
              /\ InsertLast(q, r) = InsertAt(q, n + 1, r)
              /\ \A i \in 1 .. Len(q) : i =< n <=> Priority[q[i]] =< Priority[r]
        BY InsertLastPlace DEF InLine
    <2>2. \A i \in 1 .. Len(q) : q[i] \in S => Before(later, q[i], r)
        <3>1. DOMAIN q = 1 .. Len(q)
            OBVIOUS
        <3> QED
            BY <1>1, <1>2, <3>1 DEF ToSet
    <2>3. Priority[r] \in Int /\ \A i \in 1 .. Len(q) : i \in Int
        BY DEF RequestsAssumption
    <2>4. \A i \in 1 .. Len(q) : i > n => Priority[q[i]] # Priority[r]
        BY <2>1, <2>3
    <2>5. KeepsOrder(InsertAt(q, n + 1, r), later, S)
        BY <1>3, <2>2, <2>4, InsertOrder
    <2> QED
        BY <2>1, <2>5
<1>8. \A a \in ToSet(served) \cup {slot} : a \in S => Before(later, a, r)
    BY <1>1, <1>2
<1> HIDE DEF t
<1>9. /\ Ahead(ToSet(served), {slot} \cup ToSet(t), later, S)
      /\ Ahead({slot}, ToSet(t), later, S)
    BY <1>4, <1>6, <1>8 DEF Ahead
<1>10. InLine(served, slot, t, later, S)
    BY <1>3, <1>5, <1>7, <1>9 DEF InLine
<1> QED
    BY <1>10 DEF t, later

\* The request in the slot goes back before those of its priority.
LEMMA BackInLine ==
    ASSUME RequestsAssumption,
           NEW served, NEW slot \in Requests, NEW q \in Seq(Requests),
           NEW sent, NEW S \in SUBSET Requests, InLine(served, slot, q, sent, S)
    PROVE  InLine(served, None, InsertFirst(q, slot), sent, S)
<1> DEFINE t == InsertFirst(q, slot)
<1>1. Sorted(t) /\ None \notin S
    BY InsertFirstSorts DEF InLine, RequestsAssumption
<1>2. ToSet(t) \subseteq ToSet(q) \cup {slot}
    BY InsertFirstHolds
<1>3. KeepsOrder(t, sent, S)
    <2>1. PICK n \in 0 .. Len(q) :
              /\ InsertFirst(q, slot) = InsertAt(q, n + 1, slot)
              /\ \A i \in 1 .. Len(q) : i =< n <=> Priority[q[i]] < Priority[slot]
        BY InsertFirstPlace DEF InLine
    <2>2. \A i \in 1 .. Len(q) : slot \in S /\ q[i] \in S /\ Priority[q[i]] = Priority[slot]
              => Before(sent, slot, q[i])
        <3>1. DOMAIN q = 1 .. Len(q)
            OBVIOUS
        <3> QED
            BY <3>1 DEF InLine, Ahead, ToSet
    <2>3. Priority[slot] \in Int
        BY DEF RequestsAssumption
    <2>4. \A i \in 1 .. Len(q) : i =< n => Priority[q[i]] # Priority[slot]
        BY <2>1, <2>3
    <2>5. KeepsOrder(q, sent, S)
        BY DEF InLine
    <2> QED
        BY <2>1, <2>2, <2>4, <2>5, InsertOrder
<1> HIDE DEF t
<1>4. /\ Ahead(ToSet(served), {None} \cup ToSet(t), sent, S)
      /\ Ahead({None}, ToSet(t), sent, S)
    BY <1>1, <1>2 DEF Ahead, InLine
<1>5. InLine(served, None, t, sent, S)
    BY <1>1, <1>3, <1>4 DEF InLine
<1> QED
    BY <1>5 DEF t

\* What is left keeps the order, behind the request that stood before it.
LEMMA RestOrder ==
    ASSUME NEW q \in Seq(Requests), NEW n \in 0 .. Len(q), NEW sent, NEW S,
           KeepsOrder(q, sent, S)
    PROVE  LET s == SubSeq(q, n + 2, Len(q))
           IN  /\ ToSet(s) \subseteq ToSet(q)
               /\ KeepsOrder(s, sent, S)
               /\ n < Len(q) => Ahead({q[n + 1]}, ToSet(s), sent, S) /\ q[n + 1] \in ToSet(q)
<1> DEFINE s == SubSeq(q, n + 2, Len(q))
<1>1. n \in Nat /\ Len(q) \in Nat /\ DOMAIN q = 1 .. Len(q)
    OBVIOUS
<1>2. /\ DOMAIN s = 1 .. Len(s)
      /\ \A i \in 1 .. Len(s) : /\ (n + 1) + i \in 1 .. Len(q) /\ n + 1 < (n + 1) + i
                                /\ s[i] = q[(n + 1) + i]
    BY RestPlaces
<1> HIDE DEF s
<1>3. ToSet(s) \subseteq ToSet(q)
    BY <1>1, <1>2 DEF ToSet
<1>4. KeepsOrder(s, sent, S)
    <2>1. \A i, j \in 1 .. Len(s) : i < j => (n + 1) + i < (n + 1) + j
        BY <1>1
    <2> QED
        BY <1>1, <1>2, <2>1 DEF KeepsOrder
<1>5. n < Len(q) => n + 1 \in 1 .. Len(q)
    BY <1>1
<1>6. n < Len(q) => Ahead({q[n + 1]}, ToSet(s), sent, S)
    BY <1>1, <1>2, <1>5 DEF KeepsOrder, Ahead, ToSet
<1>7. n < Len(q) => q[n + 1] \in ToSet(q)
    BY <1>1, <1>5 DEF ToSet
<1> QED
    BY <1>3, <1>4, <1>6, <1>7 DEF s

\* A send: the first n requests of q, none of which is in S, are served in
\* reverse, then the one that was in the slot, if it was answered (last); the
\* slot gets the next one, if any.
LEMMA MoveInLine ==
    ASSUME RequestsAssumption,
           NEW served \in Seq(Requests), NEW slot, NEW q \in Seq(Requests),
           NEW sent, NEW S \in SUBSET Requests, InLine(served, slot, q, sent, S),
           NEW n \in 0 .. Len(q), \A i \in 1 .. n : q[i] \notin S,
           NEW last \in Seq(Requests), ToSet(last) \subseteq {slot}, KeepsOrder(last, sent, S),
           NEW next, (n < Len(q) /\ next = q[n + 1]) \/ next = None
    PROVE  InLine(served \o [i \in 1 .. n |-> q[n + 1 - i]] \o last, next,
                  SubSeq(q, n + 2, Len(q)), sent, S)
<1> DEFINE front == [i \in 1 .. n |-> q[n + 1 - i]]
           rest == SubSeq(q, n + 2, Len(q))
           head == served \o front
<1>1. n \in Nat /\ None \notin S
    BY DEF RequestsAssumption
<1>2. \A i \in 1 .. n : n + 1 - i \in 1 .. n /\ n + 1 - i \in 1 .. Len(q)
    BY <1>1
<1>3. DOMAIN front = 1 .. n /\ \A i \in 1 .. n : front[i] = q[n + 1 - i]
    OBVIOUS
<1>4. \A i \in 1 .. n : front[i] \in Requests /\ front[i] \notin S
    BY <1>2, <1>3
<1>5. front \in Seq(Requests)
    <2>1. front \in [1 .. n -> Requests]
        BY <1>3, <1>4
    <2> HIDE DEF front
    <2> QED
        BY <1>1, <2>1, SeqDef
<1>6. /\ Sorted(rest) /\ ToSet(rest) \subseteq ToSet(q) /\ KeepsOrder(rest, sent, S)
      /\ n < Len(q) => Ahead({q[n + 1]}, ToSet(rest), sent, S) /\ q[n + 1] \in ToSet(q)
    <2>1. Sorted(q) /\ KeepsOrder(q, sent, S)
        BY DEF InLine
    <2>2. Sorted(rest)
        BY <2>1, RestSorted
    <2>3. /\ ToSet(rest) \subseteq ToSet(q) /\ KeepsOrder(rest, sent, S)
          /\ n < Len(q) => Ahead({q[n + 1]}, ToSet(rest), sent, S) /\ q[n + 1] \in ToSet(q)
        BY <2>1, RestOrder
    <2> QED
        BY <2>2, <2>3
<1> HIDE DEF front, rest
<1>7. ToSet(front) \cap S = {}
    BY <1>3, <1>4 DEF ToSet
<1>8. KeepsOrder(front, sent, S)
    BY <1>3, <1>4 DEF KeepsOrder
<1>9. Ahead(ToSet(served), ToSet(front), sent, S)
    BY <1>7 DEF Ahead
<1>10. head \in Seq(Requests) /\ ToSet(head) = ToSet(served) \cup ToSet(front)
    BY <1>5, ConcatProperties, ConcatHolds
<1>11. KeepsOrder(head, sent, S)
    BY <1>5, <1>8, <1>9, ConcatOrder DEF InLine
<1> HIDE DEF head
<1>12. Ahead(ToSet(head), ToSet(last), sent, S)
    BY <1>7, <1>10 DEF Ahead, InLine
<1>13. KeepsOrder(head \o last, sent, S)
    BY <1>10, <1>11, <1>12, ConcatOrder
<1>14. ToSet(head \o last) = ToSet(head) \cup ToSet(last)
    BY <1>10, ConcatHolds
<1>15. next \in ToSet(q) \cup {None}
    BY <1>6
<1>16. \A a \in ToSet(head \o last), b \in {next} \cup ToSet(rest) :
          a \in S /\ b \in S /\ Priority[a] = Priority[b] => Before(sent, a, b)
    <2> SUFFICES ASSUME NEW a \in ToSet(head \o last), NEW b \in {next} \cup ToSet(rest),
                        a \in S, b \in S, Priority[a] = Priority[b]
                 PROVE  Before(sent, a, b)
        OBVIOUS
    <2>1. b \in ToSet(q)
        BY <1>1, <1>6, <1>15
    <2>2. a \in ToSet(served) \/ a = slot
        BY <1>7, <1>10, <1>14
    <2> QED
        BY <2>1, <2>2 DEF InLine, Ahead
<1>17. Ahead(ToSet(head \o last), {next} \cup ToSet(rest), sent, S)
    BY <1>16 DEF Ahead
<1>18. Ahead({next}, ToSet(rest), sent, S)
    <2>1. CASE n < Len(q) /\ next = q[n + 1]
        BY <1>6, <2>1
    <2>2. CASE next = None
        BY <1>1, <2>2 DEF Ahead
    <2> QED
        BY <2>1, <2>2
<1>19. InLine(head \o last, next, rest, sent, S)
    BY <1>6, <1>13, <1>17, <1>18 DEF InLine
<1> QED
    BY <1>19 DEF head, front, rest

\* The requests of the callbacks c.
RequestsOf(c) == [i \in DOMAIN c |-> c[i].request]

LEMMA RequestsOfConcat ==
    ASSUME NEW c \in Seq(Callbacks), NEW d \in Seq(Callbacks)
    PROVE  /\ RequestsOf(c) \in Seq(Requests) /\ RequestsOf(d) \in Seq(Requests)
           /\ RequestsOf(c \o d) = RequestsOf(c) \o RequestsOf(d)
<1> DEFINE n == Len(c)
           m == Len(d)
           v == c \o d
           x == RequestsOf(c)
           y == RequestsOf(d)
<1>1. ASSUME NEW e \in Seq(Callbacks)
      PROVE  /\ RequestsOf(e) \in Seq(Requests) /\ Len(RequestsOf(e)) = Len(e)
             /\ DOMAIN RequestsOf(e) = 1 .. Len(e)
             /\ \A i \in 1 .. Len(e) : RequestsOf(e)[i] = e[i].request
    <2> DEFINE k == Len(e)
               z == RequestsOf(e)
    <2>1. k \in Nat /\ DOMAIN e = 1 .. k /\ \A i \in 1 .. k : e[i] \in Callbacks
        OBVIOUS
    <2>2. DOMAIN z = 1 .. k /\ \A i \in 1 .. k : z[i] = e[i].request
        BY <2>1 DEF RequestsOf
    <2>3. z \in [1 .. k -> Requests]
        BY <2>1, <2>2 DEF RequestsOf, Callbacks
    <2> HIDE DEF k, z
    <2>4. z \in Seq(Requests)
        BY <2>1, <2>3, SeqDef
    <2>5. Len(z) = k
        BY <2>1, <2>2, <2>4
    <2> QED
        BY <2>2, <2>4, <2>5 DEF k, z
<1>2. /\ v \in Seq(Callbacks) /\ Len(v) = n + m
      /\ \A i \in 1 .. n + m : v[i] = IF i =< n THEN c[i] ELSE d[i - n]
    BY ConcatProperties
<1>3. /\ x \in Seq(Requests) /\ Len(x) = n /\ \A i \in 1 .. n : x[i] = c[i].request
      /\ y \in Seq(Requests) /\ Len(y) = m /\ \A i \in 1 .. m : y[i] = d[i].request
      /\ RequestsOf(v) \in Seq(Requests) /\ Len(RequestsOf(v)) = n + m
      /\ \A i \in 1 .. n + m : RequestsOf(v)[i] = v[i].request
    BY <1>1, <1>2
<1>4. n \in Int /\ m \in Int /\ n >= 0 /\ m >= 0
    OBVIOUS
<1> HIDE DEF n, m, v, x, y
<1>5. /\ x \o y \in Seq(Requests) /\ Len(x \o y) = n + m
      /\ \A i \in 1 .. n + m : (x \o y)[i] = IF i =< n THEN x[i] ELSE y[i - n]
    BY <1>3, ConcatProperties
<1>6. ASSUME NEW i \in 1 .. n + m
      PROVE  RequestsOf(v)[i] = (x \o y)[i]
    <2>1. CASE i =< n
        <3>1. i \in 1 .. n
            BY <1>4, <2>1
        <3> QED
            BY <1>2, <1>3, <1>5, <2>1, <3>1
    <2>2. CASE ~(i =< n)
        <3>1. i - n \in 1 .. m
            BY <1>4, <2>2
        <3> QED
            BY <1>2, <1>3, <1>5, <2>2, <3>1
    <2> QED
        BY <2>1, <2>2
<1>7. RequestsOf(v) = x \o y
    BY <1>3, <1>5, <1>6, SeqEqual
<1> QED
    BY <1>3, <1>7 DEF v, x, y

\* The request in the slot is served, and nothing takes its place.
LEMMA ServeInLine ==
    ASSUME RequestsAssumption,
           NEW served \in Seq(Requests), NEW slot \in Requests, NEW q,
           NEW sent, NEW S \in SUBSET Requests, InLine(served, slot, q, sent, S)
    PROVE  InLine(served \o <<slot>>, None, q, sent, S)
<1> DEFINE one == <<slot>>
<1>1. one \in Seq(Requests) /\ ToSet(one) = {slot} /\ KeepsOrder(one, sent, S)
    BY DEF ToSet, KeepsOrder
<1>2. None \notin S
    BY DEF RequestsAssumption
<1> HIDE DEF one
<1>3. Ahead(ToSet(served), ToSet(one), sent, S)
    BY <1>1 DEF InLine, Ahead
<1>4. ToSet(served \o one) = ToSet(served) \cup {slot}
    BY <1>1, ConcatHolds
<1>5. KeepsOrder(served \o one, sent, S)
    BY <1>1, <1>3, ConcatOrder DEF InLine
<1>6. /\ Ahead(ToSet(served \o one), {None} \cup ToSet(q), sent, S)
      /\ Ahead({None}, ToSet(q), sent, S)
    BY <1>2, <1>4 DEF InLine, Ahead
<1>7. InLine(served \o one, None, q, sent, S)
    BY <1>5, <1>6 DEF InLine
<1> QED
    BY <1>7 DEF one

\* The line of a link, as far as the requests of S are concerned, and that it
\* never keeps one of them waiting for a later one of its priority.
Ordered(S) == InLine(Served, inprogress, ipmi_msgq, issued, S)

\* A send that passes over no request of S: see Move and MayMove.
Passes(q, n, S) == \A i \in 1 .. n : q[i] \notin S
OrderlyMove(q, S) ==
    \/ inprogress = None /\ \E n \in 0 .. Len(q) : Passes(q, n, S) /\ Move(q, n, <<>>)
    \/ ipmi_msgq' = q /\ UNCHANGED <<inprogress, answered>>

LEMMA ServedTyped ==
    ASSUME answered \in Seq(Callbacks)
    PROVE  Served \in Seq(Requests) /\ Served = RequestsOf(answered)
<1>1. Served = RequestsOf(answered)
    BY DEF Served, RequestsOf
<1> QED
    BY <1>1, RequestsOfConcat

LEMMA MoveServes ==
    ASSUME answered \in Seq(Callbacks), NEW q \in Seq(Requests), NEW n \in 0 .. Len(q),
           NEW done \in Seq(Callbacks), Move(q, n, done)
    PROVE  Served' = Served \o [i \in 1 .. n |-> q[n + 1 - i]] \o RequestsOf(done)
<1> DEFINE front == [i \in 1 .. n |-> q[n + 1 - i]]
           fakes == [i \in 1 .. n |-> Callback(q[n + 1 - i], q[n + 1 - i])]
<1>1. answered' = answered \o fakes \o done
    BY DEF Move
<1>2. n \in Nat /\ \A i \in 1 .. n : q[n + 1 - i] \in Requests
    OBVIOUS
<1>3. fakes \in Seq(Callbacks)
    <2>1. fakes \in [1 .. n -> Callbacks]
        BY <1>2 DEF Callback, Callbacks
    <2> HIDE DEF fakes
    <2> QED
        BY <1>2, <2>1, SeqDef
<1>4. RequestsOf(fakes) = front
    BY DEF RequestsOf, Callback
<1> HIDE DEF front, fakes
<1>5. answered \o fakes \in Seq(Callbacks)
    BY <1>3, ConcatProperties
<1>6. RequestsOf(answered') = RequestsOf(answered \o fakes) \o RequestsOf(done)
    BY <1>1, <1>5, RequestsOfConcat
<1>7. RequestsOf(answered \o fakes) = RequestsOf(answered) \o RequestsOf(fakes)
    BY <1>3, RequestsOfConcat
<1>8. Served' = RequestsOf(answered') /\ Served = RequestsOf(answered)
    BY DEF Served, RequestsOf
<1> QED
    BY <1>4, <1>6, <1>7, <1>8 DEF front

LEMMA MoveOrdered ==
    ASSUME RequestsAssumption, ListTyped, NEW S \in SUBSET Requests,
           NEW q \in Seq(Requests), InLine(Served, inprogress, q, issued', S),
           NEW done \in Seq(Callbacks), ToSet(RequestsOf(done)) \subseteq {inprogress},
           KeepsOrder(RequestsOf(done), issued', S),
           NEW n \in 0 .. Len(q), Passes(q, n, S), Move(q, n, done)
    PROVE  Ordered(S)'
<1> DEFINE last == RequestsOf(done)
           front == [i \in 1 .. n |-> q[n + 1 - i]]
           none == <<>>
<1>1. Served \in Seq(Requests)
    BY ServedTyped DEF ListTyped
<1>2. last \in Seq(Requests)
    BY RequestsOfConcat
<1>3. /\ ipmi_msgq' = SubSeq(q, n + 2, Len(q))
      /\ (n < Len(q) /\ inprogress' = q[n + 1]) \/ inprogress' = None
    BY DEF Move
<1>4. Served' = Served \o front \o last
    BY MoveServes DEF ListTyped
<1>5. \A i \in 1 .. n : q[i] \notin S
    BY DEF Passes
<1> HIDE DEF last
<1>6. /\ last \in Seq(Requests) /\ ToSet(last) \subseteq {inprogress}
      /\ KeepsOrder(last, issued', S)
    BY <1>2 DEF last
<1>7. \A slot, sent, next :
          /\ slot = inprogress /\ sent = issued' /\ next = inprogress'
          => InLine(Served \o front \o last, next, SubSeq(q, n + 2, Len(q)), sent, S)
    <2> SUFFICES ASSUME NEW slot, NEW sent, NEW next,
                        slot = inprogress, sent = issued', next = inprogress'
                 PROVE  InLine(Served \o front \o last, next, SubSeq(q, n + 2, Len(q)), sent, S)
        OBVIOUS
    <2>1. PICK served \in Seq(Requests) : served = Served
        BY <1>1
    <2>2. InLine(served, slot, q, sent, S) /\ ToSet(last) \subseteq {slot} /\ KeepsOrder(last, sent, S)
        BY <1>6, <2>1
    <2>3. (n < Len(q) /\ next = q[n + 1]) \/ next = None
        BY <1>3
    <2>4. InLine(served \o front \o last, next, SubSeq(q, n + 2, Len(q)), sent, S)
        BY <1>5, <1>6, <2>2, <2>3, MoveInLine
    <2> QED
        BY <2>1, <2>4
<1> HIDE DEF front
<1>8. InLine(Served', inprogress', ipmi_msgq', issued', S)
    BY <1>3, <1>4, <1>7
<1> QED
    BY <1>8 DEF Ordered

LEMMA OrderlyMoveOrdered ==
    ASSUME RequestsAssumption, ListTyped, NEW S \in SUBSET Requests,
           NEW q \in Seq(Requests), InLine(Served, inprogress, q, issued', S),
           OrderlyMove(q, S)
    PROVE  Ordered(S)'
<1> DEFINE none == <<>>
<1>1. /\ none \in Seq(Callbacks) /\ RequestsOf(none) = <<>> /\ ToSet(RequestsOf(none)) = {}
      /\ KeepsOrder(RequestsOf(none), issued', S)
    BY DEF RequestsOf, ToSet, KeepsOrder
<1> HIDE DEF none
<1>2. ASSUME NEW n \in 0 .. Len(q), Passes(q, n, S), Move(q, n, none)
      PROVE  Ordered(S)'
    <2>1. ToSet(RequestsOf(none)) \subseteq {inprogress}
        BY <1>1
    <2> QED
        BY <1>1, <1>2, <2>1, MoveOrdered
<1>3. CASE ipmi_msgq' = q /\ UNCHANGED <<inprogress, answered>>
    <2>1. Served' = Served
        BY <1>3 DEF Served
    <2> QED
        BY <1>3, <2>1 DEF Ordered
<1>4. \/ \E n \in 0 .. Len(q) : Passes(q, n, S) /\ Move(q, n, none)
      \/ ipmi_msgq' = q /\ UNCHANGED <<inprogress, answered>>
    BY DEF OrderlyMove, none
<1> QED
    BY <1>2, <1>3, <1>4

LEMMA NextRequestOrdered ==
    ASSUME RequestsAssumption, ListTyped, NEW S \in SUBSET Requests, Ordered(S),
           OrderlyMove(ipmi_msgq, S), UNCHANGED issued
    PROVE  Ordered(S)'
<1>1. ipmi_msgq \in Seq(Requests)
    BY DEF ListTyped
<1>2. InLine(Served, inprogress, ipmi_msgq, issued', S)
    BY DEF Ordered
<1> QED
    BY <1>1, <1>2, OrderlyMoveOrdered

\* Only requests that were sent are in the line.
AllSent == ToSet(Served) \cup {inprogress} \cup ToSet(ipmi_msgq) \subseteq ToSet(issued) \cup {None}

LEMMA NewSentOrdered ==
    ASSUME RequestsAssumption, ListTyped, AllSent, NEW S \in SUBSET Requests, Ordered(S),
           NEW r \in Requests, issued' = Append(issued, r),
           OrderlyMove(InsertLast(ipmi_msgq, r), S)
    PROVE  Ordered(S)'
<1> DEFINE q == InsertLast(ipmi_msgq, r)
<1>1. q \in Seq(Requests)
    BY InsertIsQueue DEF ListTyped
<1>2. Served \in Seq(Requests)
    BY ServedTyped DEF ListTyped
<1>3. ToSet(Served) \cup {inprogress} \cup ToSet(ipmi_msgq) \subseteq ToSet(issued) \cup {None}
    BY DEF AllSent
<1>4. InLine(Served, inprogress, q, Append(issued, r), S)
    <2>1. PICK served \in Seq(Requests), slot \in Requests \cup {None},
               waiting \in Seq(Requests), sent \in Seq(Requests) :
              /\ served = Served /\ slot = inprogress /\ waiting = ipmi_msgq /\ sent = issued
        BY <1>2 DEF ListTyped
    <2>2. InLine(served, slot, waiting, sent, S)
        BY <2>1 DEF Ordered
    <2>3. ToSet(served) \cup {slot} \cup ToSet(waiting) \subseteq ToSet(sent) \cup {None}
        BY <1>3, <2>1
    <2>4. InLine(served, slot, InsertLast(waiting, r), Append(sent, r), S)
        BY <2>2, <2>3, NewInLine
    <2> QED
        BY <2>1, <2>4
<1> HIDE DEF q
<1>5. InLine(Served, inprogress, q, issued', S)
    BY <1>4
<1>6. OrderlyMove(q, S)
    BY DEF q
<1> QED
    BY <1>1, <1>5, <1>6, OrderlyMoveOrdered

LEMMA NewRequestOrdered ==
    ASSUME RequestsAssumption, ListTyped, Accounted, NEW S \in SUBSET Requests, Ordered(S),
           NEW r \in Requests, issued' = Append(issued, r),
           OrderlyMove(InsertLast(ipmi_msgq, r), S)
    PROVE  Ordered(S)'
BY NewSentOrdered DEF Accounted, AllSent

LEMMA TakeBackOrdered ==
    ASSUME RequestsAssumption, ListTyped, NEW S \in SUBSET Requests, Ordered(S),
           ipmi_msgq' = IF inprogress = None THEN ipmi_msgq
                        ELSE InsertFirst(ipmi_msgq, inprogress),
           inprogress' = None, UNCHANGED <<answered, issued>>
    PROVE  Ordered(S)'
<1>1. Served' = Served
    BY DEF Served
<1>2. CASE inprogress = None
    BY <1>1, <1>2 DEF Ordered
<1>3. CASE inprogress # None
    <2>1. PICK served \in Seq(Requests), slot \in Requests,
               waiting \in Seq(Requests), sent \in Seq(Requests) :
              /\ served = Served /\ slot = inprogress /\ waiting = ipmi_msgq /\ sent = issued
        BY <1>3, ServedTyped DEF ListTyped
    <2>2. InLine(served, None, InsertFirst(waiting, slot), sent, S)
        BY <2>1, BackInLine DEF Ordered
    <2> QED
        BY <1>1, <1>3, <2>1, <2>2 DEF Ordered
<1> QED
    BY <1>2, <1>3

LEMMA AnswerOrdered ==
    ASSUME RequestsAssumption, ListTyped, NEW S \in SUBSET Requests, Ordered(S),
           UNCHANGED issued, inprogress \in Requests, NEW a \in Requests,
           \/ \E n \in 0 .. Len(ipmi_msgq) :
                  /\ Passes(ipmi_msgq, n, S)
                  /\ Move(ipmi_msgq, n, <<Callback(inprogress, a)>>)
           \/ /\ inprogress' = None
              /\ answered' = Append(answered, Callback(inprogress, a))
              /\ UNCHANGED ipmi_msgq
    PROVE  Ordered(S)'
<1> DEFINE done == <<Callback(inprogress, a)>>
           last == <<inprogress>>
<1>1. /\ done \in Seq(Callbacks) /\ RequestsOf(done) = last /\ ToSet(last) = {inprogress}
      /\ KeepsOrder(last, issued', S)
    BY DEF Callback, Callbacks, RequestsOf, ToSet, KeepsOrder
<1>2. InLine(Served, inprogress, ipmi_msgq, issued', S) /\ ipmi_msgq \in Seq(Requests)
    BY DEF Ordered, ListTyped
<1>3. \/ \E n \in 0 .. Len(ipmi_msgq) : Passes(ipmi_msgq, n, S) /\ Move(ipmi_msgq, n, done)
      \/ inprogress' = None /\ answered' = answered \o done /\ UNCHANGED ipmi_msgq
    <2>1. Callback(inprogress, a) \in Callbacks /\ answered \in Seq(Callbacks)
        BY DEF Callback, Callbacks, ListTyped
    <2>2. Append(answered, Callback(inprogress, a)) = answered \o done
        BY <2>1, AppendIsConcat
    <2> QED
        BY <2>2
<1> HIDE DEF done, last
<1>4. CASE \E n \in 0 .. Len(ipmi_msgq) : Passes(ipmi_msgq, n, S) /\ Move(ipmi_msgq, n, done)
    <2>1. PICK q \in Seq(Requests) : q = ipmi_msgq
        BY <1>2
    <2>2. PICK n \in 0 .. Len(q) : Passes(q, n, S) /\ Move(q, n, done)
        BY <1>4, <2>1
    <2>3. ToSet(RequestsOf(done)) \subseteq {inprogress} /\ KeepsOrder(RequestsOf(done), issued', S)
        BY <1>1
    <2>4. InLine(Served, inprogress, q, issued', S)
        BY <1>2, <2>1
    <2> QED
        BY <1>1, <2>2, <2>3, <2>4, MoveOrdered
<1>5. CASE inprogress' = None /\ answered' = answered \o done /\ UNCHANGED ipmi_msgq
    <2>1. Served' = Served \o last
        <3>1. RequestsOf(answered \o done) = RequestsOf(answered) \o RequestsOf(done)
            BY <1>1, RequestsOfConcat DEF ListTyped
        <3>2. Served' = RequestsOf(answered') /\ Served = RequestsOf(answered)
            BY DEF Served, RequestsOf
        <3> QED
            BY <1>1, <1>5, <3>1, <3>2
    <2>2. PICK served \in Seq(Requests), slot \in Requests, sent \in Seq(Requests) :
              served = Served /\ slot = inprogress /\ sent = issued
        BY ServedTyped DEF ListTyped
    <2>3. InLine(served \o <<slot>>, None, ipmi_msgq, sent, S)
        BY <2>2, ServeInLine DEF Ordered
    <2> QED
        BY <1>5, <2>1, <2>2, <2>3 DEF Ordered, last
<1> QED
    BY <1>3, <1>4, <1>5

\* Nothing moves.
LEMMA NothingOrdered ==
    ASSUME NEW S, Ordered(S), UNCHANGED <<ipmi_msgq, inprogress, answered, issued>>
    PROVE  Ordered(S)'
<1>1. Served' = Served
    BY DEF Served
<1> QED
    BY <1>1 DEF Ordered

\* Then everything is in order along the whole line.
LEMMA OrderedLine ==
    ASSUME ListTyped, NEW S, Ordered(S)
    PROVE  KeepsOrder(WholeLine, issued, S)
<1>1. PICK served \in Seq(Requests), slot \in Requests \cup {None}, q \in Seq(Requests) :
          served = Served /\ slot = inprogress /\ q = ipmi_msgq
    BY ServedTyped DEF ListTyped
<1>2. KeepsOrder(served \o <<slot>> \o q, issued, S)
    <2>1. PICK sent : sent = issued
        OBVIOUS
    <2>2. InLine(served, slot, q, sent, S)
        BY <1>1, <2>1 DEF Ordered
    <2>3. KeepsOrder(served \o <<slot>> \o q, sent, S)
        BY <2>2, LineOrder
    <2> QED
        BY <2>1, <2>3
<1> QED
    BY <1>1, <1>2 DEF WholeLine

\* A request newly in progress is at least as urgent as all that wait.
MostUrgent ==
    inprogress' \notin {inprogress, None} =>
        \A r \in ToSet(ipmi_msgq') : Priority[inprogress'] =< Priority[r]

LEMMA MoveMostUrgent ==
    ASSUME NEW q \in Seq(Requests), Sorted(q),
           \/ \E n \in 0 .. Len(q) : \E done : Move(q, n, done)
           \/ ipmi_msgq' = q /\ UNCHANGED inprogress
    PROVE  MostUrgent
<1>1. ASSUME NEW n \in 0 .. Len(q), NEW done, Move(q, n, done)
      PROVE  MostUrgent
    <2>1. /\ ipmi_msgq' = SubSeq(q, n + 2, Len(q))
          /\ (n < Len(q) /\ inprogress' = q[n + 1]) \/ inprogress' = None
        BY <1>1 DEF Move
    <2>2. n < Len(q) => \A r \in ToSet(SubSeq(q, n + 2, Len(q))) : Priority[q[n + 1]] =< Priority[r]
        BY RestSorted
    <2> QED
        BY <2>1, <2>2 DEF MostUrgent
<1>2. CASE ipmi_msgq' = q /\ UNCHANGED inprogress
    BY <1>2 DEF MostUrgent
<1> QED
    BY <1>1, <1>2

\* So are those of the queue with a new request in its place.
LEMMA NewRequestMostUrgent ==
    ASSUME RequestsAssumption, ListTyped, Sorted(ipmi_msgq), NEW r \in Requests, NEW S,
           OrderlyMove(InsertLast(ipmi_msgq, r), S)
    PROVE  MostUrgent
<1> DEFINE q == InsertLast(ipmi_msgq, r)
<1>1. q \in Seq(Requests) /\ Sorted(q)
    BY InsertIsQueue, InsertLastSorts DEF ListTyped
<1>2. \/ \E n \in 0 .. Len(q) : \E done : Move(q, n, done)
      \/ ipmi_msgq' = q /\ UNCHANGED inprogress
    BY DEF OrderlyMove
<1> HIDE DEF q
<1> QED
    BY <1>1, <1>2, MoveMostUrgent

LEMMA NextRequestMostUrgent ==
    ASSUME ListTyped, Sorted(ipmi_msgq), NEW S, OrderlyMove(ipmi_msgq, S)
    PROVE  MostUrgent
<1>1. ipmi_msgq \in Seq(Requests)
    BY DEF ListTyped
<1>2. \/ \E n \in 0 .. Len(ipmi_msgq) : \E done : Move(ipmi_msgq, n, done)
      \/ ipmi_msgq' = ipmi_msgq /\ UNCHANGED inprogress
    BY DEF OrderlyMove
<1> QED
    BY <1>1, <1>2, MoveMostUrgent
=============================================================================
