------------------------------ MODULE VoiceProofs ------------------------------
(***************************************************************************)
(* Two browsers that have come to rest are connected, for any number of    *)
(* faults and descriptions.  A side that waits for an answer is not        *)
(* forgotten: what will release it is always on its way, behind the last   *)
(* event that makes the other side start over.                             *)
(***************************************************************************)
EXTENDS VoiceNegotiation, TLAPS

Signal == [type : {"offer", "answer"}, id : Nat]
Event == [type : {"ready"}, present : BOOLEAN] \cup [type : {"reset", "left"}] \cup Signal

-------------------------------------------------------------------------------
(* What is on its way.                                                     *)

Has(s, type) == \E i \in 1..Len(s) : s[i].type = type
Renewing == {"ready", "reset"}
Renews(s) == \E i \in 1..Len(s) : s[i].type \in Renewing
\* An offer comes after the last event that makes its receiver start over.
NewOffer(s) == \E i \in 1..Len(s) : s[i].type = "offer" /\ \A j \in i..Len(s) : s[j].type \notin Renewing
OffersLast(s) == \A i \in 1..Len(s) : s[i].type = "answer" => \E j \in i..Len(s) : s[j].type = "offer"

\* What the list of players will say when the events of an inbox are handled.
News(m) == m.type \in {"ready", "reset", "left"}
Says(m) == IF m.type = "ready" THEN m.present ELSE m.type = "reset"
Right(s, listed, there) ==
  \/ \E i \in 1..Len(s) : /\ News(s[i]) /\ (Says(s[i]) <=> there)
                          /\ \A j \in (i + 1)..Len(s) : ~News(s[j])
  \/ (\A i \in 1..Len(s) : ~News(s[i])) /\ (listed <=> there)

\* Events are what they are, and signals can be put into a connection's queue.
LEMMA EventIs ==
  ASSUME NEW m \in Event
  PROVE  /\ m.type \in {"ready", "reset", "left", "offer", "answer"}
         /\ m.type = "ready" => m.present \in BOOLEAN
         /\ m.type \in Signals => m \in Signal
  BY DEF Event, Signal, Signals

\* A signal is one of the events, and it waits in chains of operations as it is.
LEMMA SignalIs ==
  ASSUME NEW m \in Signal
  PROVE  m \in Event /\ m \in Operations /\ m.type \in Signals /\ m.id \in Nat
  BY DEF Event, Signal, Operations, Signals

\* One more element.
LEMMA WithOneMore ==
  ASSUME NEW S, NEW s \in Seq(S), NEW m \in S, NEW t, t = Append(s, m)
  PROVE  /\ t \in Seq(S) /\ t # <<>> /\ Len(t) = Len(s) + 1 /\ t[Len(t)] = m
         /\ \A i \in 1..Len(s) : t[i] = s[i]
         /\ 1..Len(t) = (1..Len(s)) \cup {Len(t)}
  OBVIOUS

\* Sending one message, or none.
LEMMA OneSent ==
  ASSUME NEW S, NEW s \in Seq(S), NEW m \in S
  PROVE  s \o <<m>> = Append(s, m) /\ s \o <<>> = s
  OBVIOUS

\* A message is taken from the front.
LEMMA WithoutFirst ==
  ASSUME NEW S, NEW s \in Seq(S), s # <<>>
  PROVE  /\ Tail(s) \in Seq(S) /\ Head(s) \in S /\ Head(s) = s[1]
         /\ Len(s) \in Nat /\ Len(s) >= 1 /\ Len(Tail(s)) = Len(s) - 1
         /\ \A i \in 1..Len(Tail(s)) : Tail(s)[i] = s[i + 1]
  OBVIOUS

\* What is there is still there behind one more element.
LEMMA Appended ==
  ASSUME NEW S, NEW s \in Seq(S), NEW m \in S
  PROVE  /\ \A type : Has(Append(s, m), type) <=> Has(s, type) \/ m.type = type
         /\ Renews(Append(s, m)) <=> Renews(s) \/ m.type \in Renewing
         /\ m.type = "offer" => NewOffer(Append(s, m)) /\ OffersLast(Append(s, m))
         /\ NewOffer(s) /\ m.type \notin Renewing => NewOffer(Append(s, m))
         /\ OffersLast(s) /\ m.type # "answer" => OffersLast(Append(s, m))
<1> DEFINE t == Append(s, m)
           n == Len(s)
<1>1. /\ n \in Nat /\ Len(t) = n + 1 /\ t[n + 1] = m /\ \A i \in 1..n : t[i] = s[i]
  OBVIOUS
<1>2. \A i \in 1..(n + 1) : i \in 1..n \/ i = n + 1
  BY <1>1
<1>3. n + 1 \in 1..(n + 1) /\ \A i \in 1..n : i \in 1..(n + 1)
  BY <1>1
<1> HIDE DEF t
<1>4. \A type : Has(t, type) <=> Has(s, type) \/ m.type = type
  BY <1>1, <1>2, <1>3 DEF Has
<1>5. Renews(t) <=> Renews(s) \/ m.type \in Renewing
  BY <1>1, <1>2, <1>3 DEF Renews
<1>6. m.type = "offer" => NewOffer(t) /\ OffersLast(t)
  <2> HAVE m.type = "offer"
  <2>1. \A j \in (n + 1)..Len(t) : j = n + 1
    BY <1>1
  <2>2. NewOffer(t)
    BY <1>1, <1>3, <2>1 DEF NewOffer, Renewing
  <2>3. \A i \in 1..Len(t) : n + 1 \in i..Len(t)
    BY <1>1
  <2> QED BY <1>1, <2>2, <2>3 DEF OffersLast
<1>7. NewOffer(s) /\ m.type \notin Renewing => NewOffer(t)
  <2> HAVE NewOffer(s) /\ m.type \notin Renewing
  <2>1. PICK i \in 1..n : s[i].type = "offer" /\ \A j \in i..n : s[j].type \notin Renewing
    BY DEF NewOffer
  <2>2. \A j \in i..(n + 1) : j \in i..n \/ j = n + 1
    BY <1>1
  <2>3. \A j \in i..n : j \in 1..n
    BY <1>1
  <2>4. \A j \in i..Len(t) : t[j].type \notin Renewing
    BY <1>1, <2>1, <2>2, <2>3
  <2> QED BY <1>1, <1>3, <2>1, <2>4 DEF NewOffer
<1>8. OffersLast(s) /\ m.type # "answer" => OffersLast(t)
  <2> HAVE OffersLast(s) /\ m.type # "answer"
  <2> SUFFICES ASSUME NEW i \in 1..Len(t), t[i].type = "answer"
               PROVE  \E j \in i..Len(t) : t[j].type = "offer"
    BY DEF OffersLast
  <2>1. i \in 1..n /\ s[i].type = "answer"
    BY <1>1, <1>2
  <2>2. PICK j \in i..n : s[j].type = "offer"
    BY <2>1 DEF OffersLast
  <2>3. j \in 1..n /\ j \in i..Len(t)
    BY <1>1, <2>1
  <2> QED BY <1>1, <2>2, <2>3
<1> QED BY <1>4, <1>5, <1>6, <1>7, <1>8 DEF t

\* What is behind the first element is there without it.
LEMMA Dropped ==
  ASSUME NEW S, NEW s \in Seq(S), s # <<>>
  PROVE  /\ \A type : Has(s, type) <=> Head(s).type = type \/ Has(Tail(s), type)
         /\ Renews(s) <=> Head(s).type \in Renewing \/ Renews(Tail(s))
         /\ NewOffer(s) /\ (Head(s).type # "offer" \/ Renews(s)) => NewOffer(Tail(s))
         /\ OffersLast(s) => OffersLast(Tail(s))
<1> DEFINE t == Tail(s)
           n == Len(t)
<1>1. /\ n \in Nat /\ Len(s) = n + 1 /\ s[1] = Head(s) /\ \A i \in 1..n : t[i] = s[i + 1]
  OBVIOUS
<1>2. \A i \in 1..(n + 1) : i = 1 \/ (i - 1 \in 1..n /\ (i - 1) + 1 = i)
  BY <1>1
<1>3. 1 \in 1..(n + 1) /\ \A i \in 1..n : i + 1 \in 1..(n + 1)
  BY <1>1
<1> HIDE DEF t, n
<1>4. \A type : Has(s, type) <=> Head(s).type = type \/ Has(t, type)
  <2> TAKE type
  <2>1. Has(s, type) <=> \E i \in 1..(n + 1) : s[i].type = type
    BY <1>1 DEF Has
  <2>2. Has(t, type) <=> \E i \in 1..n : s[i + 1].type = type
    BY <1>1 DEF Has, n
  <2>3. ASSUME NEW i \in 1..(n + 1), s[i].type = type, i # 1
        PROVE  \E j \in 1..n : s[j + 1].type = type
    BY <1>2, <2>3
  <2> QED BY <1>1, <1>3, <2>1, <2>2, <2>3
<1>5. Renews(s) <=> Head(s).type \in Renewing \/ Renews(t)
  BY <1>1, <1>2, <1>3 DEF Renews, n
<1>6. NewOffer(s) /\ (Head(s).type # "offer" \/ Renews(s)) => NewOffer(t)
  <2> HAVE NewOffer(s) /\ (Head(s).type # "offer" \/ Renews(s))
  <2>1. PICK i \in 1..(n + 1) : s[i].type = "offer" /\ \A j \in i..(n + 1) : s[j].type \notin Renewing
    BY <1>1 DEF NewOffer
  <2>2. i # 1
    <3>1. CASE Head(s).type # "offer"
      BY <1>1, <2>1, <3>1
    <3>2. CASE Renews(s)
      BY <1>1, <2>1, <3>2 DEF Renews
    <3> QED BY <3>1, <3>2
  <2>3. i - 1 \in 1..n /\ (i - 1) + 1 = i
    BY <1>2, <2>2
  <2>4. \A j \in (i - 1)..n : j \in 1..n /\ j + 1 \in i..(n + 1)
    BY <1>1, <2>3
  <2>5. t[i - 1].type = "offer"
    BY <1>1, <2>1, <2>3
  <2>6. \A j \in (i - 1)..n : t[j].type \notin Renewing
    BY <1>1, <2>1, <2>4
  <2> QED BY <2>3, <2>5, <2>6 DEF NewOffer, n
<1>7. OffersLast(s) => OffersLast(t)
  <2> HAVE OffersLast(s)
  <2> SUFFICES ASSUME NEW i \in 1..n, t[i].type = "answer"
               PROVE  \E j \in i..n : t[j].type = "offer"
    BY DEF OffersLast, n
  <2>1. s[i + 1].type = "answer" /\ i + 1 \in 1..Len(s)
    BY <1>1, <1>3
  <2>2. PICK j \in (i + 1)..(n + 1) : s[j].type = "offer"
    BY <1>1, <2>1 DEF OffersLast
  <2>3. j - 1 \in i..n /\ j - 1 \in 1..n /\ (j - 1) + 1 = j
    BY <1>1
  <2> QED BY <1>1, <2>2, <2>3
<1> QED BY <1>4, <1>5, <1>6, <1>7 DEF t

\* Without an event that starts over any offer is new, and an answer has an offer behind it.
LEMMA OfferFacts ==
  ASSUME NEW S, NEW s \in Seq(S)
  PROVE  /\ NewOffer(s) => Has(s, "offer")
         /\ Has(s, "offer") /\ ~Renews(s) => NewOffer(s)
         /\ OffersLast(s) /\ Has(s, "answer") => Has(s, "offer")
<1>1. Len(s) \in Nat
  OBVIOUS
<1>2. \A i \in 1..Len(s) : \A j \in i..Len(s) : j \in 1..Len(s)
  BY <1>1
<1>3. NewOffer(s) => Has(s, "offer")
  BY DEF NewOffer, Has
<1>4. Has(s, "offer") /\ ~Renews(s) => NewOffer(s)
  BY <1>2 DEF NewOffer, Has, Renews
<1>5. OffersLast(s) /\ Has(s, "answer") => Has(s, "offer")
  BY <1>2 DEF OffersLast, Has
<1> QED BY <1>3, <1>4, <1>5

\* Nothing is on its way in an empty sequence.
LEMMA NothingThere ==
  /\ \A type : ~Has(<<>>, type)
  /\ ~Renews(<<>>) /\ ~NewOffer(<<>>) /\ OffersLast(<<>>)
  BY DEF Has, Renews, NewOffer, OffersLast

\* The list of players stays right when signals come, and becomes right with news.
LEMMA RightAppended ==
  ASSUME NEW s \in Seq(Event), NEW m \in Event, NEW listed, NEW there
  PROVE  /\ ~News(m) /\ Right(s, listed, there) => Right(Append(s, m), listed, there)
         /\ News(m) /\ (Says(m) <=> there) => Right(Append(s, m), listed, there)
<1> DEFINE t == Append(s, m)
           n == Len(s)
<1>1. /\ n \in Nat /\ Len(t) = n + 1 /\ t[n + 1] = m /\ \A i \in 1..n : t[i] = s[i]
  OBVIOUS
<1>2. /\ \A i \in 1..(n + 1) : i \in 1..n \/ i = n + 1
      /\ n + 1 \in 1..(n + 1) /\ \A i \in 1..n : i \in 1..(n + 1)
      /\ \A i \in 1..n : \A j \in (i + 1)..(n + 1) : j \in (i + 1)..n \/ j = n + 1
      /\ \A i \in 1..n : \A j \in (i + 1)..n : j \in 1..n
      /\ \A j \in (n + 1 + 1)..(n + 1) : FALSE
  BY <1>1
<1> HIDE DEF t, n
<1>3. ASSUME ~News(m), Right(s, listed, there)
      PROVE  Right(t, listed, there)
  <2>1. CASE \E i \in 1..n : /\ News(s[i]) /\ (Says(s[i]) <=> there)
                             /\ \A j \in (i + 1)..n : ~News(s[j])
    <3>1. PICK i \in 1..n : /\ News(s[i]) /\ (Says(s[i]) <=> there)
                            /\ \A j \in (i + 1)..n : ~News(s[j])
      BY <2>1
    <3>2. News(t[i]) /\ (Says(t[i]) <=> there) /\ \A j \in (i + 1)..(n + 1) : ~News(t[j])
      BY <1>1, <1>2, <1>3, <3>1
    <3> QED BY <1>1, <1>2, <3>2 DEF Right
  <2>2. CASE (\A i \in 1..n : ~News(s[i])) /\ (listed <=> there)
    BY <1>1, <1>2, <1>3, <2>2 DEF Right
  <2> QED BY <1>3, <2>1, <2>2 DEF Right, n
<1>4. ASSUME News(m), Says(m) <=> there
      PROVE  Right(t, listed, there)
  BY <1>1, <1>2, <1>4 DEF Right
<1> QED BY <1>3, <1>4 DEF t

\* What news says stays right when the front of the inbox is taken.
LEMMA RightDropped ==
  ASSUME NEW s \in Seq(Event), s # <<>>, NEW listed, NEW there, Right(s, listed, there)
  PROVE  /\ ~News(Head(s)) => Right(Tail(s), listed, there)
         /\ News(Head(s)) => \A now : (now <=> Says(Head(s))) => Right(Tail(s), now, there)
<1> DEFINE t == Tail(s)
           n == Len(t)
<1>1. /\ n \in Nat /\ Len(s) = n + 1 /\ s[1] = Head(s) /\ \A i \in 1..n : t[i] = s[i + 1]
  OBVIOUS
<1>2. /\ \A i \in 1..(n + 1) : i = 1 \/ (i - 1 \in 1..n /\ (i - 1) + 1 = i)
      /\ 1 \in 1..(n + 1) /\ \A i \in 1..n : i + 1 \in 1..(n + 1) /\ i + 1 \in (1 + 1)..(n + 1)
      /\ \A i \in 2..(n + 1) : \A j \in ((i - 1) + 1)..n : j \in 1..n /\ j + 1 \in (i + 1)..(n + 1)
      /\ \A i \in 1..(n + 1) : i # 1 => i \in 2..(n + 1)
  BY <1>1
<1> HIDE DEF t, n
<1>3. CASE (\A i \in 1..(n + 1) : ~News(s[i])) /\ (listed <=> there)
  BY <1>1, <1>2, <1>3 DEF Right, n
<1>4. CASE \E i \in 1..(n + 1) : /\ News(s[i]) /\ (Says(s[i]) <=> there)
                                 /\ \A j \in (i + 1)..(n + 1) : ~News(s[j])
  <2>1. PICK i \in 1..(n + 1) : /\ News(s[i]) /\ (Says(s[i]) <=> there)
                                /\ \A j \in (i + 1)..(n + 1) : ~News(s[j])
    BY <1>4
  <2>2. CASE i = 1
    <3>1. \A j \in 1..n : ~News(t[j])
      BY <1>1, <1>2, <2>1, <2>2
    <3> QED BY <1>1, <2>1, <2>2, <3>1 DEF Right, n
  <2>3. CASE i # 1
    <3>1. i - 1 \in 1..n /\ News(t[i - 1]) /\ (Says(t[i - 1]) <=> there)
      BY <1>1, <1>2, <2>1, <2>3
    <3>2. \A j \in ((i - 1) + 1)..n : ~News(t[j])
      BY <1>1, <1>2, <2>1, <2>3
    <3>3. \A now : Right(t, now, there)
      BY <3>1, <3>2 DEF Right, n
    <3> QED BY <3>3 DEF t
  <2> QED BY <2>2, <2>3
<1> QED BY <1>1, <1>3, <1>4 DEF Right

\* Who has nothing to start over for has the other one in the list, if that one is there.
LEMMA RightFresh ==
  ASSUME NEW s \in Seq(Event), NEW listed \in BOOLEAN, Right(s, listed, TRUE), ~Renews(s)
  PROVE  listed /\ ~Has(s, "left")
<1>1. \A i \in 1..Len(s) : News(s[i]) => s[i].type = "left" /\ ~Says(s[i])
  BY DEF News, Says, Renews, Renewing
<1>2. (\A i \in 1..Len(s) : ~News(s[i])) /\ listed
  BY <1>1 DEF Right
<1> QED BY <1>2 DEF Has, News
-------------------------------------------------------------------------------
(* Entries.                                                                *)

\* What an entry promises: a side that has to answer has a reply to make, an offer that
\* is being made is first in the queue, the initiator's first offer is not forgotten, a
\* connection that failed will be restarted, and a microphone will be heard.
Promises(d, e, m) ==
  /\ e.sig = "remote" => Has(e.chain, "reply")
  /\ \A i \in 1..Len(e.chain) : e.chain[i].type = "make" => i = 1 /\ e.sig = "stable"
  /\ e.making => e.chain # <<>> /\ e.chain[1].type = "make"
  /\ (d = Initiator /\ e.agreed = <<>> /\ e.sig = "stable") => "channel" \in e.needs
  /\ e.ice = "failed" => e.timer \/ e.needs # {} \/ e.sig # "stable"
  /\ (d = Polite /\ m /\ e.agreed # <<>>) => e.sends \/ "channel" \in e.needs \/ e.sig # "stable"

\* A new entry owes whatever it has to negotiate.
LEMMA NewEntry ==
  ASSUME NEW d \in Browsers, NEW m
  PROVE  /\ NewPeer(d) \in Peer /\ NewPeer(d) # NoPeer /\ Promises(d, NewPeer(d), m)
         /\ NewPeer(d).sig = "stable"
<1>1. NewPeer(d) \in Peer
  BY DEF NewPeer, Peer
<1>2. Promises(d, NewPeer(d), m)
  BY DEF NewPeer, Promises
<1> QED BY <1>1, <1>2, PeersAssumption DEF NewPeer

\* The timer of an entry only makes it restart.
LEMMA TimerSet ==
  ASSUME NEW d, NEW m, NEW e \in Peer, Promises(d, e, m), NEW f, f = [e EXCEPT !.timer = TRUE]
  PROVE  /\ f \in Peer /\ Promises(d, f, m)
         /\ f.sig = e.sig /\ f.chain = e.chain /\ f.making = e.making /\ f.answering = e.answering
<1>1. /\ f \in Peer /\ f.timer
      /\ f.sig = e.sig /\ f.chain = e.chain /\ f.making = e.making /\ f.answering = e.answering
      /\ f.agreed = e.agreed /\ f.needs = e.needs /\ f.ice = e.ice /\ f.sends = e.sends
  BY DEF Peer
<1> QED BY <1>1 DEF Promises

\* Behind the first operation no offer is being made.
LEMMA MakeIsFirst ==
  ASSUME NEW d, NEW m, NEW e \in Peer, Promises(d, e, m), e.chain # <<>>
  PROVE  /\ e.chain \in Seq(Operations) /\ Tail(e.chain) \in Seq(Operations)
         /\ e.chain[1] = Head(e.chain)
         /\ \A i \in 1..Len(Tail(e.chain)) : Tail(e.chain)[i].type # "make"
         /\ Head(e.chain).type = "make" => e.sig = "stable"
         /\ Head(e.chain).type # "make" => e.making = FALSE
         /\ \A type : Has(e.chain, type) <=> Head(e.chain).type = type \/ Has(Tail(e.chain), type)
<1>1. e.chain \in Seq(Operations) /\ e.making \in BOOLEAN
  BY DEF Peer
<1>2. /\ Tail(e.chain) \in Seq(Operations) /\ e.chain[1] = Head(e.chain) /\ 1 \in 1..Len(e.chain)
      /\ \A i \in 1..Len(Tail(e.chain)) :
           Tail(e.chain)[i] = e.chain[i + 1] /\ i + 1 \in 1..Len(e.chain) /\ i + 1 # 1
  BY <1>1
<1>3. \A type : Has(e.chain, type) <=> Head(e.chain).type = type \/ Has(Tail(e.chain), type)
  BY <1>1, Dropped
<1>4. e.making => Head(e.chain).type = "make"
  BY <1>2 DEF Promises
<1>5. Head(e.chain).type = "make" => e.sig = "stable"
  BY <1>2 DEF Promises
<1>6. \A i \in 1..Len(Tail(e.chain)) : Tail(e.chain)[i].type # "make"
  BY <1>2 DEF Promises
<1> QED BY <1>1, <1>2, <1>3, <1>4, <1>5, <1>6

\* What becomes of an entry when its first operation ends.
WithOffer(e, id) ==
  [[e EXCEPT !.chain = Tail(@)]
    EXCEPT !.sig = "local", !.making = FALSE, !.offer = id,
           !.offered = e.needs, !.needs = {}]
WithAnswer(e, id, m) ==
  [[e EXCEPT !.chain = Tail(@)]
    EXCEPT !.sig = "stable", !.agreed = <<e.offer, id>>,
           !.needs = @ \ {"restart"}, !.ice = "new", !.sends = @ \/ m]
WithAgreement(e, m) ==
  [[e EXCEPT !.chain = Tail(@)]
    EXCEPT !.sig = "stable", !.agreed = <<e.offer, Head(e.chain).id>>,
           !.offered = {}, !.ice = "new", !.answering = FALSE, !.sends = @ \/ m]
WithRejection(e) ==
  [[e EXCEPT !.chain = Tail(@)] EXCEPT !.timer = TRUE]

\* An offer is made.
LEMMA OfferingKeeps ==
  ASSUME NEW d, NEW m, NEW e \in Peer, Promises(d, e, m), e.chain # <<>>, NEW id \in Nat,
         Head(e.chain).type = "make" \/ (Head(e.chain).type = "reply" /\ e.sig # "remote"),
         NEW f, f = WithOffer(e, id)
  PROVE  f \in Peer /\ Promises(d, f, m) /\ f.chain = Tail(e.chain) /\ e.sig # "remote"
<1>1. e.chain \in Seq(Operations)
  BY DEF Peer
<1>2. Tail(e.chain) \in Seq(Operations) /\ e.sig # "remote"
      /\ \A i \in 1..Len(Tail(e.chain)) : Tail(e.chain)[i].type # "make"
  BY MakeIsFirst
<1>3. /\ f \in Peer
      /\ f.sig = "local" /\ f.chain = Tail(e.chain) /\ f.making = FALSE /\ f.answering = e.answering
      /\ f.agreed = e.agreed /\ f.needs = {} /\ f.ice = e.ice /\ f.sends = e.sends
  BY <1>2 DEF Peer, WithOffer
<1> QED BY <1>2, <1>3 DEF Promises

\* An offer of the other side is accepted.
LEMMA AcceptingKeeps ==
  ASSUME NEW d, NEW m, NEW e \in Peer, Promises(d, e, m), e.chain # <<>>, Head(e.chain).type = "offer",
         NEW f, f = [[e EXCEPT !.chain = Tail(@)]
                       EXCEPT !.sig = "remote", !.offer = Head(e.chain).id, !.answering = FALSE,
                              !.needs = @ \cup e.offered, !.offered = {},
                              !.chain = Append(@, [type |-> "reply"])]
  PROVE  f \in Peer /\ Promises(d, f, m) /\ f.sig = "remote"
<1>1. /\ Tail(e.chain) \in Seq(Operations) /\ e.making = FALSE
      /\ \A i \in 1..Len(Tail(e.chain)) : Tail(e.chain)[i].type # "make"
  BY MakeIsFirst
<1>2. Head(e.chain).id \in Nat
  <2>1. Head(e.chain) \in Operations
    BY WithoutFirst DEF Peer
  <2> QED BY <2>1 DEF Operations
<1> DEFINE reply == [type |-> "reply"]
           left == Tail(e.chain)
           queue == Append(left, reply)
<1>3. reply \in Operations /\ reply.type = "reply"
  BY DEF Operations
<1> HIDE DEF reply
<1>4. /\ queue \in Seq(Operations) /\ Has(queue, "reply")
      /\ \A i \in 1..Len(queue) : queue[i].type # "make"
  <2>1. Has(queue, "reply")
    BY <1>1, <1>3, Appended
  <2>2. \A i \in 1..Len(queue) : queue[i] = reply \/ (i \in 1..Len(left) /\ queue[i] = left[i])
    BY <1>1, <1>3
  <2> QED BY <1>1, <1>3, <2>1, <2>2
<1> HIDE DEF queue
<1>5. /\ f \in Peer
      /\ f.sig = "remote" /\ f.chain = queue /\ f.making = e.making
      /\ f.agreed = e.agreed /\ f.ice = e.ice /\ f.sends = e.sends
  <2> DEFINE needed == e.needs \cup e.offered
             id == Head(e.chain).id
  <2>1. needed \in SUBSET {"channel", "restart"} /\ id \in Nat
    BY <1>2 DEF Peer
  <2>2. f = [e EXCEPT !.sig = "remote", !.offer = id, !.answering = FALSE,
                      !.needs = needed, !.offered = {}, !.chain = queue]
    BY DEF queue, reply, Peer
  <2>3. queue \in Seq(Operations)
    BY <1>4
  <2> HIDE DEF needed, id
  <2>4. f \in Peer
    BY <2>1, <2>2, <2>3, ZenonT(30) DEF Peer
  <2>5. /\ f.sig = "remote" /\ f.chain = queue /\ f.making = e.making
        /\ f.agreed = e.agreed /\ f.ice = e.ice /\ f.sends = e.sends
    BY <2>2 DEF Peer
  <2> QED BY <2>4, <2>5
<1> QED BY <1>1, <1>4, <1>5 DEF Promises

\* An answer is made.
LEMMA AnsweringKeeps ==
  ASSUME NEW d, NEW m \in BOOLEAN, NEW e \in Peer, Promises(d, e, m), e.chain # <<>>,
         Head(e.chain).type = "reply", NEW id \in Nat,
         NEW f, f = WithAnswer(e, id, m)
  PROVE  f \in Peer /\ Promises(d, f, m) /\ f.sig = "stable"
<1>1. /\ Tail(e.chain) \in Seq(Operations) /\ e.making = FALSE
      /\ \A i \in 1..Len(Tail(e.chain)) : Tail(e.chain)[i].type # "make"
  BY MakeIsFirst
<1>2. <<e.offer, id>> \in Seq(Nat) /\ <<e.offer, id>> # <<>>
  BY DEF Peer
<1> DEFINE agreed == <<e.offer, id>>
<1> HIDE DEF agreed
<1>3. /\ f \in Peer
      /\ f.sig = "stable" /\ f.chain = Tail(e.chain) /\ f.making = e.making
      /\ f.agreed = agreed /\ f.ice = "new" /\ f.sends = (e.sends \/ m)
  BY <1>1, <1>2 DEF Peer, WithAnswer, agreed
<1> QED BY <1>1, <1>2, <1>3 DEF Promises, agreed

\* An answer is accepted.
LEMMA AnsweredKeeps ==
  ASSUME NEW d, NEW m \in BOOLEAN, NEW e \in Peer, Promises(d, e, m), e.chain # <<>>,
         Head(e.chain).type = "answer",
         NEW f, f = WithAgreement(e, m)
  PROVE  f \in Peer /\ Promises(d, f, m) /\ f.sig = "stable" /\ f.chain = Tail(e.chain)
<1>1. /\ Tail(e.chain) \in Seq(Operations) /\ e.making = FALSE
      /\ \A i \in 1..Len(Tail(e.chain)) : Tail(e.chain)[i].type # "make"
  BY MakeIsFirst
<1>2. Head(e.chain).id \in Nat
  <2>1. Head(e.chain) \in Operations
    BY WithoutFirst DEF Peer
  <2> QED BY <2>1 DEF Operations
<1> DEFINE agreed == <<e.offer, Head(e.chain).id>>
<1>3. agreed \in Seq(Nat) /\ agreed # <<>>
  BY <1>2 DEF Peer
<1> HIDE DEF agreed
<1>4. /\ f \in Peer
      /\ f.sig = "stable" /\ f.chain = Tail(e.chain) /\ f.making = e.making
      /\ f.agreed = agreed /\ f.ice = "new" /\ f.sends = (e.sends \/ m)
  BY <1>1, <1>3 DEF Peer, WithAgreement, agreed
<1> QED BY <1>1, <1>3, <1>4 DEF Promises

\* An answer nobody waits for is rejected.
LEMMA RejectingKeeps ==
  ASSUME NEW d, NEW m, NEW e \in Peer, Promises(d, e, m), e.chain # <<>>, Head(e.chain).type = "answer",
         NEW f, f = WithRejection(e)
  PROVE  /\ f \in Peer /\ Promises(d, f, m)
         /\ f.sig = e.sig /\ f.making = e.making /\ f.chain = Tail(e.chain)
<1>1. /\ Tail(e.chain) \in Seq(Operations) /\ e.making = FALSE
      /\ \A i \in 1..Len(Tail(e.chain)) : Tail(e.chain)[i].type # "make"
      /\ Has(e.chain, "reply") => Has(Tail(e.chain), "reply")
  BY MakeIsFirst
<1>2. /\ f \in Peer /\ f.timer
      /\ f.sig = e.sig /\ f.chain = Tail(e.chain) /\ f.making = e.making
      /\ f.agreed = e.agreed /\ f.needs = e.needs /\ f.ice = e.ice /\ f.sends = e.sends
  BY <1>1 DEF Peer, WithRejection
<1> QED BY <1>1, <1>2 DEF Promises

\* A description that arrives is put into the queue.
LEMMA QueueingKeeps ==
  ASSUME NEW d, NEW m, NEW e \in Peer, Promises(d, e, m), NEW message \in Signal,
         NEW f, f = Queued(e, message)
  PROVE  /\ f \in Peer /\ Promises(d, f, m)
         /\ f.sig = e.sig /\ f.making = e.making /\ f.chain = Append(e.chain, message)
         /\ message.type = "answer" => f.answering
         /\ e.chain \in Seq(Operations) /\ message \in Operations
<1> DEFINE queue == Append(e.chain, message)
           answering == message.type = "answer"
<1>1. e.chain \in Seq(Operations) /\ message \in Operations /\ message.type # "make"
  BY SignalIs DEF Peer, Signals
<1>2. /\ queue \in Seq(Operations) /\ (Has(e.chain, "reply") => Has(queue, "reply"))
      /\ \A i \in 1..Len(queue) : queue[i].type = "make" => i \in 1..Len(e.chain) /\ queue[i] = e.chain[i]
      /\ e.chain # <<>> => queue # <<>> /\ queue[1] = e.chain[1]
  <2>1. Has(e.chain, "reply") => Has(queue, "reply")
    BY <1>1, Appended
  <2> QED BY <1>1, <2>1
<1> HIDE DEF queue
<1>3. answering \in BOOLEAN
  OBVIOUS
<1>4. f = [e EXCEPT !.answering = answering, !.chain = queue]
  BY <1>1 DEF Peer, Queued, queue
<1> HIDE DEF answering
<1>5. /\ f \in Peer /\ f.answering = answering
      /\ f.sig = e.sig /\ f.chain = queue /\ f.making = e.making
      /\ f.agreed = e.agreed /\ f.needs = e.needs /\ f.ice = e.ice /\ f.sends = e.sends
      /\ f.timer = e.timer
  BY <1>2, <1>3, <1>4 DEF Peer
<1>6. Promises(d, f, m)
  BY <1>2, <1>5 DEF Promises
<1> QED BY <1>1, <1>5, <1>6 DEF queue, answering

\* Something more is needed.
LEMMA NeedingKeeps ==
  ASSUME NEW d, NEW m, NEW e \in Peer, Promises(d, e, m), NEW more \in SUBSET {"channel", "restart"},
         NEW f, f = [e EXCEPT !.needs = @ \cup more]
  PROVE  /\ f \in Peer /\ Promises(d, f, m)
         /\ f.sig = e.sig /\ f.making = e.making /\ f.chain = e.chain /\ f.answering = e.answering
         /\ f.needs = e.needs \cup more
<1>1. /\ f \in Peer /\ f.timer = e.timer
      /\ f.sig = e.sig /\ f.chain = e.chain /\ f.making = e.making /\ f.answering = e.answering
      /\ f.agreed = e.agreed /\ f.needs = e.needs \cup more /\ f.ice = e.ice /\ f.sends = e.sends
  BY DEF Peer
<1> QED BY <1>1 DEF Promises

\* An offer is going to be made.
LEMMA MakingKeeps ==
  ASSUME NEW d, NEW m, NEW e \in Peer, Promises(d, e, m), e.sig = "stable", e.needs # {},
         NEW f, f = [e EXCEPT !.making = TRUE, !.chain = <<[type |-> "make"]>>]
  PROVE  f \in Peer /\ Promises(d, f, m) /\ f.sig = "stable" /\ f.making
<1> DEFINE queue == <<[type |-> "make"]>>
<1>1. queue \in Seq(Operations) /\ queue # <<>> /\ Len(queue) = 1 /\ queue[1].type = "make"
  BY DEF Operations
<1> HIDE DEF queue
<1>2. /\ f \in Peer /\ f.sig = "stable" /\ f.chain = queue /\ f.making /\ f.timer = e.timer
      /\ f.agreed = e.agreed /\ f.needs = e.needs /\ f.ice = e.ice /\ f.sends = e.sends
  BY <1>1 DEF Peer, queue
<1> QED BY <1>1, <1>2 DEF Promises

\* The connection comes up, or fails, or is to be set up again.
Up(e) == [e EXCEPT !.ice = "connected", !.timer = FALSE]
Down(e) == [e EXCEPT !.ice = "failed", !.timer = TRUE]

\* A connection that comes up leaves no promise open.
LEMMA ConnectingKeeps ==
  ASSUME NEW d, NEW m, NEW e \in Peer, Promises(d, e, m),
         NEW f, f = Up(e)
  PROVE  /\ f \in Peer /\ Promises(d, f, m)
         /\ f.sig = e.sig /\ f.making = e.making /\ f.chain = e.chain /\ f.answering = e.answering
<1>1. /\ f \in Peer /\ f.ice = "connected"
      /\ f.sig = e.sig /\ f.chain = e.chain /\ f.making = e.making /\ f.answering = e.answering
      /\ f.agreed = e.agreed /\ f.needs = e.needs /\ f.sends = e.sends
  BY DEF Peer, Up
<1> QED BY <1>1 DEF Promises

\* One that fails starts its timer.
LEMMA FailingKeeps ==
  ASSUME NEW d, NEW m, NEW e \in Peer, Promises(d, e, m),
         NEW f, f = Down(e)
  PROVE  /\ f \in Peer /\ Promises(d, f, m)
         /\ f.sig = e.sig /\ f.making = e.making /\ f.chain = e.chain /\ f.answering = e.answering
<1>1. /\ f \in Peer /\ f.timer
      /\ f.sig = e.sig /\ f.chain = e.chain /\ f.making = e.making /\ f.answering = e.answering
      /\ f.agreed = e.agreed /\ f.needs = e.needs /\ f.sends = e.sends
  BY DEF Peer, Down
<1> QED BY <1>1 DEF Promises

\* The timer of a failed one makes a negotiation needed.
LEMMA RestartingKeeps ==
  ASSUME NEW d, NEW m, NEW e \in Peer, Promises(d, e, m),
         NEW f, f = IF [e EXCEPT !.timer = FALSE].ice # "connected"
                    THEN Needing([e EXCEPT !.timer = FALSE], "restart") ELSE [e EXCEPT !.timer = FALSE]
  PROVE  /\ f \in Peer /\ Promises(d, f, m)
         /\ f.sig = e.sig /\ f.making = e.making /\ f.chain = e.chain /\ f.answering = e.answering
<1>1. /\ f \in Peer
      /\ f.sig = e.sig /\ f.chain = e.chain /\ f.making = e.making /\ f.answering = e.answering
      /\ f.agreed = e.agreed /\ f.ice = e.ice /\ f.sends = e.sends
      /\ f.needs = IF e.ice # "connected" THEN e.needs \cup {"restart"} ELSE e.needs
  BY DEF Peer, Needing
<1> QED BY <1>1 DEF Promises

\* A microphone is started on the polite side.
LEMMA MicKeeps ==
  ASSUME NEW d, NEW m, NEW e \in Peer, Promises(d, e, m),
         NEW f, f = IF e.sig # "remote" /\ e.agreed = <<>> THEN e
                    ELSE Needing(e, "channel")
  PROVE  /\ f \in Peer /\ Promises(d, f, TRUE)
         /\ f.sig = e.sig /\ f.making = e.making /\ f.chain = e.chain /\ f.answering = e.answering
<1>1. CASE e.sig # "remote" /\ e.agreed = <<>>
  BY <1>1 DEF Promises
<1>2. CASE ~(e.sig # "remote" /\ e.agreed = <<>>)
  <2>1. f = [e EXCEPT !.needs = @ \cup {"channel"}]
    BY <1>2 DEF Needing
  <2>2. /\ f \in Peer /\ f.timer = e.timer
        /\ f.sig = e.sig /\ f.making = e.making /\ f.chain = e.chain /\ f.answering = e.answering
        /\ f.agreed = e.agreed /\ f.ice = e.ice /\ "channel" \in f.needs
    BY <2>1, SMTT(30) DEF Peer
  <2> QED BY <2>1, <2>2 DEF Promises
<1> QED BY <1>1, <1>2

-------------------------------------------------------------------------------
(* The invariant.                                                          *)

Typed ==
  /\ link \in [Browsers -> {"on", "lost", "off"}] /\ inbox \in [Browsers -> Seq(Event)]
  /\ page \in [Browsers -> {"starting", "replaying", "up"}] /\ readyPending \in [Browsers -> BOOLEAN]
  /\ early \in [Browsers -> Seq(Signal)] /\ shown \in [Browsers -> BOOLEAN]
  /\ desired \in [Browsers -> BOOLEAN] /\ refreshing \in [Browsers -> SUBSET {"refresh", "restore"}]
  /\ pc \in [Browsers -> Peer \cup {NoPeer}] /\ mic \in BOOLEAN /\ drawn \in Nat

\* The rendered list is right, or will be when the inbox is handled.
Listed(d) == link[d] = "on" => Right(inbox[d], shown[d], link[Other(d)] # "off")

\* A session wants the player its page shows, and connects to whom it wants.
Session(d) ==
  /\ page[d] = "starting" => pc[d] = NoPeer /\ refreshing[d] = {} /\ ~desired[d]
  /\ page[d] = "up" => early[d] = <<>> /\ (shown[d] => desired[d])
  /\ pc[d] # NoPeer => desired[d] /\ Promises(d, pc[d], mic)
  /\ link[d] = "on" /\ desired[d] => pc[d] # NoPeer \/ "restore" \in refreshing[d] \/ Has(inbox[d], "ready")
  /\ link[d] # "on" => inbox[d] = <<>>

\* Nothing is on its way that makes a browser start over.
Fresh(d) == link[d] = "on" /\ ~Renews(inbox[d])
\* A browser will answer an offer or start over, or, as the initiator, make its own offer.
Reaches(d) ==
  \/ link[d] # "on"
  \/ NewOffer(inbox[d])
  \/ /\ Fresh(d)
     /\ \/ Has(early[d], "offer")
        \/ /\ pc[d] # NoPeer
           /\ Has(pc[d].chain, "offer") \/ pc[d].sig = "remote" \/ (d = Initiator /\ pc[d].making)
\* What ends a browser's waiting for an answer has arrived.
Arriving(d) ==
  \/ Has(inbox[d], "answer") \/ Has(pc[d].chain, "offer")
  \/ Has(pc[d].chain, "answer") /\ (d = Polite \/ pc[d].answering)
  \/ d = Polite /\ (Has(inbox[d], "offer") \/ Has(early[d], "offer"))
Waits(d) == Fresh(d) /\ pc[d] # NoPeer /\ pc[d].sig = "local"
Awaited(d) == Waits(d) => Reaches(Other(d)) \/ Arriving(d)
\* The last thing a waiting polite side said was an offer.
LastSaid == Waits(Polite) => OffersLast(inbox[Initiator])

VInv ==
  /\ Typed
  /\ \A d \in Browsers : Listed(d) /\ Session(d) /\ Awaited(d)
  /\ LastSaid

\* In a step of one browser the other only gets an event.
OthersKept(a) ==
  LET o == Other(a) IN
  /\ link'[o] = link[o] /\ page'[o] = page[o] /\ early'[o] = early[o] /\ shown'[o] = shown[o]
  /\ desired'[o] = desired[o] /\ refreshing'[o] = refreshing[o] /\ pc'[o] = pc[o]
  /\ mic' = mic \/ a = Polite
Gets(o) ==
  \/ inbox'[o] = inbox[o]
  \/ link[o] = "on" /\ \E m \in Event : m.type \notin Renewing /\ inbox'[o] = Append(inbox[o], m)

\* There are two sides, and each is the other's other side.
LEMMA TwoBrowsers ==
  ASSUME NEW a \in Browsers
  PROVE  /\ Other(a) \in Browsers /\ Other(a) # a /\ Other(Other(a)) = a
         /\ \A d \in Browsers : d = a \/ d = Other(a)
         /\ Initiator # Polite /\ Initiator \in Browsers /\ Polite \in Browsers
         /\ Other(Initiator) = Polite /\ Other(Polite) = Initiator
  BY PeersAssumption DEF Browsers, Other

\* What a browser is given does not disturb its session, and keeps what was on its way.
LEMMA SessionGets ==
  ASSUME VInv, NEW a \in Browsers, NEW o, o = Other(a), OthersKept(a), inbox' \in [Browsers -> Seq(Event)],
         inbox'[o] = inbox[o] \/ (link[o] = "on" /\ \E m \in Event : inbox'[o] = Append(inbox[o], m))
  PROVE  Session(o)'
<1>1. o \in Browsers /\ Session(o) /\ inbox[o] \in Seq(Event)
  BY TwoBrowsers DEF VInv, Typed
<1>2. Has(inbox[o], "ready") => Has(inbox'[o], "ready")
  <2>1. CASE inbox'[o] = inbox[o]
    BY <2>1
  <2>2. ASSUME NEW m \in Event, inbox'[o] = Append(inbox[o], m)
        PROVE  Has(inbox[o], "ready") => Has(inbox'[o], "ready")
    <3>1. \A type : Has(Append(inbox[o], m), type) <=> Has(inbox[o], type) \/ m.type = type
      BY <1>1, Appended
    <3> QED BY <2>2, <3>1
  <2> QED BY <2>1, <2>2
<1>3. /\ link'[o] = link[o] /\ page'[o] = page[o] /\ early'[o] = early[o] /\ shown'[o] = shown[o]
      /\ desired'[o] = desired[o] /\ refreshing'[o] = refreshing[o] /\ pc'[o] = pc[o]
  BY DEF OthersKept
<1>4. pc[o] # NoPeer => Promises(o, pc[o], mic')
  <2>1. mic' = mic \/ o # Polite
    BY TwoBrowsers DEF OthersKept
  <2> QED BY <1>1, <2>1 DEF Session, Promises
<1>5. link[o] # "on" => inbox'[o] = inbox[o]
  OBVIOUS
<1> QED BY <1>1, <1>2, <1>3, <1>4, <1>5 DEF Session

\* What was on its way to a browser is still on its way after it got one more message.
LEMMA GetsKeeps ==
  ASSUME VInv, NEW a \in Browsers, NEW o, o = Other(a), OthersKept(a), Gets(o)
  PROVE  /\ Reaches(o) => Reaches(o)'
         /\ Arriving(o) => Arriving(o)'
         /\ Waits(o)' => Waits(o)
<1>1. o \in Browsers /\ inbox[o] \in Seq(Event)
  BY TwoBrowsers DEF VInv, Typed
<1>2. link'[o] = link[o] /\ early'[o] = early[o] /\ pc'[o] = pc[o]
  BY DEF OthersKept
<1>3. /\ \A type : Has(inbox[o], type) => Has(inbox'[o], type)
      /\ Renews(inbox'[o]) <=> Renews(inbox[o])
      /\ NewOffer(inbox[o]) => NewOffer(inbox'[o])
  <2>1. CASE inbox'[o] = inbox[o]
    BY <2>1
  <2>2. ASSUME NEW m \in Event, m.type \notin Renewing, inbox'[o] = Append(inbox[o], m)
        PROVE  /\ \A type : Has(inbox[o], type) => Has(inbox'[o], type)
               /\ Renews(inbox'[o]) <=> Renews(inbox[o])
               /\ NewOffer(inbox[o]) => NewOffer(inbox'[o])
    <3>1. /\ \A type : Has(Append(inbox[o], m), type) <=> Has(inbox[o], type) \/ m.type = type
          /\ Renews(Append(inbox[o], m)) <=> Renews(inbox[o]) \/ m.type \in Renewing
          /\ NewOffer(inbox[o]) /\ m.type \notin Renewing => NewOffer(Append(inbox[o], m))
      BY <1>1, Appended
    <3> QED BY <2>2, <3>1
  <2> QED BY <2>1, <2>2 DEF Gets
<1>4. Reaches(o) => Reaches(o)'
  BY <1>2, <1>3 DEF Reaches, Fresh
<1>5. Arriving(o) => Arriving(o)'
  BY <1>2, <1>3 DEF Arriving
<1>6. Waits(o)' => Waits(o)
  BY <1>2, <1>3 DEF Waits, Fresh
<1> QED BY <1>4, <1>5, <1>6

\* The other browser gets at most a signal.
SaidTo(o) ==
  \/ inbox'[o] = inbox[o]
  \/ link[o] = "on" /\ \E m \in Signal : inbox'[o] = Append(inbox[o], m)
SameState(e, f) ==
  f.sig = e.sig /\ f.chain = e.chain /\ f.making = e.making /\ f.answering = e.answering

\* The other side's session and list stay right when only its inbox may have grown.
LEMMA OtherSide ==
  ASSUME VInv, Typed', NEW a \in Browsers, NEW o, o = Other(a), OthersKept(a), SaidTo(o),
         link'[a] # "off" <=> link[a] # "off"
  PROVE  Session(o)' /\ Listed(o)' /\ Gets(o)
<1>1. o \in Browsers /\ Other(o) = a /\ inbox[o] \in Seq(Event) /\ Listed(o)
  BY TwoBrowsers DEF VInv, Typed
<1>2. inbox'[o] = inbox[o]
      \/ (link[o] = "on" /\ \E m \in Event : ~News(m) /\ m.type \notin Renewing /\ inbox'[o] = Append(inbox[o], m))
  BY SignalIs DEF SaidTo, News, Renewing, Signals
<1>3. Gets(o)
  BY <1>2 DEF Gets
<1>4. Session(o)'
  <2>1. inbox' \in [Browsers -> Seq(Event)]
    BY DEF Typed
  <2> QED BY <1>2, <2>1, SessionGets
<1>5. Listed(o)'
  <2>1. link'[o] = link[o] /\ shown'[o] = shown[o]
    BY DEF OthersKept
  <2> SUFFICES ASSUME link[o] = "on"
               PROVE  Right(inbox'[o], shown[o], link'[a] # "off")
    BY <1>1, <2>1 DEF Listed
  <2> DEFINE there == link[a] # "off"
  <2>2. Right(inbox[o], shown[o], there)
    BY <1>1 DEF Listed
  <2>3. (link'[a] # "off") = there
    OBVIOUS
  <2> HIDE DEF there
  <2>4. CASE inbox'[o] = inbox[o]
    BY <2>2, <2>3, <2>4
  <2>5. ASSUME NEW m \in Event, ~News(m), inbox'[o] = Append(inbox[o], m)
        PROVE  Right(inbox'[o], shown[o], there)
    BY <1>1, <2>2, <2>5, RightAppended
  <2> QED BY <1>2, <2>3, <2>4, <2>5
<1> QED BY <1>3, <1>4, <1>5

\* What an action has to show.
LEMMA StepKeeps ==
  ASSUME VInv, Typed', NEW a \in Browsers, NEW o, o = Other(a), OthersKept(a), SaidTo(o),
         link'[a] # "off" <=> link[a] # "off",
         Listed(a)', Session(a)', LastSaid',
         Waits(a)' => Reaches(o)' \/ Arriving(a)' \/ (Waits(a) /\ (Arriving(a) => Arriving(a)')),
         Waits(o) /\ Reaches(a) => Reaches(a)' \/ Arriving(o)'
  PROVE  VInv'
<1>1. /\ o \in Browsers /\ Other(o) = a /\ \A d \in Browsers : d = a \/ d = o
      /\ Awaited(a) /\ Awaited(o)
  BY TwoBrowsers DEF VInv
<1>2. Session(o)' /\ Listed(o)' /\ Gets(o)
  BY OtherSide
<1>3. /\ Reaches(o) => Reaches(o)'
      /\ Arriving(o) => Arriving(o)'
      /\ Waits(o)' => Waits(o)
  BY <1>2, GetsKeeps
<1>4. Awaited(a)'
  BY <1>1, <1>3 DEF Awaited
<1>5. Awaited(o)'
  BY <1>1, <1>3 DEF Awaited
<1> QED BY <1>1, <1>2, <1>4, <1>5 DEF VInv

\* A step that sends and handles nothing and leaves the negotiation of an entry alone.
LEMMA QuietKeeps ==
  ASSUME VInv, Typed', NEW a \in Browsers, NEW o, o = Other(a), OthersKept(a),
         UNCHANGED <<link, inbox, early, shown>>, Session(a)',
         pc'[a] # NoPeer => pc'[a].sig = "stable" \/ (pc[a] # NoPeer /\ SameState(pc[a], pc'[a])),
         Fresh(a) /\ link[o] = "on" /\ pc[a] # NoPeer => pc'[a] # NoPeer /\ SameState(pc[a], pc'[a])
  PROVE  VInv'
<1>1. o \in Browsers /\ \A d \in Browsers : d = a \/ d = o
  BY TwoBrowsers
<1>2. SaidTo(o)
  BY DEF SaidTo
<1>3. Listed(a)'
  <2>1. Listed(a) = Listed(a)'
    BY DEF Listed
  <2> QED BY <2>1 DEF VInv
<1>4. Waits(a)' => Waits(a) /\ (Arriving(a) => Arriving(a)')
  BY DEF Waits, Fresh, Arriving, SameState
<1>5. Waits(o) /\ Reaches(a) => Reaches(a)'
  BY DEF Waits, Fresh, Reaches, SameState
<1>6. LastSaid'
  <2>1. Waits(Polite)' => Waits(Polite)
    <3>1. CASE a = Polite
      BY <1>4, <3>1
    <3>2. CASE o = Polite
      BY <3>2 DEF Waits, Fresh, OthersKept
    <3> QED BY <1>1, <3>1, <3>2, TwoBrowsers
  <2> QED BY <2>1 DEF LastSaid, VInv
<1> QED BY <1>2, <1>3, <1>4, <1>5, <1>6, StepKeeps

-------------------------------------------------------------------------------
(* Steps that neither send nor handle anything.                            *)

\* An entry of a state, and one that is made where there was none.
LEMMA EntryIs ==
  ASSUME VInv, NEW a \in Browsers
  PROVE  pc[a] = NoPeer \/ (pc[a] \in Peer /\ pc[a] # NoPeer /\ Promises(a, pc[a], mic) /\ desired[a])
  BY DEF VInv, Typed, Session

\* Whether there is an entry is what the list of players says, and one that stays is
\* left alone.
LEMMA ReconciledIs ==
  ASSUME NEW a \in Browsers, NEW m, NEW e, e = NoPeer \/ (e \in Peer /\ Promises(a, e, m)), NEW wanted \in BOOLEAN
  PROVE  /\ Reconciled(a, e, wanted) = NoPeer
              \/ (Reconciled(a, e, wanted) \in Peer /\ Promises(a, Reconciled(a, e, wanted), m))
         /\ wanted <=> Reconciled(a, e, wanted) # NoPeer
         /\ wanted /\ e # NoPeer => Reconciled(a, e, wanted) = e
         /\ wanted /\ e = NoPeer => Reconciled(a, e, wanted).sig = "stable"
  BY NewEntry, PeersAssumption DEF Reconciled, Connected

\* A TURN credential arrives.
LEMMA RefreshLandsKeeps ==
  ASSUME VInv, NEW a \in Browsers, RefreshLands(a)
  PROVE  VInv'
<1> DEFINE o == Other(a)
           e == pc[a]
           restarted == IF e = NoPeer THEN e ELSE Needing(e, "restart")
<1>1. PICK why \in refreshing[a] :
        /\ refreshing' = [refreshing EXCEPT ![a] = refreshing[a] \ {why}]
        /\ pc' = [pc EXCEPT ![a] =
             IF why = "restore" /\ link[a] = "on" THEN Reconciled(a, restarted, desired[a]) ELSE restarted]
        /\ UNCHANGED <<link, inbox, page, readyPending, early, shown, desired, mic, drawn, faults>>
  BY DEF RefreshLands, session
<1> DEFINE f == IF why = "restore" /\ link[a] = "on" THEN Reconciled(a, restarted, desired[a]) ELSE restarted
<1>2. Typed /\ Session(a) /\ desired[a] \in BOOLEAN
  BY DEF VInv, Typed
<1>3. pc' = [pc EXCEPT ![a] = f]
  BY <1>1
<1>4. e = NoPeer \/ (e \in Peer /\ e # NoPeer /\ Promises(a, e, mic) /\ desired[a])
  BY EntryIs
<1>5. e # NoPeer => pc[a] # NoPeer /\ e = pc[a]
  OBVIOUS
<1> HIDE DEF e
<1>6. /\ e = NoPeer => restarted = NoPeer
      /\ e # NoPeer => restarted \in Peer /\ Promises(a, restarted, mic) /\ SameState(e, restarted)
  <2>1. CASE e = NoPeer
    BY <2>1
  <2>2. CASE e # NoPeer
    <3> DEFINE more == {"restart"}
    <3>1. restarted = [e EXCEPT !.needs = @ \cup more]
      BY <2>2 DEF Needing
    <3>2. more \in SUBSET {"channel", "restart"} /\ e \in Peer /\ Promises(a, e, mic)
      BY <1>4, <2>2
    <3> HIDE DEF more, restarted
    <3> QED BY <2>2, <3>1, <3>2, NeedingKeeps DEF SameState
  <2> QED BY <2>1, <2>2
<1>7. e # NoPeer => restarted # NoPeer
  BY <1>6, PeersAssumption
<1> HIDE DEF restarted
<1>8. /\ f = NoPeer \/ (f \in Peer /\ Promises(a, f, mic))
      /\ e # NoPeer => f # NoPeer /\ SameState(e, f)
      /\ f # NoPeer => desired[a]
      /\ e = NoPeer /\ f # NoPeer => f.sig = "stable"
      /\ why = "restore" /\ link[a] = "on" /\ desired[a] => f # NoPeer
  BY <1>2, <1>4, <1>6, <1>7, ReconciledIs
<1> HIDE DEF f
<1>9. /\ o \in Browsers /\ o # a
      /\ pc'[a] = f /\ pc'[o] = pc[o]
      /\ refreshing'[a] = refreshing[a] \ {why} /\ refreshing'[o] = refreshing[o]
  BY <1>1, <1>2, <1>3, TwoBrowsers DEF Typed
<1>10. Typed'
  <2>1. pc' \in [Browsers -> Peer \cup {NoPeer}]
    BY <1>2, <1>3, <1>8 DEF Typed
  <2>2. refreshing' \in [Browsers -> SUBSET {"refresh", "restore"}]
    BY <1>1, <1>2 DEF Typed
  <2> QED BY <1>1, <1>2, <2>1, <2>2 DEF Typed
<1>11. Session(a)'
  <2>1. page[a] # "starting"
    BY <1>1, <1>2 DEF Session
  <2>2. link[a] = "on" /\ desired[a] /\ f = NoPeer =>
          e = NoPeer /\ ("restore" \in refreshing[a] \ {why} \/ Has(inbox[a], "ready"))
    BY <1>2, <1>5, <1>8 DEF Session, e
  <2> QED BY <1>1, <1>2, <1>8, <1>9, <2>1, <2>2 DEF Session
<1>12. OthersKept(a)
  BY <1>1, <1>9 DEF OthersKept
<1>13. pc'[a] # NoPeer => pc'[a].sig = "stable" \/ (pc[a] # NoPeer /\ SameState(pc[a], pc'[a]))
  BY <1>5, <1>8, <1>9
<1>14. Fresh(a) /\ link[o] = "on" /\ pc[a] # NoPeer => pc'[a] # NoPeer /\ SameState(pc[a], pc'[a])
  BY <1>8, <1>9 DEF e
<1> QED BY <1>1, <1>10, <1>11, <1>12, <1>13, <1>14, QuietKeeps

\* A page has started and goes through what came early.
LEMMA InitDoneKeeps ==
  ASSUME VInv, NEW a \in Browsers, InitDone(a)
  PROVE  VInv'
<1> DEFINE o == Other(a)
<1>1. Typed /\ Session(a) /\ o \in Browsers /\ o # a
  BY TwoBrowsers DEF VInv
<1>2. /\ page[a] = "starting" /\ page' = [page EXCEPT ![a] = "replaying"]
      /\ readyPending' = [readyPending EXCEPT ![a] = FALSE]
      /\ refreshing' = IF readyPending[a] THEN [refreshing EXCEPT ![a] = @ \cup {"restore"}] ELSE refreshing
      /\ UNCHANGED <<link, inbox, early, shown, desired, pc, mic, drawn, faults>>
  BY DEF InitDone
<1>3. /\ page'[a] = "replaying" /\ page'[o] = page[o] /\ refreshing'[o] = refreshing[o]
  BY <1>1, <1>2 DEF Typed
<1>4. Typed'
  BY <1>1, <1>2 DEF Typed
<1>5. Session(a)'
  BY <1>1, <1>2, <1>3 DEF Session
<1>6. OthersKept(a)
  BY <1>2, <1>3 DEF OthersKept
<1>7. pc[a] = NoPeer
  BY <1>1, <1>2 DEF Session
<1> QED BY <1>1, <1>2, <1>4, <1>5, <1>6, <1>7, QuietKeeps

\* Who starts over for nothing renders the other one, if that one is there.
LEMMA FreshShows ==
  ASSUME VInv, NEW a \in Browsers, Fresh(a), link[Other(a)] = "on"
  PROVE  shown[a] /\ ~Has(inbox[a], "left")
<1>1. inbox[a] \in Seq(Event) /\ shown[a] \in BOOLEAN /\ Listed(a) /\ link[a] = "on" /\ ~Renews(inbox[a])
  BY DEF VInv, Typed, Fresh
<1>2. (link[Other(a)] # "off") = TRUE
  OBVIOUS
<1>3. Right(inbox[a], shown[a], TRUE)
  BY <1>1, <1>2 DEF Listed
<1> QED BY <1>1, <1>3, RightFresh

\* A page is up and renders the list it has.
LEMMA StartUpKeeps ==
  ASSUME VInv, NEW a \in Browsers, StartUp(a)
  PROVE  VInv'
<1> DEFINE o == Other(a)
           f == Reconciled(a, pc[a], shown[a])
<1>1. Typed /\ Session(a) /\ o \in Browsers /\ o # a
  BY TwoBrowsers DEF VInv
<1>2. /\ page[a] = "replaying" /\ early[a] = <<>> /\ page' = [page EXCEPT ![a] = "up"]
      /\ desired' = [desired EXCEPT ![a] = shown[a]] /\ pc' = [pc EXCEPT ![a] = f]
      /\ refreshing' = [refreshing EXCEPT ![a] = refreshing[a] \cup (IF shown[a] THEN {"refresh"} ELSE {})]
      /\ UNCHANGED <<link, inbox, readyPending, early, shown, mic, drawn, faults>>
  BY DEF StartUp, SetDesiredPeers
<1>3. shown[a] \in BOOLEAN
  BY <1>1 DEF Typed
<1>4. /\ f = NoPeer \/ (f \in Peer /\ Promises(a, f, mic))
      /\ shown[a] <=> f # NoPeer
      /\ shown[a] /\ pc[a] # NoPeer => f = pc[a]
      /\ shown[a] /\ pc[a] = NoPeer => f.sig = "stable"
  BY <1>3, EntryIs, ReconciledIs
<1> HIDE DEF f
<1>5. /\ page'[a] = "up" /\ desired'[a] = shown[a] /\ pc'[a] = f
      /\ page'[o] = page[o] /\ desired'[o] = desired[o] /\ pc'[o] = pc[o] /\ refreshing'[o] = refreshing[o]
  BY <1>1, <1>2 DEF Typed
<1>6. Typed'
  BY <1>1, <1>2, <1>4 DEF Typed
<1>7. Session(a)'
  BY <1>1, <1>2, <1>4, <1>5 DEF Session
<1>8. OthersKept(a)
  BY <1>2, <1>5 DEF OthersKept
<1>9. pc'[a] # NoPeer => pc'[a].sig = "stable" \/ (pc[a] # NoPeer /\ SameState(pc[a], pc'[a]))
  BY <1>4, <1>5 DEF SameState
<1>10. Fresh(a) /\ link[o] = "on" /\ pc[a] # NoPeer => pc'[a] # NoPeer /\ SameState(pc[a], pc'[a])
  BY <1>4, <1>5, FreshShows DEF SameState
<1> QED BY <1>1, <1>2, <1>6, <1>7, <1>8, <1>9, <1>10, QuietKeeps

\* A step that only changes an entry, and not its negotiation.
LEMMA EntryKeeps ==
  ASSUME VInv, NEW a \in Browsers, pc[a] # NoPeer, NEW f \in Peer, pc' = [pc EXCEPT ![a] = f],
         SameState(pc[a], f), Promises(a, f, mic'), mic' = mic \/ (a = Polite /\ mic' \in BOOLEAN),
         UNCHANGED <<link, inbox, session, desired, refreshing, drawn>>
  PROVE  VInv'
<1> DEFINE o == Other(a)
<1>1. Typed /\ Session(a) /\ o \in Browsers /\ o # a /\ desired[a] /\ f # NoPeer
  BY TwoBrowsers, EntryIs, PeersAssumption DEF VInv
<1>2. pc'[a] = f /\ pc'[o] = pc[o]
  BY <1>1 DEF Typed
<1>3. Typed'
  BY <1>1 DEF Typed, session
<1>4. Session(a)'
  BY <1>1, <1>2 DEF Session, session
<1>5. OthersKept(a)
  BY <1>2 DEF OthersKept, session
<1> QED BY <1>1, <1>2, <1>3, <1>4, <1>5, QuietKeeps DEF session

\* A connection comes up.
LEMMA IceConnectsKeeps ==
  ASSUME VInv, NEW a \in Browsers, IceConnects(a)
  PROVE  VInv'
<1> DEFINE e == pc[a]
           f == [e EXCEPT !.ice = "connected", !.timer = FALSE]
<1>1. e # NoPeer
  BY TwoBrowsers DEF IceConnects, Matched, HasPeer
<1>2. e \in Peer /\ Promises(a, e, mic)
  BY <1>1, EntryIs
<1>3. pc' = [pc EXCEPT ![a] = f] /\ UNCHANGED <<link, inbox, session, desired, refreshing, mic, drawn>>
  BY DEF IceConnects, VInv, Typed
<1>4. UNCHANGED <<link, inbox, session, desired, refreshing, drawn>> /\ mic' = mic
  BY <1>3
<1> HIDE DEF e
<1>5. f \in Peer /\ Promises(a, f, mic) /\ SameState(e, f)
  <2>1. f = Up(e)
    BY DEF Up
  <2> HIDE DEF f
  <2> QED BY <1>2, <2>1, ConnectingKeeps DEF SameState
<1> HIDE DEF f
<1>6. Promises(a, f, mic') /\ pc[a] # NoPeer /\ SameState(pc[a], f)
  BY <1>1, <1>4, <1>5 DEF e
<1> QED BY <1>3, <1>4, <1>5, <1>6, EntryKeeps

\* A connection fails.
LEMMA IceFailsKeeps ==
  ASSUME VInv, NEW a \in Browsers, IceFails(a)
  PROVE  VInv'
<1> DEFINE e == pc[a]
           f == [e EXCEPT !.ice = "failed", !.timer = TRUE]
<1>1. e # NoPeer
  BY DEF IceFails, HasPeer
<1>2. e \in Peer /\ Promises(a, e, mic)
  BY <1>1, EntryIs
<1>3. pc' = [pc EXCEPT ![a] = f] /\ UNCHANGED <<link, inbox, session, desired, refreshing, mic, drawn>>
  BY DEF IceFails, VInv, Typed
<1>4. UNCHANGED <<link, inbox, session, desired, refreshing, drawn>> /\ mic' = mic
  BY <1>3
<1> HIDE DEF e
<1>5. f \in Peer /\ Promises(a, f, mic) /\ SameState(e, f)
  <2>1. f = Down(e)
    BY DEF Down
  <2> HIDE DEF f
  <2> QED BY <1>2, <2>1, FailingKeeps DEF SameState
<1> HIDE DEF f
<1>6. Promises(a, f, mic') /\ pc[a] # NoPeer /\ SameState(pc[a], f)
  BY <1>1, <1>4, <1>5 DEF e
<1> QED BY <1>3, <1>4, <1>5, <1>6, EntryKeeps

\* The timer of a failed connection fires.
LEMMA RestartFiresKeeps ==
  ASSUME VInv, NEW a \in Browsers, RestartFires(a)
  PROVE  VInv'
<1> DEFINE e == pc[a]
           f == Restarted(a)
<1>1. e # NoPeer
  BY DEF RestartFires, HasPeer
<1>2. e \in Peer /\ Promises(a, e, mic) /\ desired[a]
  BY <1>1, EntryIs
<1>3. pc' = [pc EXCEPT ![a] = f] /\ UNCHANGED <<link, inbox, session, desired, refreshing, drawn>> /\ mic' = mic
  BY DEF RestartFires
<1>4. f = IF [e EXCEPT !.timer = FALSE].ice # "connected"
          THEN Needing([e EXCEPT !.timer = FALSE], "restart") ELSE [e EXCEPT !.timer = FALSE]
  BY <1>2 DEF Restarted
<1> HIDE DEF e, f
<1>5. f \in Peer /\ Promises(a, f, mic) /\ SameState(e, f)
  BY <1>2, <1>4, RestartingKeeps DEF SameState
<1>6. Promises(a, f, mic') /\ pc[a] # NoPeer /\ SameState(pc[a], f)
  BY <1>1, <1>3, <1>5 DEF e
<1> QED BY <1>3, <1>5, <1>6, EntryKeeps

\* The microphone is switched on.
LEMMA StartMicKeeps ==
  ASSUME VInv, StartMic
  PROVE  VInv'
<1> DEFINE e == pc[Polite]
           f == IF e.sig # "remote" /\ e.agreed = <<>> THEN e ELSE Needing(e, "channel")
<1>1. /\ Polite \in Browsers /\ mic' = TRUE /\ Typed /\ Session(Polite)
      /\ UNCHANGED <<link, inbox, page, readyPending, early, shown, desired, refreshing, drawn>>
  <2>1. Polite \in Browsers
    BY DEF Browsers
  <2> QED BY <2>1 DEF StartMic, VInv, session
<1>2. CASE e = NoPeer
  <2>1. pc' = [pc EXCEPT ![Polite] = NoPeer]
    BY <1>2 DEF StartMic
  <2>2. pc' = pc
    BY <1>1, <1>2, <2>1 DEF Typed
  <2>3. Typed'
    BY <1>1, <2>2 DEF Typed
  <2>4. Session(Polite)'
    BY <1>1, <1>2, <2>2 DEF Session
  <2>5. OthersKept(Polite)
    BY <1>1, <2>2 DEF OthersKept
  <2> QED BY <1>1, <1>2, <2>2, <2>3, <2>4, <2>5, QuietKeeps
<1>3. CASE e # NoPeer
  <2>1. e \in Peer /\ Promises(Polite, e, mic)
    BY <1>1, <1>3, EntryIs
  <2>2. pc' = [pc EXCEPT ![Polite] = f]
    BY <1>3 DEF StartMic
  <2> HIDE DEF e
  <2>3. f \in Peer /\ Promises(Polite, f, TRUE) /\ SameState(e, f)
    BY <2>1, MicKeeps, ZenonT(30) DEF SameState
  <2> HIDE DEF f
  <2>4. Promises(Polite, f, mic') /\ pc[Polite] # NoPeer /\ SameState(pc[Polite], f)
    BY <1>1, <1>3, <2>3 DEF e
  <2>5. UNCHANGED <<link, inbox, session, desired, refreshing, drawn>> /\ mic' \in BOOLEAN
    BY <1>1 DEF session
  <2> QED BY <1>1, <2>2, <2>3, <2>4, <2>5, EntryKeeps
<1> QED BY <1>2, <1>3

-------------------------------------------------------------------------------
(* Steps of a connection: what is in its queue is worked off.              *)

\* An entry that answers offers, or makes one.
Busy(d, e) == Has(e.chain, "offer") \/ e.sig = "remote" \/ (d = Initiator /\ e.making)

\* A negotiating browser changes its own entry and keeps what it owes.
LEMMA LocalKeeps ==
  ASSUME VInv, NEW a \in Browsers, NEW o, o = Other(a), pc[a] # NoPeer,
         NEW f \in Peer, pc' = [pc EXCEPT ![a] = f], Promises(a, f, mic),
         UNCHANGED <<link, page, readyPending, early, shown, desired, refreshing, mic>>, drawn' \in Nat,
         inbox' \in [Browsers -> Seq(Event)], inbox'[a] = inbox[a], SaidTo(o),
         f.sig = "local" => Reaches(o)',
         f.sig = "local" /\ a = Polite => OffersLast(inbox'[Initiator]),
         Waits(o) /\ Busy(a, pc[a]) => Busy(a, f) \/ Arriving(o)'
  PROVE  VInv'
<1>1. Typed /\ Session(a) /\ o \in Browsers /\ o # a /\ desired[a] /\ f # NoPeer
  BY TwoBrowsers, EntryIs, PeersAssumption DEF VInv
<1>2. pc'[a] = f /\ pc'[o] = pc[o]
  BY <1>1 DEF Typed
<1>3. Typed'
  BY <1>1 DEF Typed
<1>4. Session(a)'
  BY <1>1, <1>2 DEF Session
<1>5. OthersKept(a)
  BY <1>2 DEF OthersKept
<1>6. Listed(a)'
  BY DEF Listed, VInv
<1>7. Waits(a)' => f.sig = "local"
  BY <1>2 DEF Waits
<1>8. Waits(o) /\ Reaches(a) => Reaches(a)' \/ Arriving(o)'
  BY <1>1, <1>2 DEF Reaches, Fresh, Busy
<1>9. LastSaid'
  <2>1. CASE a = Polite
    BY <1>7, <2>1 DEF LastSaid
  <2>2. CASE o = Polite
    <3>2. Gets(o)
      BY <1>1, <1>3, <1>5, OtherSide
    <3>3. Waits(Polite)' => Waits(Polite)
      BY <1>5, <2>2, <3>2, GetsKeeps
    <3>4. a = Initiator
      BY <2>2, TwoBrowsers
    <3> QED BY <3>3, <3>4 DEF LastSaid, VInv
  <2> QED BY <1>1, <2>1, <2>2, TwoBrowsers
<1> QED BY <1>3, <1>4, <1>5, <1>6, <1>7, <1>8, <1>9, StepKeeps

\* A signal is sent, and the entry changes; the timer is set when nobody is there.
LEMMA SignalledIs ==
  ASSUME VInv, NEW a \in Browsers, NEW o, o = Other(a), NEW e \in Peer, Promises(a, e, mic),
         NEW m \in Signal, Signalled(a, e, m)
  PROVE  \E f \in Peer :
           /\ pc' = [pc EXCEPT ![a] = f] /\ Promises(a, f, mic)
           /\ f.sig = e.sig /\ f.chain = e.chain /\ f.making = e.making
           /\ inbox' \in [Browsers -> Seq(Event)] /\ inbox'[a] = inbox[a] /\ SaidTo(o)
           /\ inbox'[o] = IF link[o] = "on" THEN Append(inbox[o], m) ELSE inbox[o]
<1>1. o \in Browsers /\ o # a /\ inbox \in [Browsers -> Seq(Event)] /\ m \in Event
  BY TwoBrowsers, SignalIs DEF VInv, Typed
<1>2. inbox' = IF link[o] = "on" THEN [inbox EXCEPT ![o] = @ \o <<m>>] ELSE inbox
  BY DEF Signalled, Sent
<1>3. inbox[o] \o <<m>> = Append(inbox[o], m) /\ Append(inbox[o], m) \in Seq(Event)
  BY <1>1, OneSent
<1>4. inbox' \in [Browsers -> Seq(Event)] /\ inbox'[a] = inbox[a]
      /\ inbox'[o] = IF link[o] = "on" THEN Append(inbox[o], m) ELSE inbox[o]
  BY <1>1, <1>2, <1>3
<1>5. SaidTo(o)
  BY <1>4 DEF SaidTo
<1> DEFINE t == [e EXCEPT !.timer = TRUE]
           f == IF link[o] = "off" THEN t ELSE e
<1>6. pc' = [pc EXCEPT ![a] = f]
  BY DEF Signalled
<1>7. t \in Peer /\ Promises(a, t, mic) /\ t.sig = e.sig /\ t.chain = e.chain /\ t.making = e.making
  BY TimerSet
<1> HIDE DEF t
<1>8. f \in Peer /\ Promises(a, f, mic) /\ f.sig = e.sig /\ f.chain = e.chain /\ f.making = e.making
  BY <1>7
<1> HIDE DEF f
<1> QED BY <1>4, <1>5, <1>6, <1>8

\* A browser begins an offer.
LEMMA MakeOfferKeeps ==
  ASSUME VInv, NEW a \in Browsers, MakeOffer(a)
  PROVE  VInv'
<1> DEFINE e == pc[a]
           o == Other(a)
           f == [e EXCEPT !.making = TRUE, !.chain = <<[type |-> "make"]>>]
<1>1. e # NoPeer /\ e.needs # {} /\ e.sig = "stable" /\ e.chain = <<>>
  BY DEF MakeOffer, HasPeer
<1>2. e \in Peer /\ Promises(a, e, mic)
  BY <1>1, EntryIs
<1>3. /\ pc' = [pc EXCEPT ![a] = f] /\ inbox' \in [Browsers -> Seq(Event)] /\ drawn' \in Nat
      /\ UNCHANGED <<link, inbox, page, readyPending, early, shown, desired, refreshing, mic>>
  BY DEF MakeOffer, session, VInv, Typed
<1>4. ~Busy(a, e)
  BY <1>1, <1>2, NothingThere DEF Busy, Promises
<1> HIDE DEF e
<1>5. f \in Peer /\ Promises(a, f, mic) /\ f.sig = "stable"
  <2>1. f = [e EXCEPT !.making = TRUE, !.chain = <<[type |-> "make"]>>]
    OBVIOUS
  <2> HIDE DEF f
  <2> QED BY <1>1, <1>2, <2>1, MakingKeeps
<1> HIDE DEF f
<1> QED BY <1>1, <1>3, <1>4, <1>5, LocalKeeps DEF SaidTo, e

\* The offer is made and sent.
LEMMA OfferMadeKeeps ==
  ASSUME VInv, NEW a \in Browsers, OfferMade(a)
  PROVE  VInv'
<1> DEFINE e == pc[a]
           o == Other(a)
           g == Offering(a)
           m == [type |-> "offer", id |-> drawn + 1]
<1>1. e # NoPeer /\ e.chain # <<>>
      /\ (Head(e.chain).type = "make" \/ (Head(e.chain).type = "reply" /\ e.sig # "remote"))
  BY DEF OfferMade, Ends, HasPeer
<1>2. e \in Peer /\ Promises(a, e, mic) /\ drawn \in Nat /\ drawn + 1 \in Nat
  BY <1>1, EntryIs DEF VInv, Typed
<1>3. /\ Signalled(a, g, m) /\ drawn' = drawn + 1
      /\ UNCHANGED <<link, page, readyPending, early, shown, desired, refreshing, mic>>
  BY DEF OfferMade, session
<1>4. m \in Signal /\ m.type = "offer" /\ m \in Event
  BY <1>2 DEF Signal, Event
<1>5. g = WithOffer(e, drawn + 1)
  BY DEF Offering, Done, WithOffer
<1>6. Has(e.chain, "offer") => Has(Tail(e.chain), "offer")
  BY <1>1, <1>2, MakeIsFirst
<1> HIDE DEF e, g, m
<1>7. g \in Peer /\ Promises(a, g, mic) /\ g.chain = Tail(e.chain) /\ e.sig # "remote"
  BY <1>1, <1>2, <1>5, OfferingKeeps
<1>8. PICK f \in Peer :
        /\ pc' = [pc EXCEPT ![a] = f] /\ Promises(a, f, mic)
        /\ f.sig = g.sig /\ f.chain = g.chain /\ f.making = g.making
        /\ inbox' \in [Browsers -> Seq(Event)] /\ inbox'[a] = inbox[a] /\ SaidTo(o)
        /\ inbox'[o] = IF link[o] = "on" THEN Append(inbox[o], m) ELSE inbox[o]
  BY <1>3, <1>4, <1>7, SignalledIs
<1>9. o \in Browsers /\ inbox[o] \in Seq(Event) /\ Session(o) /\ link'[o] = link[o]
  BY <1>3, TwoBrowsers DEF VInv, Typed
<1>10. /\ NewOffer(Append(inbox[o], m)) /\ OffersLast(Append(inbox[o], m))
       /\ Has(Append(inbox[o], m), "offer")
  BY <1>4, <1>9, Appended
<1>11. Reaches(o)'
  BY <1>8, <1>9, <1>10 DEF Reaches
<1>12. a = Polite => OffersLast(inbox'[Initiator])
  <2>1. a = Polite => o = Initiator
    BY TwoBrowsers
  <2> QED BY <1>8, <1>9, <1>10, <2>1, NothingThere DEF Session
<1>13. Waits(o) /\ Busy(a, e) => Busy(a, f) \/ Arriving(o)'
  <2>1. CASE Has(e.chain, "offer")
    BY <1>6, <1>7, <1>8, <2>1 DEF Busy
  <2>2. CASE a = Initiator
    BY <1>8, <1>10, <2>2, TwoBrowsers DEF Arriving, Waits, Fresh
  <2> QED BY <1>7, <2>1, <2>2 DEF Busy
<1>14. drawn' \in Nat
  BY <1>2, <1>3
<1> HIDE DEF o
<1> QED BY <1>1, <1>3, <1>8, <1>11, <1>12, <1>13, <1>14, LocalKeeps DEF e, o

\* An offer of the other side is taken over.
LEMMA OfferAcceptedKeeps ==
  ASSUME VInv, NEW a \in Browsers, OfferAccepted(a)
  PROVE  VInv'
<1> DEFINE e == pc[a]
           f == Accepting(a)
<1>1. e # NoPeer /\ e.chain # <<>> /\ Head(e.chain).type = "offer"
  BY DEF OfferAccepted, Ends, HasPeer
<1>2. e \in Peer /\ Promises(a, e, mic)
  BY <1>1, EntryIs
<1>3. /\ pc' = [pc EXCEPT ![a] = f] /\ inbox' \in [Browsers -> Seq(Event)] /\ drawn' \in Nat
      /\ UNCHANGED <<link, inbox, page, readyPending, early, shown, desired, refreshing, mic>>
  BY DEF OfferAccepted, session, VInv, Typed
<1>4. f = [[e EXCEPT !.chain = Tail(@)]
             EXCEPT !.sig = "remote", !.offer = Head(e.chain).id, !.answering = FALSE,
                    !.needs = @ \cup e.offered, !.offered = {},
                    !.chain = Append(@, [type |-> "reply"])]
  BY DEF Accepting, Done
<1> HIDE DEF e, f
<1>5. f \in Peer /\ Promises(a, f, mic) /\ f.sig = "remote"
  BY <1>1, <1>2, <1>4, AcceptingKeeps, ZenonT(30)
<1>6. Busy(a, f)
  BY <1>5 DEF Busy
<1> QED BY <1>1, <1>3, <1>5, <1>6, LocalKeeps DEF SaidTo, e

\* The answer is made and sent.
LEMMA AnswerMadeKeeps ==
  ASSUME VInv, NEW a \in Browsers, AnswerMade(a)
  PROVE  VInv'
<1> DEFINE e == pc[a]
           o == Other(a)
           g == Answering(a)
           m == [type |-> "answer", id |-> drawn + 1]
<1>1. e # NoPeer /\ e.chain # <<>> /\ Head(e.chain).type = "reply"
  BY DEF AnswerMade, Ends, HasPeer
<1>2. e \in Peer /\ Promises(a, e, mic) /\ drawn \in Nat /\ drawn + 1 \in Nat /\ mic \in BOOLEAN
  BY <1>1, EntryIs DEF VInv, Typed
<1>3. /\ Signalled(a, g, m) /\ drawn' = drawn + 1
      /\ UNCHANGED <<link, page, readyPending, early, shown, desired, refreshing, mic>>
  BY DEF AnswerMade, session
<1>4. m \in Signal /\ m.type = "answer" /\ m \in Event
  BY <1>2 DEF Signal, Event
<1>5. g = WithAnswer(e, drawn + 1, mic)
  BY DEF Answering, Done, WithAnswer
<1> HIDE DEF e, g, m
<1>6. g \in Peer /\ Promises(a, g, mic) /\ g.sig = "stable"
  BY <1>1, <1>2, <1>5, AnsweringKeeps
<1>7. PICK f \in Peer :
        /\ pc' = [pc EXCEPT ![a] = f] /\ Promises(a, f, mic)
        /\ f.sig = g.sig /\ f.chain = g.chain /\ f.making = g.making
        /\ inbox' \in [Browsers -> Seq(Event)] /\ inbox'[a] = inbox[a] /\ SaidTo(o)
        /\ inbox'[o] = IF link[o] = "on" THEN Append(inbox[o], m) ELSE inbox[o]
  BY <1>3, <1>4, <1>6, SignalledIs
<1>8. inbox[o] \in Seq(Event)
  BY TwoBrowsers DEF VInv, Typed
<1>9. Has(Append(inbox[o], m), "answer")
  BY <1>4, <1>8, Appended
<1>10. Waits(o) => Arriving(o)'
  BY <1>7, <1>9 DEF Arriving, Waits, Fresh
<1>11. drawn' \in Nat
  BY <1>2, <1>3
<1> HIDE DEF o
<1> QED BY <1>1, <1>3, <1>6, <1>7, <1>10, <1>11, LocalKeeps DEF e, o

\* An answer of the other side is taken over.
LEMMA AnswerAcceptedKeeps ==
  ASSUME VInv, NEW a \in Browsers, AnswerAccepted(a)
  PROVE  VInv'
<1> DEFINE e == pc[a]
           f == Answered(a)
<1>1. e # NoPeer /\ e.chain # <<>> /\ Head(e.chain).type = "answer" /\ e.sig = "local"
  BY DEF AnswerAccepted, Ends, HasPeer
<1>2. e \in Peer /\ Promises(a, e, mic) /\ mic \in BOOLEAN
  BY <1>1, EntryIs DEF VInv, Typed
<1>3. /\ pc' = [pc EXCEPT ![a] = f] /\ inbox' \in [Browsers -> Seq(Event)] /\ drawn' \in Nat
      /\ UNCHANGED <<link, inbox, page, readyPending, early, shown, desired, refreshing, mic>>
  BY DEF AnswerAccepted, session, VInv, Typed
<1>4. f = WithAgreement(e, mic)
  BY DEF Answered, Done, WithAgreement
<1>5. e.making = FALSE /\ (Has(e.chain, "offer") => Has(Tail(e.chain), "offer"))
  BY <1>1, <1>2, MakeIsFirst
<1> HIDE DEF e, f
<1>6. f \in Peer /\ Promises(a, f, mic) /\ f.sig = "stable" /\ f.chain = Tail(e.chain)
  BY <1>1, <1>2, <1>4, AnsweredKeeps
<1>7. Busy(a, e) => Busy(a, f)
  BY <1>1, <1>5, <1>6 DEF Busy
<1> QED BY <1>1, <1>3, <1>6, <1>7, LocalKeeps DEF SaidTo, e

\* An answer is refused, and the offer is made again.
LEMMA AnswerRejectedKeeps ==
  ASSUME VInv, NEW a \in Browsers, AnswerRejected(a)
  PROVE  VInv'
<1> DEFINE e == pc[a]
           f == [Done(a) EXCEPT !.timer = TRUE]
<1>1. e # NoPeer /\ e.chain # <<>> /\ Head(e.chain).type = "answer" /\ e.sig # "local"
  BY DEF AnswerRejected, Ends, HasPeer
<1>2. e \in Peer /\ Promises(a, e, mic)
  BY <1>1, EntryIs
<1>3. /\ pc' = [pc EXCEPT ![a] = f] /\ inbox' \in [Browsers -> Seq(Event)] /\ drawn' \in Nat
      /\ UNCHANGED <<link, inbox, page, readyPending, early, shown, desired, refreshing, mic>>
  BY DEF AnswerRejected, session, VInv, Typed
<1>4. f = WithRejection(e)
  BY DEF Done, WithRejection
<1>5. e.making = FALSE /\ (Has(e.chain, "offer") => Has(Tail(e.chain), "offer"))
  BY <1>1, <1>2, MakeIsFirst
<1> HIDE DEF e, f
<1>6. f \in Peer /\ Promises(a, f, mic) /\ f.sig = e.sig /\ f.chain = Tail(e.chain)
  BY <1>1, <1>2, <1>4, RejectingKeeps
<1>7. Busy(a, e) => Busy(a, f)
  BY <1>5, <1>6 DEF Busy
<1> QED BY <1>1, <1>3, <1>6, <1>7, LocalKeeps DEF SaidTo, e

-------------------------------------------------------------------------------
(* Steps that handle a signal.                                             *)

\* The first event of the inbox is handled, or the first early signal.
Took(a, m) ==
  \/ /\ link[a] = "on" /\ inbox[a] # <<>> /\ m = Head(inbox[a])
     /\ inbox' = [inbox EXCEPT ![a] = Tail(inbox[a])] /\ early' = early
  \/ /\ page[a] = "replaying" /\ early[a] # <<>> /\ m = Head(early[a])
     /\ early' = [early EXCEPT ![a] = Tail(early[a])] /\ inbox' = inbox

\* A signal that a browser takes from its inbox, or from what came early, is the only
\* one that is gone.
LEMMA TookKeeps ==
  ASSUME VInv, NEW a \in Browsers, NEW o, o = Other(a), NEW m \in Signal, Took(a, m),
         UNCHANGED <<link, page, shown>>
  PROVE  /\ inbox' \in [Browsers -> Seq(Event)] /\ early' \in [Browsers -> Seq(Signal)]
         /\ inbox'[o] = inbox[o] /\ early'[o] = early[o]
         /\ Renews(inbox'[a]) <=> Renews(inbox[a])
         /\ NewOffer(inbox[a]) => NewOffer(inbox'[a]) \/ (m.type = "offer" /\ Fresh(a))
         /\ Has(early[a], "offer") => Has(early'[a], "offer") \/ m.type = "offer"
         /\ \A type : Has(inbox[a], type) => Has(inbox'[a], type) \/ m.type = type
         /\ OffersLast(inbox[a]) => OffersLast(inbox'[a])
         /\ Listed(a)'
         /\ link[a] # "on" => inbox'[a] = <<>>
         /\ page[a] = "up" => early'[a] = <<>>
<1>1. /\ Typed /\ Session(a) /\ Listed(a) /\ o \in Browsers /\ o # a
      /\ inbox \in [Browsers -> Seq(Event)] /\ early \in [Browsers -> Seq(Signal)]
      /\ inbox[a] \in Seq(Event) /\ early[a] \in Seq(Signal)
  BY TwoBrowsers DEF VInv, Typed
<1>2. m.type \in Signals /\ m.type \notin Renewing /\ ~News(m)
  BY SignalIs DEF Signals, Renewing, News
<1>3. CASE /\ link[a] = "on" /\ inbox[a] # <<>> /\ m = Head(inbox[a])
           /\ inbox' = [inbox EXCEPT ![a] = Tail(inbox[a])] /\ early' = early
  <2> DEFINE s == inbox[a]
             t == Tail(s)
  <2>1. s \in Seq(Event) /\ s # <<>> /\ Head(s) = m /\ t \in Seq(Event)
    BY <1>1, <1>3
  <2>2. inbox'[a] = t /\ inbox'[o] = inbox[o] /\ inbox' \in [Browsers -> Seq(Event)]
    BY <1>1, <1>3, <2>1
  <2>3. /\ \A type : Has(s, type) <=> m.type = type \/ Has(t, type)
        /\ Renews(s) <=> Renews(t)
        /\ NewOffer(s) /\ (m.type # "offer" \/ Renews(s)) => NewOffer(t)
        /\ OffersLast(s) => OffersLast(t)
    BY <1>2, <2>1, Dropped
  <2>4. Listed(a)'
    <3> DEFINE there == link[o] # "off"
    <3>1. Right(s, shown[a], there)
      BY <1>1, <1>3 DEF Listed
    <3> HIDE DEF there, s
    <3>2. Right(t, shown[a], there)
      BY <1>2, <2>1, <3>1, RightDropped
    <3> QED BY <2>2, <3>2 DEF Listed, there
  <2>5. NewOffer(s) => NewOffer(t) \/ (m.type = "offer" /\ Fresh(a))
    BY <1>3, <2>3 DEF Fresh
  <2> QED BY <1>1, <1>3, <2>2, <2>3, <2>4, <2>5 DEF Session
<1>4. CASE /\ page[a] = "replaying" /\ early[a] # <<>> /\ m = Head(early[a])
           /\ early' = [early EXCEPT ![a] = Tail(early[a])] /\ inbox' = inbox
  <2> DEFINE s == early[a]
             t == Tail(s)
  <2>1. s \in Seq(Signal) /\ s # <<>> /\ Head(s) = m /\ t \in Seq(Signal)
    BY <1>1, <1>4
  <2>2. early'[a] = t /\ early'[o] = early[o] /\ early' \in [Browsers -> Seq(Signal)]
    BY <1>1, <1>4, <2>1
  <2>3. \A type : Has(s, type) <=> m.type = type \/ Has(t, type)
    BY <2>1, Dropped
  <2>4. Listed(a)'
    BY <1>1, <1>4 DEF Listed
  <2> QED BY <1>1, <1>4, <2>2, <2>3, <2>4 DEF Session
<1> QED BY <1>3, <1>4 DEF Took

\* A polite side that waits, and that the other side reaches, ends its waiting itself.
LEMMA PoliteYields ==
  ASSUME VInv, Waits(Polite), Reaches(Polite)
  PROVE  Arriving(Polite)
<1>1. Polite \in Browsers /\ inbox[Polite] \in Seq(Event) /\ Polite # Initiator
  BY PeersAssumption DEF VInv, Typed, Browsers
<1>2. NewOffer(inbox[Polite]) => Has(inbox[Polite], "offer")
  BY <1>1, OfferFacts
<1> QED BY <1>1, <1>2 DEF Waits, Fresh, Reaches, Arriving

\* A signal is queued, or ignored when offers collide.
LEMMA ReceivedKeeps ==
  ASSUME VInv, NEW a \in Browsers, page[a] # "starting", NEW m \in Signal, Took(a, m), Handled(a, m),
         UNCHANGED <<link, page, readyPending, shown, refreshing, mic, drawn>>
  PROVE  VInv'
<1> DEFINE o == Other(a)
           e == Connected(a, pc[a])
           ignored == Ignores(a, e, m)
           f == IF ignored THEN e ELSE Queued(e, m)
<1>1. /\ Typed /\ Session(a) /\ Awaited(a) /\ o \in Browsers /\ o # a
      /\ inbox[a] \in Seq(Event) /\ inbox[o] \in Seq(Event) /\ LastSaid
  BY TwoBrowsers DEF VInv, Typed
<1>2. pc' = [pc EXCEPT ![a] = f] /\ desired' = [desired EXCEPT ![a] = TRUE]
  BY DEF Handled
<1>3. /\ e \in Peer /\ Promises(a, e, mic)
      /\ pc[a] # NoPeer => e = pc[a]
      /\ pc[a] = NoPeer => e.sig = "stable"
  BY EntryIs, NewEntry DEF Connected
<1>4. /\ inbox' \in [Browsers -> Seq(Event)] /\ early' \in [Browsers -> Seq(Signal)]
      /\ inbox'[o] = inbox[o] /\ early'[o] = early[o]
      /\ Renews(inbox'[a]) <=> Renews(inbox[a])
      /\ NewOffer(inbox[a]) => NewOffer(inbox'[a]) \/ (m.type = "offer" /\ Fresh(a))
      /\ Has(early[a], "offer") => Has(early'[a], "offer") \/ m.type = "offer"
      /\ \A type : Has(inbox[a], type) => Has(inbox'[a], type) \/ m.type = type
      /\ OffersLast(inbox[a]) => OffersLast(inbox'[a])
      /\ Listed(a)'
      /\ link[a] # "on" => inbox'[a] = <<>>
      /\ page[a] = "up" => early'[a] = <<>>
  BY TookKeeps
<1>5. m.type = "offer" \/ m.type = "answer"
  BY SignalIs DEF Signals
<1> HIDE DEF e
<1>6. /\ Queued(e, m) \in Peer /\ Promises(a, Queued(e, m), mic)
      /\ Queued(e, m).sig = e.sig /\ Queued(e, m).making = e.making
      /\ Queued(e, m).chain = Append(e.chain, m)
      /\ m.type = "answer" => Queued(e, m).answering
      /\ e.chain \in Seq(Operations) /\ m \in Operations
  BY <1>3, QueueingKeeps
<1>7. \A type : Has(Append(e.chain, m), type) <=> Has(e.chain, type) \/ m.type = type
  BY <1>6, Appended
<1> HIDE DEF ignored
<1>8. /\ f \in Peer /\ Promises(a, f, mic) /\ f # NoPeer
      /\ f.sig = e.sig /\ f.making = e.making
      /\ \A type : Has(e.chain, type) => Has(f.chain, type)
      /\ ignored => f = e
      /\ ~ignored => Has(f.chain, m.type) /\ (m.type = "answer" => f.answering)
  BY <1>3, <1>6, <1>7, PeersAssumption
<1> HIDE DEF f
<1>9. /\ pc'[a] = f /\ pc'[o] = pc[o] /\ desired'[a] = TRUE /\ desired'[o] = desired[o]
  BY <1>1, <1>2 DEF Typed
<1>10. Typed'
  BY <1>1, <1>2, <1>4, <1>8 DEF Typed
<1>11. Session(a)'
  BY <1>1, <1>4, <1>8, <1>9 DEF Session
<1>12. OthersKept(a)
  BY <1>4, <1>9 DEF OthersKept
<1>13. SaidTo(o)
  BY <1>4 DEF SaidTo
<1>14. Waits(a)' => Waits(a) /\ pc[a] # NoPeer /\ e = pc[a]
  BY <1>3, <1>4, <1>8, <1>9 DEF Waits, Fresh
<1>15. Waits(a)' => Arriving(a)' \/ (Waits(a) /\ (Arriving(a) => Arriving(a)'))
  <2> HAVE Waits(a)'
  <2>1. CASE ~ignored
    BY <1>5, <1>8, <1>9, <2>1 DEF Arriving
  <2>2. CASE ignored
    <3>1. a = Initiator /\ m.type = "offer"
      BY <2>2 DEF ignored, Ignores
    <3>2. Has(inbox[a], "answer") => Has(inbox'[a], "answer")
      BY <1>4, <3>1
    <3> QED BY <1>8, <1>9, <1>14, <2>2, <3>1, <3>2, TwoBrowsers DEF Arriving
  <2> QED BY <2>1, <2>2
<1>16. Waits(o) /\ Reaches(a) => Reaches(a)' \/ Arriving(o)'
  <2> HAVE Waits(o) /\ Reaches(a)
  <2>1. Reaches(a)' \/ (m.type = "offer" /\ Fresh(a))
    BY <1>3, <1>4, <1>8, <1>9 DEF Reaches, Fresh
  <2> SUFFICES ASSUME m.type = "offer", Fresh(a)
               PROVE  Reaches(a)' \/ Arriving(o)'
    BY <2>1
  <2>2. Fresh(a)'
    BY <1>4 DEF Fresh
  <2>3. CASE ~ignored
    BY <1>8, <1>9, <2>2, <2>3 DEF Reaches
  <2>4. CASE ignored
    <3>1. a = Initiator /\ o = Polite /\ (e.making \/ (e.sig # "stable" /\ ~e.answering))
      BY <2>4, TwoBrowsers DEF ignored, Ignores, ReadyForOffer
    <3>2. CASE e.making
      BY <1>8, <1>9, <2>2, <3>1, <3>2 DEF Reaches
    <3>3. CASE e.sig = "remote"
      BY <1>8, <1>9, <2>2, <3>3 DEF Reaches
    <3>4. CASE e.sig = "local" /\ ~e.answering
      <4>1. pc[a] # NoPeer /\ e = pc[a] /\ Waits(a)
        BY <1>3, <3>4 DEF Waits
      <4>2. CASE Reaches(o)
        <5>1. Arriving(o)
          BY <3>1, <4>2, PoliteYields
        <5> QED BY <1>4, <1>9, <5>1 DEF Arriving
      <4>3. CASE Has(e.chain, "offer")
        BY <1>8, <1>9, <2>2, <4>3 DEF Reaches
      <4>4. CASE Has(inbox[a], "answer")
        <5>1. OffersLast(inbox'[a]) /\ Has(inbox'[a], "answer")
          BY <1>1, <1>4, <3>1, <4>4 DEF LastSaid
        <5>2. inbox'[a] \in Seq(Event) /\ ~Renews(inbox'[a])
          BY <1>4, <2>2 DEF Fresh
        <5>3. NewOffer(inbox'[a])
          BY <5>1, <5>2, OfferFacts
        <5> QED BY <5>3 DEF Reaches
      <4> QED BY <1>1, <3>1, <3>4, <4>1, <4>2, <4>3, <4>4, TwoBrowsers DEF Awaited, Arriving
    <3>5. e.sig \in {"stable", "local", "remote"}
      BY <1>3 DEF Peer
    <3> QED BY <3>1, <3>2, <3>3, <3>4, <3>5
  <2> QED BY <2>3, <2>4
<1>17. LastSaid'
  <2>1. CASE a = Polite
    <3>1. o = Initiator
      BY <2>1, TwoBrowsers
    <3> QED BY <1>1, <1>4, <1>14, <2>1, <3>1 DEF LastSaid
  <2>2. CASE a = Initiator
    <3>1. o = Polite
      BY <2>2, TwoBrowsers
    <3>2. Waits(Polite)' => Waits(Polite)
      BY <1>4, <1>9, <3>1 DEF Waits, Fresh
    <3> QED BY <1>1, <1>4, <2>2, <3>2 DEF LastSaid
  <2> QED BY <2>1, <2>2 DEF Browsers
<1> HIDE DEF o
<1> QED BY <1>4, <1>10, <1>11, <1>12, <1>13, <1>15, <1>16, <1>17, StepKeeps DEF o

\* A signal that came early is handled.
LEMMA ReplayKeeps ==
  ASSUME VInv, NEW a \in Browsers, Replay(a)
  PROVE  VInv'
<1> DEFINE m == Head(early[a])
<1>1. /\ page[a] = "replaying" /\ early[a] # <<>> /\ early' = [early EXCEPT ![a] = Tail(early[a])]
      /\ Handled(a, m) /\ inbox' = inbox
      /\ UNCHANGED <<link, page, readyPending, shown, refreshing, mic, drawn>>
  BY DEF Replay
<1>2. m \in Signal
  BY <1>1, WithoutFirst DEF VInv, Typed
<1>3. Took(a, m)
  BY <1>1 DEF Took
<1> HIDE DEF m
<1> QED BY <1>1, <1>2, <1>3, ReceivedKeeps

\* A signal is handled, or put aside while the page starts.
LEMMA HandleSignalKeeps ==
  ASSUME VInv, NEW a \in Browsers, HandleSignal(a)
  PROVE  VInv'
<1> DEFINE m == Head(inbox[a])
           o == Other(a)
<1>1. /\ link[a] = "on" /\ inbox[a] # <<>> /\ m.type \in Signals
      /\ inbox' = [inbox EXCEPT ![a] = Tail(inbox[a])]
      /\ IF page[a] = "starting"
         THEN early' = [early EXCEPT ![a] = Append(early[a], m)] /\ UNCHANGED <<desired, pc>>
         ELSE Handled(a, m) /\ early' = early
      /\ UNCHANGED <<link, page, readyPending, shown, refreshing, mic, drawn>>
  BY DEF HandleSignal, Got, Taken, Message, Signals
<1>2. /\ Typed /\ Session(a) /\ Listed(a) /\ o \in Browsers /\ o # a /\ LastSaid
      /\ inbox[a] \in Seq(Event) /\ early[a] \in Seq(Signal)
  BY TwoBrowsers DEF VInv, Typed
<1>3. m \in Signal
  BY <1>1, <1>2, WithoutFirst, EventIs
<1>4. CASE page[a] # "starting"
  <2>1. Took(a, m)
    BY <1>1, <1>4 DEF Took
  <2> HIDE DEF m
  <2> QED BY <1>1, <1>3, <1>4, <2>1, ReceivedKeeps
<1>5. CASE page[a] = "starting"
  <2> DEFINE s == inbox[a]
             t == Tail(s)
             q == Append(early[a], m)
  <2>1. early' = [early EXCEPT ![a] = q] /\ UNCHANGED <<desired, pc>> /\ pc[a] = NoPeer
    BY <1>1, <1>2, <1>5 DEF Session
  <2>2. t \in Seq(Event) /\ q \in Seq(Signal)
    BY <1>1, <1>2, <1>3
  <2>3. /\ inbox'[a] = t /\ inbox'[o] = inbox[o] /\ early'[a] = q /\ early'[o] = early[o]
    BY <1>1, <1>2, <2>1 DEF Typed
  <2>4. /\ \A type : Has(s, type) <=> m.type = type \/ Has(t, type)
        /\ Renews(s) <=> m.type \in Renewing \/ Renews(t)
        /\ NewOffer(s) /\ (m.type # "offer" \/ Renews(s)) => NewOffer(t)
        /\ OffersLast(s) => OffersLast(t)
    BY <1>1, <1>2, Dropped
  <2>5. \A type : Has(q, type) <=> Has(early[a], type) \/ m.type = type
    BY <1>2, <1>3, Appended
  <2>6. m.type \notin Renewing /\ ~News(m) /\ m.type # "ready"
    BY <1>1 DEF Renewing, News, Signals
  <2>7. Listed(a)'
    <3> DEFINE there == link[o] # "off"
    <3>1. Right(s, shown[a], there)
      BY <1>1, <1>2 DEF Listed
    <3> HIDE DEF there
    <3>2. Right(t, shown[a], there)
      BY <1>1, <1>2, <2>6, <3>1, RightDropped
    <3> QED BY <1>1, <2>3, <3>2 DEF Listed, there
  <2> HIDE DEF m, s, t, q
  <2>8. Typed'
    BY <1>1, <1>2, <2>1, <2>2 DEF Typed
  <2>9. Session(a)'
    BY <1>1, <1>2, <1>5, <2>1, <2>3, <2>4, <2>6 DEF Session, s
  <2>10. OthersKept(a)
    BY <1>1, <2>1, <2>3 DEF OthersKept
  <2>11. SaidTo(o)
    BY <2>3 DEF SaidTo
  <2>12. ~Waits(a)'
    BY <2>1 DEF Waits
  <2>13. Reaches(a) => Reaches(a)'
    BY <1>1, <2>1, <2>3, <2>4, <2>5, <2>6 DEF Reaches, Fresh, s
  <2>14. LastSaid'
    <3>1. CASE a = Polite
      BY <2>12, <3>1 DEF LastSaid
    <3>2. CASE a = Initiator
      <4>1. o = Polite
        BY <3>2, TwoBrowsers
      <4>2. Waits(Polite)' => Waits(Polite)
        BY <1>1, <2>1, <2>3, <4>1 DEF Waits, Fresh
      <4> QED BY <1>2, <2>3, <2>4, <3>2, <4>2 DEF LastSaid, s
    <3> QED BY <3>1, <3>2 DEF Browsers
  <2> HIDE DEF o
  <2> QED BY <1>1, <2>7, <2>8, <2>9, <2>10, <2>11, <2>12, <2>13, <2>14, StepKeeps DEF o
<1> QED BY <1>4, <1>5

-------------------------------------------------------------------------------
(* Steps that render the list of players.                                  *)

\* News about the other side is taken, and the entry and the list agree with it.
LEMMA NewsKeeps ==
  ASSUME VInv, NEW a \in Browsers, NEW m \in Event, News(m), link[a] = "on", inbox[a] # <<>>,
         m = Head(inbox[a]), inbox' = [inbox EXCEPT ![a] = Tail(inbox[a])],
         NEW f, pc' = [pc EXCEPT ![a] = f], f = NoPeer \/ (f \in Peer /\ Promises(a, f, mic)),
         f # NoPeer => f.sig = "stable" \/ (f = pc[a] /\ m.type = "left"),
         NEW w \in BOOLEAN, desired' = [desired EXCEPT ![a] = w], f # NoPeer => w,
         NEW r \in SUBSET {"refresh", "restore"}, refreshing' = [refreshing EXCEPT ![a] = r],
         NEW now \in BOOLEAN, now <=> Says(m), shown' = [shown EXCEPT ![a] = now],
         UNCHANGED <<link, page, early, mic, drawn>>, readyPending' \in [Browsers -> BOOLEAN],
         page[a] = "starting" => f = NoPeer /\ r = {} /\ ~w,
         page[a] = "up" /\ now => w,
         w => f # NoPeer \/ "restore" \in r \/ (m.type # "ready" /\ Has(inbox[a], "ready"))
  PROVE  VInv'
<1> DEFINE o == Other(a)
           s == inbox[a]
           t == Tail(s)
<1>1. /\ Typed /\ Session(a) /\ Listed(a) /\ o \in Browsers /\ o # a /\ LastSaid
      /\ s \in Seq(Event) /\ t \in Seq(Event)
  BY TwoBrowsers DEF VInv, Typed
<1>2. /\ inbox'[a] = t /\ inbox'[o] = inbox[o] /\ pc'[a] = f /\ pc'[o] = pc[o]
      /\ desired'[a] = w /\ desired'[o] = desired[o] /\ refreshing'[a] = r /\ refreshing'[o] = refreshing[o]
      /\ shown'[a] = now /\ shown'[o] = shown[o]
  BY <1>1 DEF Typed
<1>3. /\ \A type : Has(s, type) <=> m.type = type \/ Has(t, type)
      /\ Renews(s) <=> m.type \in Renewing \/ Renews(t)
      /\ NewOffer(s) /\ (m.type # "offer" \/ Renews(s)) => NewOffer(t)
      /\ OffersLast(s) => OffersLast(t)
  BY <1>1, Dropped
<1>4. m.type # "offer" /\ m.type # "answer" /\ (m.type = "left" \/ m.type \in Renewing)
  BY DEF News, Renewing
<1>5. Listed(a)'
  <2> DEFINE there == link[o] # "off"
  <2>1. Right(s, shown[a], there)
    BY <1>1 DEF Listed
  <2> HIDE DEF there
  <2>2. Right(t, now, there)
    BY <1>1, <2>1, RightDropped
  <2> QED BY <1>2, <2>2 DEF Listed, there
<1> HIDE DEF s, t
<1>6. Typed'
  BY <1>1 DEF Typed, s
<1>7. Session(a)'
  BY <1>1, <1>2, <1>3 DEF Session, s
<1>8. OthersKept(a)
  BY <1>2 DEF OthersKept
<1>9. SaidTo(o)
  BY <1>2 DEF SaidTo
<1>10. Waits(a)' => Waits(a) /\ f = pc[a] /\ m.type = "left"
  BY <1>2, <1>3 DEF Waits, Fresh, s, Renewing
<1>11. Waits(a)' => Waits(a) /\ (Arriving(a) => Arriving(a)')
  BY <1>2, <1>3, <1>4, <1>10 DEF Arriving, s
<1>12. Waits(o) /\ Reaches(a) => Reaches(a)'
  <2> HAVE Waits(o) /\ Reaches(a)
  <2>1. CASE NewOffer(s)
    BY <1>2, <1>3, <1>4, <2>1 DEF Reaches
  <2>2. CASE Fresh(a)
    <3>1. m.type = "left"
      BY <1>3, <1>4, <2>2 DEF Fresh, s
    <3>2. Has(s, "left")
      BY <1>3, <3>1
    <3> QED BY <2>2, <3>2, FreshShows DEF Waits, Fresh, s
  <2> QED BY <2>1, <2>2 DEF Reaches, s
<1>13. LastSaid'
  <2>1. CASE a = Polite
    <3>1. o = Initiator
      BY <2>1, TwoBrowsers
    <3> QED BY <1>1, <1>2, <1>10, <2>1, <3>1 DEF LastSaid
  <2>2. CASE a = Initiator
    <3>1. o = Polite
      BY <2>2, TwoBrowsers
    <3>2. Waits(Polite)' => Waits(Polite)
      BY <1>2, <3>1 DEF Waits, Fresh
    <3> QED BY <1>1, <1>2, <1>3, <2>2, <3>2 DEF LastSaid, s
  <2> QED BY <2>1, <2>2 DEF Browsers
<1> HIDE DEF o
<1> QED BY <1>5, <1>6, <1>7, <1>8, <1>9, <1>11, <1>12, <1>13, StepKeeps DEF o

\* What a rendered list does to an entry.
RendersTo(a, e, waiting, now, f, w, r) ==
  /\ w \in BOOLEAN /\ r \in SUBSET {"refresh", "restore"}
  /\ pc' = [pc EXCEPT ![a] = f] /\ desired' = [desired EXCEPT ![a] = w]
  /\ refreshing' = [refreshing EXCEPT ![a] = r] /\ shown' = [shown EXCEPT ![a] = now]
  /\ f = NoPeer \/ (f \in Peer /\ Promises(a, f, mic))
  /\ f # NoPeer => w
  /\ waiting \subseteq r
  /\ IF page[a] = "up" /\ shown[a] # now
     THEN w = now /\ (now <=> f # NoPeer) /\ (f # NoPeer => f = e \/ f.sig = "stable")
     ELSE f = e /\ w = desired[a] /\ r = waiting

\* Rendering the list leaves an entry where there is a player, or nothing as it was.
LEMMA RenderedIs ==
  ASSUME VInv, NEW a \in Browsers, NEW e, e = NoPeer \/ (e \in Peer /\ Promises(a, e, mic)),
         NEW waiting \in SUBSET {"refresh", "restore"}, NEW now \in BOOLEAN,
         Rendered(a, e, waiting, now), e # NoPeer => desired[a]
  PROVE  \E f, w, r : RendersTo(a, e, waiting, now, f, w, r)
<1>1. CASE page[a] = "up" /\ shown[a] # now
  <2> DEFINE f == Reconciled(a, e, now)
             r == waiting \cup (IF now THEN {"refresh"} ELSE {})
  <2>1. /\ pc' = [pc EXCEPT ![a] = f] /\ desired' = [desired EXCEPT ![a] = now]
        /\ refreshing' = [refreshing EXCEPT ![a] = r] /\ shown' = [shown EXCEPT ![a] = now]
    BY <1>1 DEF Rendered, SetDesiredPeers
  <2>2. /\ f = NoPeer \/ (f \in Peer /\ Promises(a, f, mic))
        /\ now <=> f # NoPeer
        /\ f # NoPeer => f = e \/ f.sig = "stable"
    BY ReconciledIs
  <2>3. r \in SUBSET {"refresh", "restore"} /\ waiting \subseteq r
    OBVIOUS
  <2> HIDE DEF f, r
  <2>4. RendersTo(a, e, waiting, now, f, now, r)
    BY <1>1, <2>1, <2>2, <2>3 DEF RendersTo
  <2> QED BY <2>4
<1>2. CASE ~(page[a] = "up" /\ shown[a] # now)
  <2>1. /\ pc' = [pc EXCEPT ![a] = e] /\ desired' = desired
        /\ refreshing' = [refreshing EXCEPT ![a] = waiting] /\ shown' = [shown EXCEPT ![a] = now]
    BY <1>2 DEF Rendered
  <2>2. desired = [desired EXCEPT ![a] = desired[a]] /\ desired[a] \in BOOLEAN
    BY DEF VInv, Typed
  <2>3. RendersTo(a, e, waiting, now, e, desired[a], waiting)
    BY <1>2, <2>1, <2>2 DEF RendersTo
  <2> QED BY <2>3
<1> QED BY <1>1, <1>2

\* The other side is ready.
LEMMA HandleReadyKeeps ==
  ASSUME VInv, NEW a \in Browsers, HandleReady(a)
  PROVE  VInv'
<1> DEFINE m == Head(inbox[a])
           waiting == refreshing[a] \cup (IF page[a] = "starting" THEN {} ELSE {"restore"})
<1>1. /\ link[a] = "on" /\ inbox[a] # <<>> /\ m.type = "ready"
      /\ inbox' = [inbox EXCEPT ![a] = Tail(inbox[a])]
      /\ readyPending' = [readyPending EXCEPT ![a] = page[a] = "starting"]
      /\ Rendered(a, NoPeer, waiting, m.present)
      /\ UNCHANGED <<link, page, early, mic, drawn>>
  BY DEF HandleReady, Got, Taken, Message
<1>2. Typed /\ Session(a) /\ inbox[a] \in Seq(Event) /\ desired[a] \in BOOLEAN
  BY DEF VInv, Typed
<1>3. m \in Event /\ m.present \in BOOLEAN /\ News(m) /\ (m.present <=> Says(m))
  BY <1>1, <1>2, WithoutFirst, EventIs DEF News, Says
<1>4. waiting \in SUBSET {"refresh", "restore"} /\ readyPending' \in [Browsers -> BOOLEAN]
  BY <1>1, <1>2 DEF Typed
<1>5. page[a] = "starting" => waiting = {} /\ ~desired[a]
  BY <1>2 DEF Session
<1>6. page[a] # "starting" => "restore" \in waiting
  OBVIOUS
<1>7. page[a] = "up" /\ shown[a] => desired[a]
  BY <1>2 DEF Session
<1> HIDE DEF m, waiting
<1> DEFINE now == m.present
<1> HIDE DEF now
<1>8. now \in BOOLEAN /\ (now <=> Says(m)) /\ Rendered(a, NoPeer, waiting, now)
  BY <1>1, <1>3 DEF now
<1>9. PICK f, w, r : RendersTo(a, NoPeer, waiting, now, f, w, r)
  BY <1>4, <1>8, RenderedIs
<1>10. /\ f # NoPeer => f.sig = "stable"
       /\ page[a] = "starting" => f = NoPeer /\ r = {} /\ ~w
       /\ page[a] = "up" /\ now => w
       /\ w => "restore" \in r
  BY <1>5, <1>6, <1>7, <1>9 DEF RendersTo
<1> QED BY <1>1, <1>3, <1>4, <1>8, <1>9, <1>10, NewsKeeps DEF m, RendersTo

\* The other side has come back.
LEMMA HandleResetKeeps ==
  ASSUME VInv, NEW a \in Browsers, HandleReset(a)
  PROVE  VInv'
<1> DEFINE m == Head(inbox[a])
           e == AfterReset(a)
           now == TRUE
<1>1. /\ link[a] = "on" /\ inbox[a] # <<>> /\ m.type = "reset"
      /\ inbox' = [inbox EXCEPT ![a] = Tail(inbox[a])]
      /\ Rendered(a, e, refreshing[a], now)
      /\ UNCHANGED <<link, page, readyPending, early, mic, drawn>>
  BY DEF HandleReset, Got, Taken, Message
<1>2. /\ Typed /\ Session(a) /\ inbox[a] \in Seq(Event) /\ desired[a] \in BOOLEAN
      /\ refreshing[a] \in SUBSET {"refresh", "restore"} /\ readyPending' \in [Browsers -> BOOLEAN]
      /\ now \in BOOLEAN
  BY <1>1 DEF VInv, Typed
<1>3. m \in Event /\ News(m) /\ (now <=> Says(m)) /\ now
  BY <1>1, <1>2, WithoutFirst DEF News, Says
<1>4. /\ e = NoPeer \/ (e \in Peer /\ Promises(a, e, mic))
      /\ page[a] # "starting" /\ desired[a] <=> e # NoPeer
      /\ e # NoPeer => e.sig = "stable"
  BY <1>2, ReconciledIs DEF AfterReset
<1>5. page[a] = "starting" => refreshing[a] = {} /\ ~desired[a]
  BY <1>2 DEF Session
<1> HIDE DEF m, e, now
<1>6. PICK f, w, r : RendersTo(a, e, refreshing[a], now, f, w, r)
  BY <1>1, <1>2, <1>4, RenderedIs
<1>7. page[a] = "up" /\ shown[a] => desired[a]
  BY <1>2 DEF Session
<1>8. /\ f # NoPeer => f.sig = "stable"
      /\ page[a] = "starting" => f = NoPeer /\ r = {} /\ ~w
      /\ page[a] = "up" => w
      /\ w => f # NoPeer
  BY <1>2, <1>3, <1>4, <1>5, <1>6, <1>7 DEF RendersTo, Typed
<1>9. /\ w \in BOOLEAN /\ r \in SUBSET {"refresh", "restore"}
      /\ pc' = [pc EXCEPT ![a] = f] /\ desired' = [desired EXCEPT ![a] = w]
      /\ refreshing' = [refreshing EXCEPT ![a] = r] /\ shown' = [shown EXCEPT ![a] = now]
      /\ f = NoPeer \/ (f \in Peer /\ Promises(a, f, mic))
      /\ f # NoPeer => w
  BY <1>6 DEF RendersTo
<1>10. m = Head(inbox[a])
  BY DEF m
<1>11. /\ f # NoPeer => f.sig = "stable" \/ (f = pc[a] /\ m.type = "left")
       /\ page[a] = "up" /\ now => w
       /\ w => f # NoPeer \/ "restore" \in r \/ (m.type # "ready" /\ Has(inbox[a], "ready"))
       /\ UNCHANGED <<link, page, early, mic, drawn>>
       /\ m \in Event /\ News(m) /\ (now <=> Says(m)) /\ now \in BOOLEAN
  BY <1>1, <1>2, <1>3, <1>8
<1> QED BY <1>1, <1>2, <1>8, <1>9, <1>10, <1>11, NewsKeeps

\* The other side has left.
LEMMA HandleLeftKeeps ==
  ASSUME VInv, NEW a \in Browsers, HandleLeft(a)
  PROVE  VInv'
<1> DEFINE m == Head(inbox[a])
           e == pc[a]
           now == FALSE
<1>1. /\ link[a] = "on" /\ inbox[a] # <<>> /\ m.type = "left"
      /\ inbox' = [inbox EXCEPT ![a] = Tail(inbox[a])]
      /\ Rendered(a, e, refreshing[a], now)
      /\ UNCHANGED <<link, page, readyPending, early, mic, drawn>>
  BY DEF HandleLeft, Got, Taken, Message
<1>2. /\ Typed /\ Session(a) /\ inbox[a] \in Seq(Event) /\ desired[a] \in BOOLEAN
      /\ refreshing[a] \in SUBSET {"refresh", "restore"} /\ readyPending' \in [Browsers -> BOOLEAN]
      /\ now \in BOOLEAN
  BY <1>1 DEF VInv, Typed
<1>3. m \in Event /\ News(m) /\ (now <=> Says(m)) /\ ~now
  BY <1>1, <1>2, WithoutFirst DEF News, Says
<1>4. e = NoPeer \/ (e \in Peer /\ Promises(a, e, mic) /\ desired[a])
  BY EntryIs
<1>5. /\ page[a] = "starting" => e = NoPeer /\ refreshing[a] = {} /\ ~desired[a]
      /\ desired[a] => e # NoPeer \/ "restore" \in refreshing[a] \/ Has(inbox[a], "ready")
  BY <1>1, <1>2 DEF Session
<1> HIDE DEF m, e, now
<1>6. PICK f, w, r : RendersTo(a, e, refreshing[a], now, f, w, r)
  BY <1>1, <1>2, <1>4, RenderedIs
<1>7. /\ f # NoPeer => f = pc[a]
      /\ page[a] = "starting" => f = NoPeer /\ r = {} /\ ~w
      /\ w => f # NoPeer \/ "restore" \in r \/ Has(inbox[a], "ready")
  BY <1>3, <1>5, <1>6 DEF RendersTo, e
<1> QED BY <1>1, <1>2, <1>3, <1>6, <1>7, NewsKeeps DEF m, RendersTo

-------------------------------------------------------------------------------
(* Connections to the server that break and come back.                     *)

\* What a broken connection to the server takes with it.
LEMMA GoneIs ==
  ASSUME VInv, NEW a \in Browsers, NEW o, o = Other(a), NEW noticed \in BOOLEAN, Gone(a, noticed)
  PROVE  /\ link[a] = "on" /\ link'[a] # "on" /\ (noticed <=> link'[a] = "off") /\ link'[o] = link[o]
         /\ pc'[a] = NoPeer /\ pc'[o] = pc[o] /\ inbox'[a] = <<>>
         /\ IF link[o] = "on" /\ noticed
            THEN \E m \in Event : m.type = "left" /\ inbox'[o] = Append(inbox[o], m)
            ELSE inbox'[o] = inbox[o]
         /\ link' \in [Browsers -> {"on", "lost", "off"}] /\ inbox' \in [Browsers -> Seq(Event)]
         /\ pc' \in [Browsers -> Peer \cup {NoPeer}]
<1>1. Typed /\ o \in Browsers /\ o # a /\ inbox[o] \in Seq(Event)
  BY TwoBrowsers DEF VInv, Typed
<1>2. /\ link[a] = "on" /\ link' = [link EXCEPT ![a] = IF noticed THEN "off" ELSE "lost"]
      /\ inbox' = [Sent(inbox, o, IF noticed THEN <<[type |-> "left"]>> ELSE <<>>) EXCEPT ![a] = <<>>]
      /\ pc' = [pc EXCEPT ![a] = NoPeer]
  BY DEF Gone
<1> DEFINE m == [type |-> "left"]
<1>3. m \in Event /\ m.type = "left"
  BY DEF Event
<1> HIDE DEF m
<1>4. inbox[o] \o <<m>> = Append(inbox[o], m) /\ inbox[o] \o <<>> = inbox[o]
      /\ Append(inbox[o], m) \in Seq(Event)
  BY <1>1, <1>3, OneSent
<1> DEFINE boxes == Sent(inbox, o, IF noticed THEN <<m>> ELSE <<>>)
<1>5. boxes \in [Browsers -> Seq(Event)]
      /\ boxes[o] = IF link[o] = "on" /\ noticed THEN Append(inbox[o], m) ELSE inbox[o]
  <2>1. CASE noticed
    BY <1>1, <1>4, <2>1 DEF Sent, Typed
  <2>2. CASE ~noticed
    BY <1>1, <1>4, <2>2 DEF Sent, Typed
  <2> QED BY <2>1, <2>2
<1>6. inbox' = [boxes EXCEPT ![a] = <<>>]
  BY <1>2 DEF m
<1> HIDE DEF boxes
<1>7. <<>> \in Seq(Event)
  OBVIOUS
<1>8. inbox' \in [Browsers -> Seq(Event)] /\ inbox'[a] = <<>> /\ inbox'[o] = boxes[o]
  BY <1>1, <1>5, <1>6, <1>7
<1>9. /\ link'[a] # "on" /\ (noticed <=> link'[a] = "off") /\ link'[o] = link[o]
      /\ link' \in [Browsers -> {"on", "lost", "off"}]
  BY <1>1, <1>2 DEF Typed
<1>10. pc'[a] = NoPeer /\ pc'[o] = pc[o] /\ pc' \in [Browsers -> Peer \cup {NoPeer}]
  BY <1>1, <1>2 DEF Typed
<1> QED BY <1>2, <1>3, <1>5, <1>8, <1>9, <1>10, ZenonT(30)

\* Whoever lost the connection has no entry, and the other side is told or will be.
LEMMA GoneKeeps ==
  ASSUME VInv, NEW a \in Browsers, NEW noticed \in BOOLEAN, Gone(a, noticed),
         Typed', Session(a)', OthersKept(a)
  PROVE  VInv'
<1> DEFINE o == Other(a)
<1>1. /\ o \in Browsers /\ Other(o) = a /\ \A d \in Browsers : d = a \/ d = o
      /\ inbox[o] \in Seq(Event) /\ Listed(o)
  BY TwoBrowsers DEF VInv, Typed
<1>2. /\ link[a] = "on" /\ link'[a] # "on" /\ (noticed <=> link'[a] = "off") /\ link'[o] = link[o]
      /\ pc'[a] = NoPeer /\ inbox'[a] = <<>>
      /\ IF link[o] = "on" /\ noticed
         THEN \E m \in Event : m.type = "left" /\ inbox'[o] = Append(inbox[o], m)
         ELSE inbox'[o] = inbox[o]
      /\ inbox' \in [Browsers -> Seq(Event)]
  BY GoneIs
<1>3. Session(o)'
  BY <1>2, SessionGets
<1>4. Listed(o)'
  <2> SUFFICES ASSUME link[o] = "on"
               PROVE  Right(inbox'[o], shown[o], link'[a] # "off")
    BY <1>1, <1>2 DEF Listed, OthersKept
  <2> DEFINE there == link'[a] # "off"
  <2>1. CASE noticed
    <3>1. PICK m \in Event : m.type = "left" /\ inbox'[o] = Append(inbox[o], m)
      BY <1>2, <2>1
    <3>2. News(m) /\ (Says(m) <=> there)
      BY <1>2, <2>1, <3>1 DEF News, Says
    <3> HIDE DEF there
    <3>3. Right(inbox'[o], shown[o], there)
      BY <1>1, <3>1, <3>2, RightAppended
    <3> QED BY <3>3 DEF there
  <2>2. CASE ~noticed
    <3>1. inbox'[o] = inbox[o] /\ there = TRUE /\ (link[a] # "off") = TRUE
      BY <1>2, <2>2
    <3> QED BY <1>1, <3>1 DEF Listed
  <2> QED BY <2>1, <2>2
<1>5. Listed(a)' /\ ~Waits(a)' /\ Reaches(a)'
  BY <1>2 DEF Listed, Waits, Fresh, Reaches
<1>6. Awaited(a)' /\ Awaited(o)'
  BY <1>1, <1>5 DEF Awaited
<1>7. LastSaid'
  <2>1. CASE a = Polite
    BY <1>5, <2>1 DEF LastSaid
  <2>2. CASE a = Initiator
    BY <1>2, <2>2, NothingThere DEF LastSaid
  <2> QED BY <2>1, <2>2 DEF Browsers
<1> HIDE DEF o
<1> QED BY <1>1, <1>3, <1>4, <1>5, <1>6, <1>7 DEF VInv

\* A connection to the server breaks.
LEMMA DropKeeps ==
  ASSUME VInv, NEW a \in Browsers, Drop(a)
  PROVE  VInv'
<1> DEFINE o == Other(a)
<1>1. PICK noticed \in BOOLEAN : Gone(a, noticed)
  BY DEF Drop
<1>2. UNCHANGED <<page, readyPending, early, shown, desired, refreshing, mic, drawn>>
  BY DEF Drop, session
<1>3. /\ link'[a] # "on" /\ link'[o] = link[o]
      /\ pc'[a] = NoPeer /\ pc'[o] = pc[o] /\ inbox'[a] = <<>>
      /\ link' \in [Browsers -> {"on", "lost", "off"}] /\ inbox' \in [Browsers -> Seq(Event)]
      /\ pc' \in [Browsers -> Peer \cup {NoPeer}]
  BY <1>1, GoneIs
<1>4. Typed /\ Session(a)
  BY DEF VInv
<1>5. Typed'
  BY <1>2, <1>3, <1>4 DEF Typed
<1>6. Session(a)'
  BY <1>2, <1>3, <1>4 DEF Session
<1>7. OthersKept(a)
  BY <1>2, <1>3 DEF OthersKept
<1> QED BY <1>1, <1>5, <1>6, <1>7, GoneKeeps

\* A page is loaded again.
LEMMA ReloadKeeps ==
  ASSUME VInv, NEW a \in Browsers, Reload(a)
  PROVE  VInv'
<1> DEFINE o == Other(a)
<1>1. /\ Gone(a, TRUE)
      /\ page' = [page EXCEPT ![a] = "starting"] /\ readyPending' = [readyPending EXCEPT ![a] = FALSE]
      /\ early' = [early EXCEPT ![a] = <<>>]
      /\ shown' = [shown EXCEPT ![a] = FALSE] /\ desired' = [desired EXCEPT ![a] = FALSE]
      /\ refreshing' = [refreshing EXCEPT ![a] = {}] /\ mic' = (mic /\ a # Polite)
      /\ UNCHANGED drawn
  BY DEF Reload
<1> DEFINE noticed == TRUE
<1>2. noticed \in BOOLEAN /\ Gone(a, noticed)
  BY <1>1
<1> HIDE DEF noticed
<1>3. /\ link'[a] # "on" /\ link'[o] = link[o]
      /\ pc'[a] = NoPeer /\ pc'[o] = pc[o] /\ inbox'[a] = <<>>
      /\ link' \in [Browsers -> {"on", "lost", "off"}] /\ inbox' \in [Browsers -> Seq(Event)]
      /\ pc' \in [Browsers -> Peer \cup {NoPeer}]
  BY <1>2, GoneIs
<1>4. Typed /\ Session(a) /\ o \in Browsers /\ o # a
  BY TwoBrowsers DEF VInv
<1>5. /\ page'[a] = "starting" /\ early'[a] = <<>> /\ ~desired'[a] /\ refreshing'[a] = {}
      /\ page'[o] = page[o] /\ early'[o] = early[o] /\ shown'[o] = shown[o]
      /\ desired'[o] = desired[o] /\ refreshing'[o] = refreshing[o]
  BY <1>1, <1>4 DEF Typed
<1>6. mic' \in BOOLEAN /\ (mic' = mic \/ a = Polite)
  BY <1>1, <1>4 DEF Typed
<1>7. Typed'
  <2>1. <<>> \in Seq(Signal)
    OBVIOUS
  <2> QED BY <1>1, <1>3, <1>4, <1>6, <2>1 DEF Typed
<1>8. Session(a)'
  BY <1>3, <1>5 DEF Session
<1>9. OthersKept(a)
  BY <1>3, <1>5, <1>6 DEF OthersKept
<1> QED BY <1>2, <1>7, <1>8, <1>9, GoneKeeps

\* A browser joins the room again.
LEMMA RejoinKeeps ==
  ASSUME VInv, NEW a \in Browsers, Rejoin(a)
  PROVE  VInv'
<1> DEFINE o == Other(a)
           there == link[o] # "off"
           ready == ToJoiner(a)
           reset == ToOther(a)
           one == <<ready>>
<1>1. /\ Typed /\ Session(a) /\ Listed(o) /\ o \in Browsers /\ o # a /\ Other(o) = a
      /\ inbox[o] \in Seq(Event) /\ \A d \in Browsers : d = a \/ d = o
  BY TwoBrowsers DEF VInv, Typed
<1>2. /\ link[a] # "on" /\ link' = [link EXCEPT ![a] = "on"]
      /\ inbox' = [Sent(inbox, o, <<reset>>) EXCEPT ![a] = one]
      /\ UNCHANGED <<page, readyPending, early, shown, desired, refreshing, pc, mic, drawn>>
  BY DEF Rejoin, session
<1>3. there \in BOOLEAN /\ ready = [type |-> "ready", present |-> there] /\ reset = [type |-> "reset"]
  BY DEF ToJoiner, ToOther
<1> HIDE DEF there, ready, reset
<1>4. /\ ready \in Event /\ ready.type = "ready" /\ News(ready) /\ (Says(ready) <=> there)
      /\ reset \in Event /\ reset.type = "reset" /\ News(reset) /\ Says(reset)
  BY <1>3 DEF Event, News, Says
<1>5. one \in Seq(Event) /\ Len(one) = 1 /\ one[1] = ready
  BY <1>4
<1> HIDE DEF one
<1>6. inbox[o] \o <<reset>> = Append(inbox[o], reset) /\ Append(inbox[o], reset) \in Seq(Event)
  BY <1>1, <1>4, OneSent
<1>7. /\ inbox' \in [Browsers -> Seq(Event)] /\ inbox'[a] = one
      /\ inbox'[o] = IF link[o] = "on" THEN Append(inbox[o], reset) ELSE inbox[o]
  BY <1>1, <1>2, <1>5, <1>6 DEF Sent, Typed
<1>8. link' \in [Browsers -> {"on", "lost", "off"}] /\ link'[a] = "on" /\ link'[o] = link[o]
  BY <1>1, <1>2 DEF Typed
<1>9. Typed'
  BY <1>1, <1>2, <1>7, <1>8 DEF Typed
<1>10. OthersKept(a)
  BY <1>2, <1>8 DEF OthersKept
<1>11. Has(one, "ready") /\ Renews(one)
  <2>1. 1 \in 1..Len(one)
    BY <1>5
  <2> QED BY <1>4, <1>5, <2>1 DEF Has, Renews, Renewing
<1>12. Session(a)'
  BY <1>1, <1>2, <1>7, <1>8, <1>11 DEF Session
<1>13. Session(o)'
  BY <1>4, <1>7, <1>10, SessionGets
<1>14. Listed(a)'
  <2>1. 1 \in 1..Len(one) /\ \A j \in (1 + 1)..Len(one) : FALSE
    BY <1>5
  <2>2. Right(one, shown[a], there)
    BY <1>4, <1>5, <2>1 DEF Right
  <2> QED BY <1>2, <1>7, <1>8, <2>2 DEF Listed, there
<1>15. Listed(o)'
  <2> SUFFICES ASSUME link[o] = "on"
               PROVE  Right(inbox'[o], shown[o], link'[a] # "off")
    BY <1>1, <1>2, <1>8 DEF Listed
  <2> DEFINE back == link'[a] # "off"
  <2>1. back
    BY <1>8
  <2> HIDE DEF back
  <2>2. Right(Append(inbox[o], reset), shown[o], back)
    BY <1>1, <1>4, <2>1, RightAppended
  <2> QED BY <1>7, <2>2 DEF back
<1>16. Renews(Append(inbox[o], reset))
  BY <1>1, <1>4, Appended DEF Renewing
<1>17. ~Waits(a)' /\ ~Waits(o)'
  BY <1>7, <1>8, <1>11, <1>16 DEF Waits, Fresh
<1>18. Awaited(a)' /\ Awaited(o)'
  BY <1>17 DEF Awaited
<1>19. LastSaid'
  <2>1. Polite = a \/ Polite = o
    BY <1>1 DEF Browsers
  <2> QED BY <1>17, <2>1 DEF LastSaid
<1> HIDE DEF o
<1> QED BY <1>1, <1>9, <1>12, <1>13, <1>14, <1>15, <1>18, <1>19 DEF VInv

-------------------------------------------------------------------------------
(* The theorem.                                                            *)

\* Nobody is in the room at first.
LEMMA InitIsSafe == Init => VInv
<1> HAVE Init
<1>1. Typed
  <2>1. link \in [Browsers -> {"on", "lost", "off"}] /\ page \in [Browsers -> {"starting", "replaying", "up"}]
    BY DEF Init
  <2>2. <<>> \in Seq(Event) /\ <<>> \in Seq(Signal)
    OBVIOUS
  <2>3. inbox \in [Browsers -> Seq(Event)] /\ early \in [Browsers -> Seq(Signal)]
    BY <2>2 DEF Init
  <2>4. /\ readyPending \in [Browsers -> BOOLEAN] /\ shown \in [Browsers -> BOOLEAN]
        /\ desired \in [Browsers -> BOOLEAN] /\ refreshing \in [Browsers -> SUBSET {"refresh", "restore"}]
        /\ pc \in [Browsers -> Peer \cup {NoPeer}] /\ mic \in BOOLEAN /\ drawn \in Nat
    BY DEF Init
  <2> QED BY <2>1, <2>3, <2>4 DEF Typed
<1>2. \A d \in Browsers : /\ inbox[d] = <<>> /\ early[d] = <<>> /\ shown[d] = FALSE /\ desired[d] = FALSE
                          /\ refreshing[d] = {} /\ pc[d] = NoPeer
  BY DEF Init
<1>3. \A d \in Browsers : link[d] = "on" => link[Other(d)] = "off"
  BY TwoBrowsers DEF Init
<1>4. ASSUME NEW d \in Browsers
      PROVE  Listed(d) /\ Session(d) /\ ~Waits(d)
  <2>1. Listed(d)
    <3> SUFFICES ASSUME link[d] = "on"
                 PROVE  Right(inbox[d], shown[d], link[Other(d)] # "off")
      BY DEF Listed
    <3>1. \A i \in 1..Len(inbox[d]) : FALSE
      BY <1>2
    <3>2. shown[d] = FALSE /\ link[Other(d)] = "off"
      BY <1>2, <1>3
    <3> QED BY <3>1, <3>2 DEF Right
  <2>2. Session(d)
    BY <1>2 DEF Session
  <2> QED BY <1>2, <2>1, <2>2 DEF Waits
<1>5. Polite \in Browsers
  BY DEF Browsers
<1> QED BY <1>1, <1>4, <1>5 DEF VInv, Awaited, LastSaid

\* Every step keeps the invariant.
LEMMA StepIsSafe == VInv /\ [Next]_vars => VInv'
<1> SUFFICES ASSUME VInv, [Next]_vars
             PROVE  VInv'
  OBVIOUS
<1>1. CASE UNCHANGED vars
  BY <1>1 DEF vars, session, VInv, Typed, Listed, Session, Awaited, LastSaid, Waits, Fresh,
              Reaches, Arriving
<1>2. ASSUME NEW d \in Browsers,
             \/ RefreshLands(d) \/ InitDone(d) \/ StartUp(d)
             \/ HandleReady(d) \/ HandleReset(d) \/ HandleLeft(d) \/ HandleSignal(d) \/ Replay(d)
      PROVE  VInv'
  BY <1>2, RefreshLandsKeeps, InitDoneKeeps, StartUpKeeps, HandleReadyKeeps, HandleResetKeeps,
     HandleLeftKeeps, HandleSignalKeeps, ReplayKeeps
<1>3. ASSUME NEW d \in Browsers,
             \/ MakeOffer(d) \/ OfferMade(d) \/ OfferAccepted(d)
             \/ AnswerMade(d) \/ AnswerAccepted(d) \/ AnswerRejected(d)
      PROVE  VInv'
  BY <1>3, MakeOfferKeeps, OfferMadeKeeps, OfferAcceptedKeeps, AnswerMadeKeeps,
     AnswerAcceptedKeeps, AnswerRejectedKeeps
<1>4. ASSUME NEW d \in Browsers,
             \/ IceConnects(d) \/ IceFails(d) \/ RestartFires(d) \/ StartMic
             \/ Drop(d) \/ Reload(d) \/ Rejoin(d)
      PROVE  VInv'
  BY <1>4, IceConnectsKeeps, IceFailsKeeps, RestartFiresKeeps, StartMicKeeps, DropKeeps,
     ReloadKeeps, RejoinKeeps
<1> QED BY <1>1, <1>2, <1>3, <1>4 DEF Next

\* At rest both browsers have an entry for the other and wait for nothing.
LEMMA RestIsStable ==
  ASSUME VInv, Settled, NEW d \in Browsers
  PROVE  /\ pc[d] # NoPeer /\ pc[d] \in Peer /\ Promises(d, pc[d], mic) /\ pc[d].sig = "stable"
         /\ ~pc[d].timer /\ pc[d].needs = {} /\ (pc[d].agreed # <<>> => Matched \/ pc[d].ice = "failed")
<1>1. ASSUME NEW b \in Browsers
      PROVE  /\ link[b] = "on" /\ inbox[b] = <<>> /\ early[b] = <<>>
             /\ pc[b] # NoPeer /\ pc[b] \in Peer /\ Promises(b, pc[b], mic)
             /\ pc[b].chain = <<>> /\ pc[b].sig # "remote" /\ ~pc[b].making
  <2>1. /\ link[b] = "on" /\ inbox[b] = <<>> /\ page[b] = "up" /\ refreshing[b] = {}
        /\ pc[b] # NoPeer => pc[b].chain = <<>>
        /\ Listed(b) /\ Session(b) /\ shown[b] \in BOOLEAN
    BY DEF Settled, HasPeer, VInv, Typed
  <2>2. (link[Other(b)] # "off") = TRUE
    BY TwoBrowsers DEF Settled
  <2>3. Right(inbox[b], shown[b], TRUE)
    BY <2>1, <2>2 DEF Listed
  <2>4. inbox[b] \in Seq(Event) /\ ~Renews(inbox[b]) /\ ~Has(inbox[b], "ready")
    BY <2>1, NothingThere DEF VInv, Typed
  <2>5. shown[b]
    BY <2>1, <2>3, <2>4, RightFresh
  <2>6. pc[b] # NoPeer /\ early[b] = <<>>
    BY <2>1, <2>4, <2>5 DEF Session
  <2>7. pc[b] \in Peer /\ Promises(b, pc[b], mic)
    BY <2>6, EntryIs
  <2>8. pc[b].sig # "remote" /\ ~pc[b].making
    BY <2>1, <2>6, <2>7, NothingThere DEF Promises
  <2> QED BY <2>1, <2>6, <2>7, <2>8
<1> DEFINE o == Other(d)
<1>2. o \in Browsers /\ Awaited(d)
  BY TwoBrowsers DEF VInv
<1>3. ~Reaches(o)
  BY <1>1, <1>2, NothingThere DEF Reaches
<1>4. ~Arriving(d)
  BY <1>1, NothingThere DEF Arriving
<1>5. pc[d].sig # "local"
  BY <1>1, <1>2, <1>3, <1>4, NothingThere DEF Awaited, Waits, Fresh
<1>6. pc[d].sig = "stable"
  BY <1>1, <1>5 DEF Peer
<1>7. /\ ~pc[d].timer /\ pc[d].needs = {} /\ (pc[d].agreed # <<>> => Matched \/ pc[d].ice = "failed")
  BY <1>1, <1>6 DEF Settled, HasPeer
<1> QED BY <1>1, <1>6, <1>7

\* In a settled room the two sides have agreed on the same descriptions.
LEMMA RestIsMatched == VInv => SettledIsConnected
<1> SUFFICES ASSUME VInv, Settled
             PROVE  Matched /\ (mic => pc[Polite].sends)
  BY DEF SettledIsConnected
<1>1. Initiator \in Browsers /\ Polite \in Browsers
  BY DEF Browsers
<1>2. pc[Initiator].agreed # <<>>
  BY <1>1, RestIsStable DEF Promises
<1>3. pc[Initiator].ice # "failed"
  BY <1>1, RestIsStable DEF Promises
<1>4. Matched
  BY <1>1, <1>2, <1>3, RestIsStable
<1>5. pc[Polite].agreed # <<>>
  BY <1>4 DEF Matched
<1>6. mic => pc[Polite].sends
  BY <1>1, <1>5, RestIsStable DEF Promises
<1> QED BY <1>4, <1>6

\* Two browsers that have come to rest are connected, and a microphone that was started
\* is heard, whatever order of colliding offers, joins, resets, reloads, broken
\* connections and early signals came before, and however many (handleSignal, makeOffer,
\* scheduleIceRestart, restoreVoiceAfterMembership, voice:peer-reset).
THEOREM RestIsConnected == Spec => []SettledIsConnected
<1>1. VInv /\ [Next]_vars => VInv'
  BY StepIsSafe
<1> QED BY InitIsSafe, <1>1, RestIsMatched, PTL DEF Spec

================================================================================
