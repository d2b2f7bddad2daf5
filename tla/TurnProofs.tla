------------------------------- MODULE TurnProofs -------------------------------
(***************************************************************************)
(* Proofs about TurnCredentials: what the cache serves is live, and the    *)
(* two counters keep their allowances.                                     *)
(*                                                                         *)
(* A counter is reasoned about by itself (Kept), as one of some limit and  *)
(* window that counts the requests of some addresses: the counter of one   *)
(* address and the one of the whole server are two instances of it.        *)
(***************************************************************************)
EXTENDS TurnCredentials, SequenceTheorems, FiniteSetTheorems, TLAPS

-------------------------------------------------------------------------------
(* The cache.                                                              *)

Asks == [key : Members, at : Nat]
Credentials == [state : {"none", "live", "revoking", "dealt with"}, until : Nat]
Entries == [credential : Nat \cup {Fallback}, expiresAt : Nat]
IssuedTyped ==
  /\ now \in Nat
  /\ asked \in Seq(Asks) /\ \A i \in Requests : asked[i].at <= now
  /\ issued \in [Requests -> Credentials]
  /\ inFlight \subseteq Requests
  /\ credentialCache \in [Members -> {NoEntry} \cup Entries]

\* A cached credential was issued for the member, is live and outlives its entry; also
\* when the entry has expired, which is when nobody may find out any more.
Trusted(k, entry) ==
  entry # NoEntry /\ entry.credential # Fallback =>
    /\ entry.credential \in Requests \ inFlight
    /\ asked[entry.credential].key = k
    /\ issued[entry.credential].state = "live"
    /\ issued[entry.credential].until > entry.expiresAt
CacheTrusted == \A k \in Members : Trusted(k, credentialCache[k])

CacheInv == IssuedTyped /\ CacheTrusted

\* The cache's invariant holds initially.
LEMMA InitialCache == Init => CacheInv
<1> SUFFICES ASSUME Init PROVE CacheInv
  OBVIOUS
<1>1. now = 0 /\ asked = <<>> /\ issued = <<>> /\ inFlight = {} /\ Requests = {}
  BY DEF Init, Requests
<1>2. credentialCache = [k \in Members |-> NoEntry]
  BY DEF Init
<1>3. asked \in Seq(Asks) /\ issued \in [Requests -> Credentials]
  BY <1>1
<1> QED BY <1>1, <1>2, <1>3 DEF CacheInv, IssuedTyped, CacheTrusted, Trusted

\* A step that touches neither a credential nor the cache.
LEMMA QuietStep ==
  ASSUME CacheInv, UNCHANGED <<asked, issued, inFlight>>, now' = now \/ now' = now + 1,
         \A k \in Members : credentialCache'[k] \in {credentialCache[k], NoEntry},
         credentialCache' = [k \in Members |-> credentialCache'[k]]
  PROVE  CacheInv'
<1>1. Requests' = Requests
  BY DEF Requests
<1>2. IssuedTyped'
  <2>1. now' \in Nat /\ asked' \in Seq(Asks) /\ issued' \in [Requests' -> Credentials]
        /\ inFlight' \subseteq Requests'
    BY <1>1 DEF CacheInv, IssuedTyped
  <2>2. \A i \in Requests' : asked'[i].at <= now'
    <3> SUFFICES ASSUME NEW i \in Requests PROVE asked[i].at <= now'
      BY <1>1
    <3>1. asked[i] \in Asks /\ asked[i].at <= now /\ now \in Nat
      BY DEF CacheInv, IssuedTyped, Requests
    <3> QED BY <3>1 DEF Asks
  <2>3. credentialCache' \in [Members -> {NoEntry} \cup Entries]
    BY DEF CacheInv, IssuedTyped
  <2> QED BY <2>1, <2>2, <2>3 DEF IssuedTyped
<1>3. CacheTrusted'
  BY <1>1 DEF CacheInv, CacheTrusted, Trusted
<1> QED BY <1>2, <1>3 DEF CacheInv

\* A request to Cloudflare keeps the cache's invariant.
LEMMA AskedStep ==
  ASSUME CacheInv, NEW k \in Members, AskCloudflare(k)
  PROVE  CacheInv'
<1> DEFINE r == [key |-> k, at |-> now]  none == [state |-> "none", until |-> 0]
           n == Len(asked)
<1>1. /\ asked' = Append(asked, r) /\ issued' = Append(issued, none)
      /\ inFlight' = inFlight \cup {Len(asked')}
      /\ now' = now /\ credentialCache' = credentialCache
  BY DEF AskCloudflare
<1>2. /\ now \in Nat /\ n \in Nat /\ asked \in Seq(Asks)
      /\ Requests = 1..n /\ r \in Asks /\ r.at = now
      /\ issued \in [1..n -> Credentials]
  BY DEF CacheInv, IssuedTyped, Requests, Asks
<1>3. /\ asked' \in Seq(Asks) /\ Len(asked') = n + 1
      /\ \A i \in 1..n : asked'[i] = asked[i]
      /\ asked'[n + 1] = r
  <2> HIDE DEF n, r
  <2>1. n = Len(asked)
    BY DEF n
  <2> QED BY <1>1, <1>2, <2>1, AppendProperties
<1>4. issued \in Seq(Credentials) /\ Len(issued) = n
  BY <1>2, IsASeq
<1>5. /\ issued' \in [1..(n + 1) -> Credentials]
      /\ \A i \in 1..n : issued'[i] = issued[i]
  <2>1. none \in Credentials
    BY DEF Credentials
  <2> HIDE DEF none, n
  <2>2. /\ issued' \in Seq(Credentials) /\ Len(issued') = n + 1
        /\ \A i \in 1..n : issued'[i] = issued[i]
    BY <1>1, <1>4, <2>1, AppendProperties
  <2> QED BY <1>2, <2>2
<1>6. Requests' = 1..(n + 1)
  BY <1>3 DEF Requests
<1> HIDE DEF n, none, r
<1>7. IssuedTyped'
  <2>1. \A i \in 1..(n + 1) : asked'[i].at <= now
    <3> SUFFICES ASSUME NEW i \in 1..(n + 1) PROVE asked'[i].at <= now
      OBVIOUS
    <3>1. CASE i = n + 1
      BY <1>2, <1>3, <3>1
    <3>2. CASE i # n + 1
      BY <1>2, <1>3, <3>2 DEF CacheInv, IssuedTyped
    <3> QED BY <3>1, <3>2
  <2>2. inFlight' \subseteq 1..(n + 1)
    <3>1. inFlight \subseteq 1..n
      BY <1>2 DEF CacheInv, IssuedTyped
    <3>2. inFlight' = inFlight \cup {n + 1}
      BY <1>1, <1>3
    <3>3. \A i \in 1..n : i \in 1..(n + 1)
      BY <1>2
    <3>4. n + 1 \in 1..(n + 1)
      BY <1>2
    <3> QED BY <3>1, <3>2, <3>3, <3>4
  <2> QED BY <1>1, <1>3, <1>5, <1>6, <2>1, <2>2 DEF CacheInv, IssuedTyped
<1>8. CacheTrusted'
  <2> SUFFICES ASSUME NEW j \in Members PROVE Trusted(j, credentialCache[j])'
    BY DEF CacheTrusted
  <2> DEFINE e == credentialCache[j]
  <2>1. Trusted(j, e)
    BY DEF CacheInv, CacheTrusted
  <2>2. SUFFICES ASSUME e # NoEntry, e.credential # Fallback
                 PROVE  /\ e.credential \in Requests' \ inFlight'
                        /\ asked'[e.credential].key = j
                        /\ issued'[e.credential].state = "live"
                        /\ issued'[e.credential].until > e.expiresAt
    BY <1>1 DEF Trusted
  <2>3. e.credential \in (1..n) \ inFlight
    BY <1>2, <2>1, <2>2 DEF Trusted
  <2>4. e.credential \in Requests' \ inFlight'
    BY <1>1, <1>2, <1>3, <1>6, <2>3
  <2>5. asked'[e.credential] = asked[e.credential] /\ issued'[e.credential] = issued[e.credential]
    BY <1>3, <1>5, <2>3
  <2> HIDE DEF e
  <2> QED BY <2>1, <2>2, <2>4, <2>5 DEF Trusted
<1> QED BY <1>7, <1>8 DEF CacheInv

\* An answer keeps it.
LEMMA GeneratedStep ==
  ASSUME CacheInv, NEW i \in Requests, Generated(i)
  PROVE  CacheInv'
<1>1. /\ i \in inFlight /\ inFlight' = inFlight \ {i}
      /\ credentialCache' = [credentialCache EXCEPT ![asked[i].key] = Entry(i)]
      /\ now' = now /\ asked' = asked
  BY DEF Generated
<1>2. PICK start \in asked[i].at..now :
         issued' = [issued EXCEPT ![i] = [state |-> "live", until |-> start + TTL]]
  BY DEF Generated
<1>3. /\ asked[i] \in Asks /\ asked[i].key \in Members /\ asked[i].at \in Nat
      /\ Requests' = Requests /\ i \in Nat
      /\ CacheTime \in Nat /\ TTL \in Nat /\ CacheTime < TTL /\ now \in Nat
  <2>1. asked[i] \in Asks /\ i \in Nat /\ Requests' = Requests /\ now \in Nat
    BY <1>1 DEF CacheInv, IssuedTyped, Requests
  <2> QED BY <2>1, WindowsAssumption DEF Asks
<1>4. start \in Nat /\ start + TTL > asked[i].at + CacheTime
  BY <1>2, <1>3
<1>5. IssuedTyped'
  <2>1. Entry(i) \in Entries
    BY <1>3 DEF Entry, Entries
  <2>2. credentialCache' \in [Members -> {NoEntry} \cup Entries]
    BY <1>1, <2>1 DEF CacheInv, IssuedTyped
  <2>3. [state |-> "live", until |-> start + TTL] \in Credentials
    BY <1>3, <1>4 DEF Credentials
  <2>4. issued' \in [Requests -> Credentials]
    BY <1>2, <2>3 DEF CacheInv, IssuedTyped
  <2> QED BY <1>1, <1>3, <2>2, <2>4 DEF CacheInv, IssuedTyped
<1>6. CacheTrusted'
  <2> SUFFICES ASSUME NEW k \in Members PROVE Trusted(k, credentialCache[k])'
    BY DEF CacheTrusted
  <2>1. CASE k = asked[i].key
    <3>1. credentialCache'[k] = Entry(i)
      BY <1>1, <2>1 DEF CacheInv, IssuedTyped
    <3>2. issued'[i] = [state |-> "live", until |-> start + TTL]
      BY <1>2 DEF CacheInv, IssuedTyped
    <3> QED BY <1>1, <1>3, <1>4, <2>1, <3>1, <3>2 DEF Trusted, Entry
  <2>2. CASE k # asked[i].key
    <3>1. credentialCache'[k] = credentialCache[k]
      BY <1>1, <2>2 DEF CacheInv, IssuedTyped
    <3>2. Trusted(k, credentialCache[k])
      BY DEF CacheInv, CacheTrusted
    <3>3. \A j \in Requests \ {i} : issued'[j] = issued[j]
      BY <1>2 DEF CacheInv, IssuedTyped
    <3> DEFINE e == credentialCache[k]
    <3>4. SUFFICES ASSUME e # NoEntry, e.credential # Fallback PROVE Trusted(k, e)'
      BY <3>1 DEF Trusted
    <3>5. e.credential \in Requests \ inFlight /\ e.credential # i
      BY <1>1, <3>2, <3>4 DEF Trusted
    <3>6. issued'[e.credential] = issued[e.credential]
      BY <3>3, <3>5
    <3> HIDE DEF e
    <3>7. e.credential \in Requests' \ inFlight'
      BY <1>1, <1>3, <3>5
    <3>8. asked' = asked /\ Trusted(k, e)
      BY <1>1, <3>2 DEF e
    <3> QED BY <3>1, <3>4, <3>6, <3>7, <3>8 DEF Trusted, e
  <2> QED BY <2>1, <2>2
<1> QED BY <1>5, <1>6 DEF CacheInv

\* A failed request keeps it.
LEMMA NotGeneratedStep ==
  ASSUME CacheInv, NEW i \in Requests, NotGenerated(i)
  PROVE  CacheInv'
<1>1. /\ inFlight' = inFlight \ {i}
      /\ credentialCache' = [credentialCache EXCEPT ![asked[i].key] =
           [credential |-> Fallback, expiresAt |-> asked[i].at + FailureTime]]
      /\ now' = now /\ asked' = asked /\ issued' = issued /\ Requests' = Requests
  BY DEF NotGenerated, Requests
<1>2. asked[i].key \in Members /\ asked[i].at \in Nat /\ FailureTime \in Nat
  <2>1. asked[i] \in Asks
    BY DEF CacheInv, IssuedTyped, Requests
  <2> QED BY <2>1, WindowsAssumption DEF Asks
<1>3. IssuedTyped'
  <2>1. [credential |-> Fallback, expiresAt |-> asked[i].at + FailureTime] \in Entries
    BY <1>2 DEF Entries
  <2> QED BY <1>1, <2>1 DEF CacheInv, IssuedTyped
<1>4. CacheTrusted'
  BY <1>1, <1>2 DEF CacheInv, IssuedTyped, CacheTrusted, Trusted
<1> QED BY <1>3, <1>4 DEF CacheInv

\* Only the credential in the cleared entry is touched.
LEMMA ClearStep ==
  ASSUME CacheInv, NEW k \in Members, Clear(k), UNCHANGED <<now, asked, inFlight>>
  PROVE  CacheInv'
<1>1. /\ credentialCache' = [credentialCache EXCEPT ![k] = NoEntry]
      /\ issued' = [i \in Requests |->
           IF i \in Revocable(k) THEN [issued[i] EXCEPT !.state = "revoking"] ELSE issued[i]]
      /\ Requests' = Requests
  BY DEF Clear, Requests
<1>2. \A i \in Requests :
        [issued[i] EXCEPT !.state = "revoking"]
          \in Credentials
  BY DEF CacheInv, IssuedTyped, Credentials
<1>3. IssuedTyped'
  <2>1. issued' \in [Requests -> Credentials]
    BY <1>1, <1>2 DEF CacheInv, IssuedTyped
  <2> QED BY <1>1, <2>1 DEF CacheInv, IssuedTyped
<1>4. CacheTrusted'
  <2> SUFFICES ASSUME NEW j \in Members, j # k PROVE Trusted(j, credentialCache[j])'
    BY <1>1 DEF CacheTrusted, Trusted, CacheInv, IssuedTyped
  <2> DEFINE e == credentialCache[j]
  <2>1. credentialCache'[j] = e /\ Trusted(j, e)
    BY <1>1 DEF CacheInv, IssuedTyped, CacheTrusted
  <2>2. SUFFICES ASSUME e # NoEntry, e.credential # Fallback PROVE issued'[e.credential] = issued[e.credential]
    BY <1>1, <2>1 DEF Trusted
  <2>3. e.credential \in Requests /\ asked[e.credential].key = j
    BY <2>1, <2>2 DEF Trusted
  <2>4. e.credential \notin Revocable(k)
    <3> SUFFICES ASSUME credentialCache[k] # NoEntry, credentialCache[k].credential = e.credential PROVE FALSE
      BY <2>3 DEF Revocable
    <3>1. Trusted(k, credentialCache[k])
      BY DEF CacheInv, CacheTrusted
    <3> QED BY <2>2, <2>3, <3>1 DEF Trusted
  <2> QED BY <1>1, <2>3, <2>4
<1> QED BY <1>3, <1>4 DEF CacheInv

\* Every step keeps the cache's invariant.
LEMMA CacheStep == CacheInv /\ [Next]_vars => CacheInv'
<1> SUFFICES ASSUME CacheInv, [Next]_vars PROVE CacheInv'
  OBVIOUS
<1>1. ASSUME UNCHANGED <<now, asked, issued, inFlight, credentialCache>> PROVE CacheInv'
  BY <1>1, QuietStep DEF CacheInv, IssuedTyped
<1>2. ASSUME NEW k \in Members, Leave(k) \/ Unseat(k) PROVE CacheInv'
  BY <1>2, ClearStep DEF Leave, Unseat
<1>3. ASSUME NEW i \in Requests, RevocationEnds(i) PROVE CacheInv'
  <2>1. /\ issued[i].state = "revoking" /\ issued' = [issued EXCEPT ![i].state = "dealt with"]
        /\ UNCHANGED <<now, credentialCache, asked, inFlight>> /\ Requests' = Requests
    BY <1>3 DEF RevocationEnds, Requests
  <2>2. issued \in [Requests -> Credentials]
    BY DEF CacheInv, IssuedTyped
  <2>3. issued' \in [Requests -> Credentials] /\ \A j \in Requests \ {i} : issued'[j] = issued[j]
    BY <2>1, <2>2 DEF Credentials
  <2>4. IssuedTyped'
    BY <2>1, <2>3 DEF CacheInv, IssuedTyped
  <2>5. CacheTrusted'
    BY <2>1, <2>3 DEF CacheInv, CacheTrusted, Trusted
  <2> QED BY <2>4, <2>5 DEF CacheInv
<1>4. CASE Sweep
  <2>1. UNCHANGED <<now, asked, issued, inFlight>>
        /\ credentialCache' = [k \in Members |-> IF Cached(k) THEN credentialCache[k] ELSE NoEntry]
    BY <1>4 DEF Sweep
  <2> QED BY <2>1, QuietStep
<1>5. CASE Tick
  BY <1>5, QuietStep DEF Tick, CacheInv, IssuedTyped
<1>6. ASSUME NEW k \in Members, AskInVain(k) \/ Left(k) \/ Rejoin(k) PROVE CacheInv'
  BY <1>1, <1>6 DEF AskInVain, Left, Rejoin
<1>7. CASE UNCHANGED vars
  BY <1>1, <1>7 DEF vars
<1> QED BY <1>2, <1>3, <1>4, <1>5, <1>6, <1>7, AskedStep, GeneratedStep, NotGeneratedStep DEF Next

\* The cache's invariant holds in every state.
LEMMA CacheInvariant == Spec => []CacheInv
<1> QED BY InitialCache, CacheStep, PTL DEF Spec

\* A member is served only a credential that was issued for that member, is live, is
\* not about to be revoked and outlives its cache entry (getIceServerConfiguration).
THEOREM CacheIsLive == Spec => []CacheServesLiveCredentials
<1>1. CacheInv => CacheServesLiveCredentials
  BY DEF CacheInv, CacheTrusted, Trusted, CacheServesLiveCredentials, Cached
<1> QED BY <1>1, CacheInvariant, PTL

-------------------------------------------------------------------------------
(* Counting requests.                                                      *)

\* The requests in q that came from an address in A between two moments.
InPeriod(q, A, from, to) ==
  {i \in 1..Len(q) : AddressOf[q[i].key] \in A /\ q[i].at \in from..to}
Count(q, A, from, to) == Cardinality(InPeriod(q, A, from, to))

\* A request has a time and a member.
LEMMA AskTimes ==
  ASSUME NEW q \in Seq(Asks)
  PROVE  \A i \in 1..Len(q) : q[i].at \in Nat /\ q[i].key \in Members
<1> SUFFICES ASSUME NEW i \in 1..Len(q) PROVE q[i].at \in Nat /\ q[i].key \in Members
  OBVIOUS
<1>1. q[i] \in Asks
  OBVIOUS
<1> QED BY <1>1 DEF Asks

\* The requests of a period can be counted.
LEMMA CountType ==
  ASSUME NEW q \in Seq(Asks), NEW A, NEW from, NEW to
  PROVE  IsFiniteSet(InPeriod(q, A, from, to)) /\ Count(q, A, from, to) \in Nat
<1>1. Len(q) \in Nat
  OBVIOUS
<1> DEFINE D == 1..Len(q)
<1>2. IsFiniteSet(D)
  BY <1>1, FS_Interval
<1>3. InPeriod(q, A, from, to) \in SUBSET D
  BY DEF InPeriod
<1> HIDE DEF D
<1>4. IsFiniteSet(InPeriod(q, A, from, to))
  BY <1>2, <1>3, FS_Subset
<1> QED BY <1>4, FS_CardinalityType DEF Count

\* Fewer requests are found in a part of the requests.
LEMMA CountPart ==
  ASSUME NEW q \in Seq(Asks), NEW A, NEW from, NEW to, NEW from2, NEW to2,
         InPeriod(q, A, from, to) \subseteq InPeriod(q, A, from2, to2)
  PROVE  Count(q, A, from, to) <= Count(q, A, from2, to2)
<1>1. IsFiniteSet(InPeriod(q, A, from2, to2))
  BY CountType
<1> DEFINE S == InPeriod(q, A, from, to)  T == InPeriod(q, A, from2, to2)
<1>2. IsFiniteSet(T) /\ S \in SUBSET T
  BY <1>1
<1> HIDE DEF S, T
<1>3. Cardinality(S) <= Cardinality(T)
  BY <1>2, FS_Subset
<1> QED BY <1>3 DEF S, T, Count

\* A period in two parts.
LEMMA CountSplit ==
  ASSUME NEW q \in Seq(Asks), NEW A, NEW from \in Int, NEW middle \in Int, NEW to \in Int
  PROVE  Count(q, A, from, to) <= Count(q, A, from, middle - 1) + Count(q, A, middle, to)
<1> DEFINE S == InPeriod(q, A, from, middle - 1)  T == InPeriod(q, A, middle, to)
           U == InPeriod(q, A, from, to)
<1>1. \A i \in 1..Len(q) : q[i].at \in Int
  BY AskTimes
<1>2. U \subseteq S \cup T
  BY <1>1 DEF InPeriod
<1>3. IsFiniteSet(S) /\ IsFiniteSet(T) /\ IsFiniteSet(U)
  BY CountType
<1> HIDE DEF S, T, U
<1>4. /\ IsFiniteSet(S \cup T) /\ IsFiniteSet(S \cap T)
      /\ Cardinality(S \cup T) = Cardinality(S) + Cardinality(T) - Cardinality(S \cap T)
  BY <1>3, FS_Union, FS_Intersection
<1>5. Cardinality(U) <= Cardinality(S \cup T)
  <2> DEFINE V == S \cup T
  <2>1. U \in SUBSET V /\ IsFiniteSet(V)
    BY <1>2, <1>4
  <2> HIDE DEF V
  <2>2. Cardinality(U) <= Cardinality(V)
    BY <2>1, FS_Subset
  <2> QED BY <2>2 DEF V
<1>6. /\ Cardinality(S) \in Nat /\ Cardinality(T) \in Nat /\ Cardinality(U) \in Nat
      /\ Cardinality(S \cap T) \in Nat
  BY <1>3, <1>4, FS_CardinalityType
<1>7. Cardinality(U) <= Cardinality(S) + Cardinality(T)
  BY <1>4, <1>5, <1>6
<1> QED BY <1>7 DEF S, T, U, Count

\* One more request.
LEMMA CountAppend ==
  ASSUME NEW q \in Seq(Asks), NEW r \in Asks, NEW A, NEW from, NEW to
  PROVE  Count(Append(q, r), A, from, to) =
           Count(q, A, from, to) + (IF AddressOf[r.key] \in A /\ r.at \in from..to THEN 1 ELSE 0)
<1> DEFINE p == Append(q, r)  n == Len(q)  S == InPeriod(q, A, from, to)
<1>1. /\ p \in Seq(Asks) /\ Len(p) = n + 1 /\ n \in Nat /\ p[n + 1] = r
      /\ \A i \in 1..n : p[i] = q[i]
  BY AppendProperties
<1> HIDE DEF p
<1>2. IsFiniteSet(S) /\ Cardinality(S) \in Nat /\ n + 1 \notin S
  <2>1. IsFiniteSet(S) /\ Cardinality(S) \in Nat
    BY CountType DEF Count
  <2>2. n + 1 \notin S
    BY <1>1 DEF InPeriod
  <2> QED BY <2>1, <2>2
<1>3. CASE AddressOf[r.key] \in A /\ r.at \in from..to
  <2>1. InPeriod(p, A, from, to) = S \cup {n + 1}
    BY <1>1, <1>3 DEF InPeriod
  <2> HIDE DEF S
  <2>2. Cardinality(S \cup {n + 1}) = Cardinality(S) + 1
    BY <1>2, FS_AddElement
  <2> QED BY <1>3, <2>1, <2>2 DEF Count, S, p
<1>4. CASE ~(AddressOf[r.key] \in A /\ r.at \in from..to)
  <2>1. InPeriod(p, A, from, to) = S
    BY <1>1, <1>4 DEF InPeriod
  <2> QED BY <1>2, <1>4, <2>1 DEF Count, p
<1> QED BY <1>3, <1>4

-------------------------------------------------------------------------------
(* One counter of a limit L in a window W, at the moment n.                *)

\* No request was sent after n.
SentBy(q, n) == q \in Seq(Asks) /\ \A i \in 1..Len(q) : q[i].at <= n

Runs(c, n) == c # NoCounter /\ n < c.resetAt
CounterTyped(c, L) == c = NoCounter \/ (c \in [count : Nat, resetAt : Nat] /\ c.count <= L)

\* A counter that runs has counted its window, and the window before it was not
\* overdrawn; one that does not run could start now and the same would be true.
WindowKept(c, q, n, A, L, W) ==
  IF Runs(c, n)
  THEN /\ c.count = Count(q, A, c.resetAt - W, n)
       /\ Count(q, A, c.resetAt - W - W, c.resetAt - W - 1) <= L
       /\ c.resetAt <= n + W
  ELSE Count(q, A, n - W, n) <= L /\ Count(q, A, n, n) = 0
Kept(c, q, n, A, L, W) ==
  /\ CounterTyped(c, L) /\ WindowKept(c, q, n, A, L, W)
  /\ \A t \in Int : Count(q, A, t, t + W - 1) <= L + L

\* What two windows in a row allow is all that a period as long as a window gets.
LEMMA TwoWindows ==
  ASSUME NEW q, NEW n \in Nat, SentBy(q, n), NEW A, NEW L \in Nat, NEW W \in Nat \ {0},
         NEW s \in Int, s <= n, Count(q, A, s - W, s - 1) <= L, Count(q, A, s, n) <= L,
         NEW t \in Int, n <= t + W - 1
  PROVE  Count(q, A, t, t + W - 1) <= L + L
<1>1. q \in Seq(Asks) /\ \A i \in 1..Len(q) : q[i].at \in Nat /\ q[i].at <= n
  BY AskTimes DEF SentBy
<1>2. Count(q, A, t, t + W - 1) <= Count(q, A, s - W, n)
  <2>1. InPeriod(q, A, t, t + W - 1) \subseteq InPeriod(q, A, s - W, n)
    BY <1>1 DEF InPeriod
  <2> DEFINE u == t + W - 1  v == s - W
  <2> HIDE DEF u, v
  <2>2. InPeriod(q, A, t, u) \subseteq InPeriod(q, A, v, n)
    BY <2>1 DEF u, v
  <2>3. Count(q, A, t, u) <= Count(q, A, v, n)
    BY <1>1, <2>2, CountPart
  <2> QED BY <2>3 DEF u, v
<1>3. Count(q, A, s - W, n) <= Count(q, A, s - W, s - 1) + Count(q, A, s, n)
  <2> DEFINE v == s - W
  <2>1. v \in Int
    OBVIOUS
  <2> HIDE DEF v
  <2>2. Count(q, A, v, n) <= Count(q, A, v, s - 1) + Count(q, A, s, n)
    BY <1>1, <2>1, CountSplit
  <2> QED BY <2>2 DEF v
<1>4. /\ Count(q, A, t, t + W - 1) \in Nat /\ Count(q, A, s - W, n) \in Nat
      /\ Count(q, A, s - W, s - 1) \in Nat /\ Count(q, A, s, n) \in Nat
  BY <1>1, CountType
<1> QED BY <1>2, <1>3, <1>4

\* Time passes.
LEMMA TimeKeeps ==
  ASSUME NEW c, NEW q, NEW n \in Nat, SentBy(q, n), NEW A, NEW L \in Nat, NEW W \in Nat \ {0},
         Kept(c, q, n, A, L, W)
  PROVE  Kept(c, q, n + 1, A, L, W)
<1>1. q \in Seq(Asks) /\ \A i \in 1..Len(q) : q[i].at \in Nat /\ q[i].at <= n
  BY AskTimes DEF SentBy
<1>2. c = NoCounter \/ (c.count \in Nat /\ c.resetAt \in Nat /\ c.count <= L)
  BY DEF Kept, CounterTyped
<1>3. WindowKept(c, q, n + 1, A, L, W)
  <2>1. CASE Runs(c, n + 1)
    <3>1. Runs(c, n) /\ c.resetAt \in Nat
      BY <1>2, <2>1 DEF Runs
    <3>2. InPeriod(q, A, c.resetAt - W, n + 1) = InPeriod(q, A, c.resetAt - W, n)
      BY <1>1, <3>1 DEF InPeriod
    <3>3. WindowKept(c, q, n, A, L, W)
      BY DEF Kept
    <3>4. /\ c.count = Count(q, A, c.resetAt - W, n + 1)
          /\ Count(q, A, c.resetAt - W - W, c.resetAt - W - 1) <= L
          /\ c.resetAt <= n + 1 + W
      BY <3>1, <3>2, <3>3 DEF Count, WindowKept
    <3> QED BY <2>1, <3>4 DEF WindowKept
  <2>2. CASE ~Runs(c, n + 1)
    <3>1. InPeriod(q, A, n + 1, n + 1) = {}
      BY <1>1 DEF InPeriod
    <3>2. Count(q, A, n + 1, n + 1) = 0
      BY <3>1, FS_EmptySet DEF Count
    <3>3. Count(q, A, n + 1 - W, n + 1) <= L
      <4>1. CASE Runs(c, n)
        <5>1. c.resetAt = n + 1 /\ c.count \in Nat /\ c.count <= L
          BY <1>2, <2>2, <4>1 DEF Runs
        <5>2. c.count = Count(q, A, n + 1 - W, n)
          BY <4>1, <5>1 DEF Kept, WindowKept
        <5>3. InPeriod(q, A, n + 1 - W, n + 1) = InPeriod(q, A, n + 1 - W, n)
          BY <1>1 DEF InPeriod
        <5> QED BY <5>1, <5>2, <5>3 DEF Count
      <4>2. CASE ~Runs(c, n)
        <5>1. Count(q, A, n - W, n) <= L
          BY <4>2 DEF Kept, WindowKept
        <5>2. InPeriod(q, A, n + 1 - W, n + 1) \subseteq InPeriod(q, A, n - W, n)
          BY <1>1 DEF InPeriod
        <5> DEFINE u == n + 1 - W  v == n - W  w == n + 1
        <5> HIDE DEF u, v, w
        <5>3. InPeriod(q, A, u, w) \subseteq InPeriod(q, A, v, n)
          BY <5>2 DEF u, v, w
        <5>4. Count(q, A, u, w) <= Count(q, A, v, n)
          BY <1>1, <5>3, CountPart
        <5>5. Count(q, A, u, w) \in Nat /\ Count(q, A, v, n) \in Nat
          BY <1>1, CountType
        <5>6. Count(q, A, v, n) <= L
          BY <5>1 DEF v
        <5>7. Count(q, A, u, w) <= L
          BY <5>4, <5>5, <5>6
        <5> QED BY <5>7 DEF u, w
      <4> QED BY <4>1, <4>2
    <3> QED BY <2>2, <3>2, <3>3 DEF WindowKept
  <2> QED BY <2>1, <2>2
<1> QED BY <1>3 DEF Kept

\* The counter after one more request, and after one that was given back.
Charged(c, n, W) ==
  IF Runs(c, n) THEN [c EXCEPT !.count = @ + 1] ELSE [count |-> 1, resetAt |-> n + W]
Refunded(c, n, W) == [Charged(c, n, W) EXCEPT !.count = @ - 1]

\* What charging a counter, and charging and refunding it, makes of it, in its window
\* and after it.
LEMMA ChargedIs ==
  ASSUME NEW c, NEW n \in Nat, NEW L, NEW W \in Nat \ {0}, CounterTyped(c, L)
  PROVE  /\ Charged(c, n, W) \in [count : Nat, resetAt : Nat] /\ Runs(Charged(c, n, W), n)
         /\ Refunded(c, n, W) \in [count : Nat, resetAt : Nat] /\ Runs(Refunded(c, n, W), n)
         /\ Runs(c, n) =>
              /\ Charged(c, n, W).count = c.count + 1 /\ Charged(c, n, W).resetAt = c.resetAt
              /\ Refunded(c, n, W).count = c.count /\ Refunded(c, n, W).resetAt = c.resetAt
              /\ c.count \in Nat /\ c.resetAt \in Nat /\ c.count <= L
         /\ ~Runs(c, n) =>
              /\ Charged(c, n, W).count = 1 /\ Charged(c, n, W).resetAt = n + W
              /\ Refunded(c, n, W).count = 0 /\ Refunded(c, n, W).resetAt = n + W
<1> DEFINE R == [count : Nat, resetAt : Nat]
           d == Charged(c, n, W)  e == Refunded(c, n, W)
<1>1. CASE Runs(c, n)
  <2>1. c \in R /\ c.count \in Nat /\ c.resetAt \in Nat /\ c.count <= L /\ n < c.resetAt
    BY <1>1 DEF Runs, CounterTyped
  <2>2. d = [c EXCEPT !.count = @ + 1]
    BY <1>1 DEF Charged
  <2>3. d \in R /\ d.count = c.count + 1 /\ d.resetAt = c.resetAt
    BY <2>1, <2>2
  <2>4. e = [d EXCEPT !.count = @ - 1]
    BY DEF Refunded
  <2> HIDE DEF d
  <2>5. e \in R /\ e.count = c.count /\ e.resetAt = c.resetAt
    BY <2>1, <2>3, <2>4
  <2> HIDE DEF e
  <2>6. Runs(d, n) /\ Runs(e, n)
    BY <2>1, <2>3, <2>5, NoCounterAssumption DEF Runs
  <2> QED BY <1>1, <2>1, <2>3, <2>5, <2>6 DEF d, e
<1>2. CASE ~Runs(c, n)
  <2>2. d = [count |-> 1, resetAt |-> n + W]
    BY <1>2 DEF Charged
  <2>3. d \in R /\ d.count = 1 /\ d.resetAt = n + W
    BY <2>2
  <2>4. e = [d EXCEPT !.count = @ - 1]
    BY DEF Refunded
  <2> HIDE DEF d
  <2>5. e \in R /\ e.count = 0 /\ e.resetAt = n + W
    BY <2>3, <2>4
  <2> HIDE DEF e
  <2>6. Runs(d, n) /\ Runs(e, n)
    BY <2>3, <2>5, NoCounterAssumption DEF Runs
  <2> QED BY <1>2, <2>3, <2>5, <2>6 DEF d, e
<1> QED BY <1>1, <1>2

\* A request is charged to a counter that is not exhausted.
LEMMA ChargeKeeps ==
  ASSUME NEW c, NEW q, NEW n \in Nat, SentBy(q, n), NEW A, NEW L \in Nat \ {0},
         NEW W \in Nat \ {0}, Kept(c, q, n, A, L, W), ~(Runs(c, n) /\ c.count >= L),
         NEW r \in Asks, r.at = n, AddressOf[r.key] \in A
  PROVE  Kept(Charged(c, n, W), Append(q, r), n, A, L, W)
<1> DEFINE p == Append(q, r)  d == Charged(c, n, W)  s == IF Runs(c, n) THEN c.resetAt - W ELSE n
<1>1. CounterTyped(c, L) /\ WindowKept(c, q, n, A, L, W)
  BY DEF Kept
<1>2. q \in Seq(Asks) /\ SentBy(p, n)
  <2>1. /\ q \in Seq(Asks) /\ p \in Seq(Asks) /\ Len(p) = Len(q) + 1 /\ p[Len(q) + 1] = r
        /\ \A i \in 1..Len(q) : p[i] = q[i]
    BY AppendProperties DEF SentBy
  <2> HIDE DEF p
  <2> QED BY <2>1 DEF SentBy
<1>3. d \in [count : Nat, resetAt : Nat] /\ Runs(d, n) /\ d.resetAt - W = s /\ s \in Int
      /\ d.resetAt = s + W
  BY <1>1, ChargedIs
<1>4. s <= n /\ n < s + W
  <2>1. Runs(c, n) => c.resetAt <= n + W
    BY <1>1 DEF WindowKept
  <2>2. n < d.resetAt
    BY <1>3 DEF Runs
  <2> QED BY <1>1, <1>3, <2>1, <2>2, ChargedIs
<1> HIDE DEF p, d, s
<1>5. \A from, to \in Int :
        Count(p, A, from, to) = Count(q, A, from, to) + (IF n \in from..to THEN 1 ELSE 0)
  BY <1>2, CountAppend DEF p
<1>6. d.count = Count(p, A, s, n) /\ d.count <= L
  <2>1. Count(p, A, s, n) = Count(q, A, s, n) + 1
    BY <1>3, <1>4, <1>5
  <2>2. CASE Runs(c, n)
    <3>1. c.count = Count(q, A, s, n)
      BY <1>1, <2>2 DEF WindowKept, s
    <3>2. d.count = c.count + 1 /\ c.count \in Nat
      BY <1>1, <2>2, ChargedIs DEF d
    <3>3. c.count < L
      BY <2>2, <3>2
    <3> QED BY <2>1, <3>1, <3>2, <3>3
  <2>3. CASE ~Runs(c, n)
    <3>1. Count(q, A, s, n) = 0
      BY <1>1, <2>3 DEF WindowKept, s
    <3>2. d.count = 1
      BY <1>1, <2>3, ChargedIs DEF d
    <3> QED BY <2>1, <3>1, <3>2
  <2> QED BY <2>2, <2>3
<1>7. Count(p, A, s - W, s - 1) <= L
  <2>1. Count(p, A, s - W, s - 1) = Count(q, A, s - W, s - 1)
    <3>1. s - W \in Int /\ s - 1 \in Int /\ n \notin (s - W)..(s - 1)
      BY <1>3, <1>4
    <3>2. Count(p, A, s - W, s - 1) = Count(q, A, s - W, s - 1) + 0
      BY <1>5, <3>1
    <3>3. Count(q, A, s - W, s - 1) \in Nat
      BY <1>2, CountType
    <3> QED BY <3>2, <3>3
  <2>2. CASE Runs(c, n)
    BY <1>1, <2>1, <2>2 DEF WindowKept, s
  <2>3. CASE ~Runs(c, n)
    <3>1. s = n /\ Count(q, A, n - W, n) <= L
      BY <1>1, <2>3 DEF WindowKept, s
    <3>2. InPeriod(q, A, n - W, n - 1) \subseteq InPeriod(q, A, n - W, n)
      BY <1>2, AskTimes DEF InPeriod
    <3> DEFINE u == n - W  v == n - 1
    <3> HIDE DEF u, v
    <3>3. InPeriod(q, A, u, v) \subseteq InPeriod(q, A, u, n)
      BY <3>2 DEF u, v
    <3>4. Count(q, A, u, v) <= Count(q, A, u, n) /\ Count(q, A, u, v) \in Nat /\ Count(q, A, u, n) \in Nat
      BY <1>2, <3>3, CountPart, CountType
    <3>5. Count(q, A, u, n) <= L
      BY <3>1 DEF u
    <3>6. Count(q, A, u, v) <= L
      BY <3>4, <3>5
    <3> QED BY <2>1, <3>1, <3>6 DEF u, v
  <2> QED BY <2>2, <2>3
<1>8. ASSUME NEW t \in Int PROVE Count(p, A, t, t + W - 1) <= L + L
  <2>1. CASE n \in t..(t + W - 1)
    <3>1. n <= t + W - 1
      BY <2>1
    <3> QED BY <1>2, <1>3, <1>4, <1>6, <1>7, <3>1, TwoWindows
  <2>2. CASE n \notin t..(t + W - 1)
    <3>1. Count(p, A, t, t + W - 1) = Count(q, A, t, t + W - 1) + 0
      <4>1. t + W - 1 \in Int
        OBVIOUS
      <4> QED BY <1>5, <2>2, <4>1
    <3>2. Count(q, A, t, t + W - 1) <= L + L /\ Count(q, A, t, t + W - 1) \in Nat
      BY <1>2, CountType DEF Kept
    <3> QED BY <3>1, <3>2
  <2> QED BY <2>1, <2>2
<1>9. CounterTyped(d, L)
  BY <1>3, <1>6 DEF CounterTyped
<1>10. WindowKept(d, p, n, A, L, W)
  BY <1>3, <1>4, <1>6, <1>7 DEF WindowKept
<1> QED BY <1>8, <1>9, <1>10 DEF Kept, d, p

\* A request of an address that the counter does not count.
LEMMA OthersKeep ==
  ASSUME NEW c, NEW q \in Seq(Asks), NEW n, NEW A, NEW L, NEW W,
         Kept(c, q, n, A, L, W), NEW r \in Asks, AddressOf[r.key] \notin A
  PROVE  Kept(c, Append(q, r), n, A, L, W)
<1>1. \A from, to : Count(Append(q, r), A, from, to) = Count(q, A, from, to)
  <2> SUFFICES ASSUME NEW from, NEW to
               PROVE  Count(Append(q, r), A, from, to) = Count(q, A, from, to)
    OBVIOUS
  <2>1. Count(Append(q, r), A, from, to) = Count(q, A, from, to) + 0
    BY CountAppend
  <2>2. Count(q, A, from, to) \in Nat
    BY CountType
  <2> QED BY <2>1, <2>2
<1> QED BY <1>1 DEF Kept, WindowKept

\* A request is given back, perhaps to a window that this very request has begun.
LEMMA RefundKeeps ==
  ASSUME NEW c, NEW q, NEW n \in Nat, SentBy(q, n), NEW A, NEW L \in Nat \ {0},
         NEW W \in Nat \ {0}, Kept(c, q, n, A, L, W)
  PROVE  Kept(Refunded(c, n, W), q, n, A, L, W)
<1> DEFINE e == Refunded(c, n, W)
<1>1. CounterTyped(c, L) /\ WindowKept(c, q, n, A, L, W) /\ q \in Seq(Asks)
  BY DEF Kept, SentBy
<1>2. CASE Runs(c, n)
  <2>1. /\ e \in [count : Nat, resetAt : Nat] /\ Runs(e, n)
        /\ e.count = c.count /\ e.resetAt = c.resetAt /\ c.count <= L
    BY <1>1, <1>2, ChargedIs
  <2> HIDE DEF e
  <2>2. CounterTyped(e, L) /\ WindowKept(e, q, n, A, L, W)
    BY <1>1, <1>2, <2>1 DEF CounterTyped, WindowKept
  <2> QED BY <2>2 DEF Kept, e
<1>3. CASE ~Runs(c, n)
  <2>1. e \in [count : Nat, resetAt : Nat] /\ Runs(e, n) /\ e.count = 0 /\ e.resetAt = n + W
    BY <1>1, <1>3, ChargedIs
  <2>2. Count(q, A, n - W, n) <= L /\ Count(q, A, n, n) = 0
    BY <1>1, <1>3 DEF WindowKept
  <2> HIDE DEF e
  <2>3. InPeriod(q, A, n - W, n - 1) \subseteq InPeriod(q, A, n - W, n)
    BY <1>1, AskTimes DEF InPeriod
  <2> DEFINE u == n - W  v == n - 1
  <2>4. Count(q, A, u, v) <= L
    <3> HIDE DEF u, v
    <3>1. InPeriod(q, A, u, v) \subseteq InPeriod(q, A, u, n)
      BY <2>3 DEF u, v
    <3>2. Count(q, A, u, v) <= Count(q, A, u, n) /\ Count(q, A, u, v) \in Nat /\ Count(q, A, u, n) \in Nat
      BY <1>1, <3>1, CountPart, CountType
    <3>3. Count(q, A, u, n) <= L
      BY <2>2 DEF u
    <3> QED BY <3>2, <3>3
  <2>5. e.resetAt - W = n /\ e.resetAt - W - W = u /\ e.resetAt - W - 1 = v /\ e.resetAt <= n + W
    BY <2>1
  <2> HIDE DEF u, v
  <2>6. CounterTyped(e, L) /\ WindowKept(e, q, n, A, L, W)
    BY <2>1, <2>2, <2>4, <2>5 DEF CounterTyped, WindowKept
  <2> QED BY <2>6 DEF Kept, e
<1> QED BY <1>2, <1>3

\* A counter that does not run is forgotten.
LEMMA SweepKeeps ==
  ASSUME NEW c, NEW q, NEW n, NEW A, NEW L, NEW W, Kept(c, q, n, A, L, W)
  PROVE  Kept(IF Runs(c, n) THEN c ELSE NoCounter, q, n, A, L, W)
BY DEF Kept, CounterTyped, WindowKept, Runs

-------------------------------------------------------------------------------
(* The counters of the server.                                             *)

AddressKept(c, q, n, a) == Kept(c, q, n, {a}, HourlyLimit, HourWindow)
ServerKept(c, q, n) == Kept(c, q, n, Addresses, DailyLimit, DayWindow)

AllowInv ==
  /\ DOMAIN ipCounters = Addresses
  /\ \A a \in Addresses : AddressKept(ipCounters[a], asked, now, a)
  /\ ServerKept(globalCounter, asked, now)

\* The counters' invariant holds initially.
LEMMA InitialAllowance == Init => AllowInv
<1> SUFFICES ASSUME Init PROVE AllowInv
  OBVIOUS
<1>1. /\ now = 0 /\ asked = <<>> /\ globalCounter = NoCounter
      /\ ipCounters = [a \in Addresses |-> NoCounter]
  BY DEF Init
<1>2. \A A, from, to : Count(asked, A, from, to) = 0
  <2> SUFFICES ASSUME NEW A, NEW from, NEW to PROVE Count(asked, A, from, to) = 0
    OBVIOUS
  <2>1. InPeriod(asked, A, from, to) = {}
    BY <1>1 DEF InPeriod
  <2> QED BY <2>1, FS_EmptySet DEF Count
<1>3. ASSUME NEW A, NEW L \in Nat, NEW W \in Nat PROVE Kept(NoCounter, asked, now, A, L, W)
  BY <1>2 DEF Kept, CounterTyped, WindowKept, Runs
<1> QED BY <1>1, <1>3, WindowsAssumption DEF AllowInv, AddressKept, ServerKept

\* A counter runs when its window has not ended now.
LEMMA RunningRuns ==
  ASSUME NEW c PROVE Running(c) = Runs(c, now)
BY DEF Running, Runs

\* A member has an address.
LEMMA MembersAddress ==
  ASSUME NEW k \in Members PROVE AddressOf[k] \in Addresses
BY WindowsAssumption DEF Addresses

\* A request that is granted charges both counters and is counted by both.
LEMMA AskedAllowance ==
  ASSUME CacheInv, AllowInv, NEW k \in Members, AskCloudflare(k)
  PROVE  AllowInv'
<1> DEFINE a == AddressOf[k]  r == [key |-> k, at |-> now]
<1>1. /\ ~Exhausted(ipCounters[a], HourlyLimit) /\ ~Exhausted(globalCounter, DailyLimit)
      /\ ipCounters' = [ipCounters EXCEPT ![a] = Counted(@, HourWindow)]
      /\ globalCounter' = Counted(globalCounter, DayWindow)
      /\ asked' = Append(asked, r) /\ now' = now
  BY DEF AskCloudflare, Granted
<1>2. /\ now \in Nat /\ SentBy(asked, now) /\ asked \in Seq(Asks)
      /\ r \in Asks /\ r.at = now /\ r.key = k /\ a \in Addresses
  BY MembersAddress DEF CacheInv, IssuedTyped, SentBy, Requests, Asks
<1> HIDE DEF r, a
<1>3. /\ Counted(ipCounters[a], HourWindow) = Charged(ipCounters[a], now, HourWindow)
      /\ Counted(globalCounter, DayWindow) = Charged(globalCounter, now, DayWindow)
  BY RunningRuns DEF Counted, Charged
<1>4. AddressKept(Charged(ipCounters[a], now, HourWindow), asked', now, a)
  <2>1. AddressKept(ipCounters[a], asked, now, a)
    BY <1>2 DEF AllowInv
  <2>2. ~(Runs(ipCounters[a], now) /\ ipCounters[a].count >= HourlyLimit)
    BY <1>1, RunningRuns DEF Exhausted
  <2>3. AddressOf[r.key] \in {a}
    BY <1>2 DEF a
  <2> DEFINE A == {a}  c == ipCounters[a]
  <2> HIDE DEF A, c
  <2>4. Kept(c, asked, now, A, HourlyLimit, HourWindow)
    BY <2>1 DEF AddressKept, A, c
  <2>5. Kept(Charged(c, now, HourWindow), Append(asked, r), now, A, HourlyLimit, HourWindow)
    BY <1>2, <2>2, <2>3, <2>4, ChargeKeeps, WindowsAssumption DEF A, c
  <2> QED BY <1>1, <2>5 DEF AddressKept, A, c
<1>5. ASSUME NEW b \in Addresses, b # a PROVE AddressKept(ipCounters[b], asked', now, b)
  <2>1. AddressKept(ipCounters[b], asked, now, b)
    BY DEF AllowInv
  <2>2. AddressOf[r.key] \notin {b}
    BY <1>2, <1>5 DEF a
  <2> QED BY <1>1, <1>2, <2>1, <2>2, OthersKeep DEF AddressKept
<1>6. ServerKept(Charged(globalCounter, now, DayWindow), asked', now)
  <2>1. ServerKept(globalCounter, asked, now)
    BY DEF AllowInv
  <2>2. ~(Runs(globalCounter, now) /\ globalCounter.count >= DailyLimit)
    BY <1>1, RunningRuns DEF Exhausted
  <2>3. AddressOf[r.key] \in Addresses
    BY <1>2 DEF a
  <2> QED BY <1>1, <1>2, <2>1, <2>2, <2>3, ChargeKeeps, WindowsAssumption DEF ServerKept
<1>7. /\ DOMAIN ipCounters' = Addresses /\ ipCounters'[a] = Charged(ipCounters[a], now, HourWindow)
      /\ \A b \in Addresses \ {a} : ipCounters'[b] = ipCounters[b]
  BY <1>1, <1>2, <1>3 DEF AllowInv
<1>8. \A b \in Addresses : AddressKept(ipCounters'[b], asked', now', b)
  BY <1>1, <1>4, <1>5, <1>7
<1>9. ServerKept(globalCounter', asked', now')
  BY <1>1, <1>3, <1>6
<1> QED BY <1>7, <1>8, <1>9 DEF AllowInv

\* A request that is refused is counted by neither.
LEMMA RefusedAllowance ==
  ASSUME CacheInv, AllowInv, NEW k \in Members, AskInVain(k)
  PROVE  AllowInv'
<1> DEFINE a == AddressOf[k]
<1>1. asked' = asked /\ now' = now /\ Refused(a) /\ a \in Addresses
  BY MembersAddress DEF AskInVain
<1>2. now \in Nat /\ SentBy(asked, now)
  BY DEF CacheInv, IssuedTyped, SentBy, Requests
<1> HIDE DEF a
<1>3. CASE UNCHANGED counters
  BY <1>1, <1>3 DEF counters, AllowInv
<1>4. CASE GiveBack(a) /\ UNCHANGED globalCounter
  <2>1. Discharged(ipCounters[a], HourWindow) = Refunded(ipCounters[a], now, HourWindow)
    BY RunningRuns DEF Discharged, Refunded, Counted, Charged
  <2>2. /\ DOMAIN ipCounters' = Addresses
        /\ ipCounters'[a] = Refunded(ipCounters[a], now, HourWindow)
        /\ \A b \in Addresses \ {a} : ipCounters'[b] = ipCounters[b]
    BY <1>1, <1>4, <2>1 DEF GiveBack, AllowInv
  <2>3. AddressKept(ipCounters[a], asked, now, a)
    BY <1>1 DEF AllowInv
  <2> DEFINE A == {a}  c == ipCounters[a]
  <2> HIDE DEF A, c
  <2>4. Kept(c, asked, now, A, HourlyLimit, HourWindow)
    BY <2>3 DEF AddressKept, A, c
  <2>5. Kept(Refunded(c, now, HourWindow), asked, now, A, HourlyLimit, HourWindow)
    BY <1>2, <2>4, RefundKeeps, WindowsAssumption
  <2>6. AddressKept(ipCounters'[a], asked, now, a)
    BY <2>2, <2>5 DEF AddressKept, A, c
  <2>7. \A b \in Addresses : AddressKept(ipCounters'[b], asked', now', b)
    BY <1>1, <2>2, <2>6 DEF AllowInv
  <2> QED BY <1>1, <1>4, <2>2, <2>7 DEF AllowInv
<1> QED BY <1>1, <1>3, <1>4 DEF Refused

\* Every step keeps the counters' invariant.
LEMMA AllowanceStep == CacheInv /\ AllowInv /\ [Next]_vars => AllowInv'
<1> SUFFICES ASSUME CacheInv, AllowInv, [Next]_vars PROVE AllowInv'
  OBVIOUS
<1>1. now \in Nat /\ SentBy(asked, now)
  BY DEF CacheInv, IssuedTyped, SentBy, Requests
<1>2. ASSUME UNCHANGED <<now, counters, asked>> PROVE AllowInv'
  BY <1>2 DEF counters, AllowInv
<1>3. CASE Sweep
  <2>1. /\ asked' = asked /\ now' = now
        /\ ipCounters' = [a \in Addresses |-> IF Runs(ipCounters[a], now) THEN ipCounters[a] ELSE NoCounter]
        /\ globalCounter' = IF Runs(globalCounter, now) THEN globalCounter ELSE NoCounter
    BY <1>3, RunningRuns DEF Sweep
  <2>2. ASSUME NEW a \in Addresses PROVE AddressKept(ipCounters'[a], asked, now, a)
    <3> DEFINE A == {a}  c == ipCounters[a]
    <3>1. Kept(c, asked, now, A, HourlyLimit, HourWindow)
      BY DEF AllowInv, AddressKept
    <3> HIDE DEF A, c
    <3>2. Kept(IF Runs(c, now) THEN c ELSE NoCounter, asked, now, A, HourlyLimit, HourWindow)
      BY <3>1, SweepKeeps
    <3> QED BY <2>1, <3>2 DEF AddressKept, A, c
  <2>3. ServerKept(globalCounter', asked, now)
    <3>1. Kept(globalCounter, asked, now, Addresses, DailyLimit, DayWindow)
      BY DEF AllowInv, ServerKept
    <3>2. Kept(IF Runs(globalCounter, now) THEN globalCounter ELSE NoCounter, asked, now, Addresses,
               DailyLimit, DayWindow)
      BY <3>1, SweepKeeps
    <3> QED BY <2>1, <3>2 DEF ServerKept
  <2> QED BY <2>1, <2>2, <2>3 DEF AllowInv
<1>4. CASE Tick
  <2>1. now' = now + 1 /\ asked' = asked /\ ipCounters' = ipCounters /\ globalCounter' = globalCounter
    BY <1>4 DEF Tick, counters
  <2>2. ASSUME NEW a \in Addresses PROVE AddressKept(ipCounters[a], asked, now + 1, a)
    <3> DEFINE A == {a}  c == ipCounters[a]
    <3>1. Kept(c, asked, now, A, HourlyLimit, HourWindow)
      BY DEF AllowInv, AddressKept
    <3> HIDE DEF A, c
    <3>2. Kept(c, asked, now + 1, A, HourlyLimit, HourWindow)
      BY <1>1, <3>1, TimeKeeps, WindowsAssumption
    <3> QED BY <3>2 DEF AddressKept, A, c
  <2>3. ServerKept(globalCounter, asked, now + 1)
    BY <1>1, TimeKeeps, WindowsAssumption DEF AllowInv, ServerKept
  <2> QED BY <2>1, <2>2, <2>3 DEF AllowInv
<1>5. ASSUME NEW k \in Members,
             AskCloudflare(k) \/ AskInVain(k) \/ Leave(k) \/ Left(k) \/ Unseat(k) \/ Rejoin(k)
      PROVE  AllowInv'
  BY <1>2, <1>5, AskedAllowance, RefusedAllowance DEF Leave, Left, Unseat, Rejoin
<1>6. ASSUME NEW i \in Requests, Generated(i) \/ NotGenerated(i) \/ RevocationEnds(i)
      PROVE  AllowInv'
  BY <1>2, <1>6 DEF Generated, NotGenerated, RevocationEnds
<1>7. CASE UNCHANGED vars
  BY <1>2, <1>7 DEF vars
<1> QED BY <1>3, <1>4, <1>5, <1>6, <1>7 DEF Next

\* A running counter has counted the requests of its window, and in no period as long
\* as a window are more requests sent than two windows allow, for an address and for
\* the whole server (consumeCredentialAllowance with its rollback, and the sweep).
THEOREM AllowancesAreKept == Spec => []AllowanceIsKept
<1>1. CacheInv /\ AllowInv => AllowanceIsKept
  <2> SUFFICES ASSUME CacheInv, AllowInv PROVE AllowanceIsKept
    OBVIOUS
  <2>1. \A A, from, to : AskedIn(A, from, to) = Count(asked, A, from, to)
    BY DEF AskedIn, Count, InPeriod, Requests
  <2>2. 0..MaxTime \subseteq Int
    OBVIOUS
  <2>3. ASSUME NEW a \in Addresses
        PROVE  /\ Running(ipCounters[a]) =>
                    ipCounters[a].count = AskedIn({a}, ipCounters[a].resetAt - HourWindow, now)
               /\ \A t \in 0..MaxTime : AskedIn({a}, t, t + HourWindow - 1) <= 2 * HourlyLimit
    <3>1. AddressKept(ipCounters[a], asked, now, a)
      BY DEF AllowInv
    <3>2. HourlyLimit + HourlyLimit = 2 * HourlyLimit
      BY WindowsAssumption
    <3> QED BY <2>1, <2>2, <3>1, <3>2, RunningRuns DEF AddressKept, Kept, WindowKept
  <2>4. /\ Running(globalCounter) =>
             globalCounter.count = AskedIn(Addresses, globalCounter.resetAt - DayWindow, now)
        /\ \A t \in 0..MaxTime : AskedIn(Addresses, t, t + DayWindow - 1) <= 2 * DailyLimit
    <3>1. ServerKept(globalCounter, asked, now)
      BY DEF AllowInv
    <3>2. DailyLimit + DailyLimit = 2 * DailyLimit
      BY WindowsAssumption
    <3> QED BY <2>1, <2>2, <3>1, <3>2, RunningRuns DEF ServerKept, Kept, WindowKept
  <2> QED BY <2>3, <2>4 DEF AllowanceIsKept
<1>2. Spec => []AllowInv
  BY InitialAllowance, AllowanceStep, CacheInvariant, PTL DEF Spec
<1> QED BY <1>1, <1>2, CacheInvariant, PTL
===============================================================================
