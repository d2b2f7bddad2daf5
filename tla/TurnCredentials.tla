---------------------------- MODULE TurnCredentials ----------------------------
(***************************************************************************)
(* The TURN credentials of a room's members: voice/iceServers.ts and the   *)
(* handlers of socketHandlers.ts that ask for one and that end a           *)
(* membership.                                                             *)
(*                                                                         *)
(* A credential is generated by Cloudflare, over HTTP, and cached for its  *)
(* member.  What the server knows of it is the cache entry; whether it is  *)
(* live is known to Cloudflare only, which is external: `issued`.          *)
(* Time is counted in steps that are longer than an HTTP request may take, *)
(* so that a request ends before the second step after it was sent.        *)
(***************************************************************************)
EXTENDS Naturals, FiniteSets, Sequences, SequencesExt

CONSTANTS
  Members,     \* membership keys: a device in a room
  AddressOf,   \* the IP address each of them comes from
  TTL,         \* TURN_CREDENTIAL_TTL_SECONDS
  CacheTime,   \* TURN_CACHE_MS
  FailureTime, \* FAILURE_CACHE_MS
  HourWindow, HourlyLimit,  \* the allowance of an address
  DayWindow, DailyLimit,    \* the allowance of the whole server
  NoEntry, NoCounter, Fallback,
  MaxTime,     \* bound: steps of time
  MaxRequests  \* bound: credentials asked of Cloudflare

ASSUME WindowsAssumption ==
  /\ TTL \in Nat /\ CacheTime \in Nat /\ FailureTime \in Nat /\ CacheTime < TTL
  /\ HourWindow \in Nat \ {0} /\ HourlyLimit \in Nat \ {0}
  /\ DayWindow \in Nat \ {0} /\ DailyLimit \in Nat \ {0}
  /\ AddressOf \in [Members -> Range(AddressOf)]
\* No counter is a counter.
ASSUME NoCounterAssumption == NoCounter \notin [count : Nat, resetAt : Nat]

VARIABLES
  now,
  seated,      \* members whose device is in the room
  credentialCache, ipCounters, globalCounter,
  asked,       \* requests to Cloudflare, in the order in which they were sent
  inFlight,    \* the ones it has not answered
  issued,      \* what it answered to the others: what became of each credential
  ending       \* room:leave handlers that wait for the revocation

counters == <<ipCounters, globalCounter>>
vars == <<now, seated, credentialCache, counters, asked, inFlight, issued, ending>>

Addresses == Range(AddressOf)
Requests == 1..Len(asked)

Init ==
  /\ now = 0 /\ seated = Members
  /\ credentialCache = [k \in Members |-> NoEntry]
  /\ ipCounters = [a \in Addresses |-> NoCounter] /\ globalCounter = NoCounter
  /\ asked = <<>> /\ inFlight = {} /\ issued = <<>> /\ ending = {}

-------------------------------------------------------------------------------
Running(counter) == counter # NoCounter /\ now < counter.resetAt
Exhausted(counter, limit) == Running(counter) /\ counter.count >= limit
Counted(counter, window) ==
  IF Running(counter) THEN [counter EXCEPT !.count = @ + 1]
  ELSE [count |-> 1, resetAt |-> now + window]

\* (mutant) an address pays for requests that the daily limit refused.
KeepCharge(a) == ipCounters' = [ipCounters EXCEPT ![a] = Counted(@, HourWindow)]
\* The address was charged before the daily limit was looked at; it is given back,
\* though its window may be a new one.
Discharged(counter, window) == [Counted(counter, window) EXCEPT !.count = @ - 1]
GiveBack(a) == ipCounters' = [ipCounters EXCEPT ![a] = Discharged(@, HourWindow)]

\* consumeCredentialAllowance: it refuses...
Refused(a) ==
  \/ Exhausted(ipCounters[a], HourlyLimit) /\ UNCHANGED counters
  \/ /\ ~Exhausted(ipCounters[a], HourlyLimit) /\ Exhausted(globalCounter, DailyLimit)
     /\ GiveBack(a) /\ UNCHANGED globalCounter
\* ...or charges both counters.
Granted(a) ==
  /\ ~Exhausted(ipCounters[a], HourlyLimit) /\ ~Exhausted(globalCounter, DailyLimit)
  /\ ipCounters' = [ipCounters EXCEPT ![a] = Counted(@, HourWindow)]
  /\ globalCounter' = Counted(globalCounter, DayWindow)

Cached(k) == credentialCache[k] # NoEntry /\ credentialCache[k].expiresAt > now
\* voice:ice is served to a seated device that is not alone in its room.
MayAsk(k) == k \in seated /\ Cardinality(seated) > 1

\* voice:ice, and getIceServerConfiguration up to the request.  (An answer from the
\* cache changes nothing.)
AskCloudflare(k) ==
  /\ MayAsk(k) /\ ~Cached(k) /\ Len(asked) < MaxRequests
  /\ Granted(AddressOf[k])
  /\ asked' = Append(asked, [key |-> k, at |-> now])
  /\ issued' = Append(issued, [state |-> "none", until |-> 0])
  /\ inFlight' = inFlight \cup {Len(asked')}
  /\ UNCHANGED <<now, seated, credentialCache, ending>>

AskInVain(k) ==
  /\ MayAsk(k) /\ ~Cached(k)
  /\ Refused(AddressOf[k])
  /\ UNCHANGED <<now, seated, credentialCache, asked, inFlight, issued, ending>>

\* The entry counts from the moment of the request, Cloudflare from a later one.
Entry(i) == [credential |-> i, expiresAt |-> asked[i].at + CacheTime]

\* Cloudflare answers with a credential; it is cached, whatever was cached or cleared
\* in the meantime.
Generated(i) ==
  /\ i \in inFlight /\ inFlight' = inFlight \ {i}
  /\ \E start \in asked[i].at..now : issued' = [issued EXCEPT ![i] = [state |-> "live", until |-> start + TTL]]
  /\ credentialCache' = [credentialCache EXCEPT ![asked[i].key] = Entry(i)]
  /\ UNCHANGED <<now, seated, counters, asked, ending>>

\* It refuses, or nothing is heard of it in time: what it may have issued nobody knows.
NotGenerated(i) ==
  /\ i \in inFlight /\ inFlight' = inFlight \ {i}
  /\ credentialCache' = [credentialCache EXCEPT ![asked[i].key] =
       [credential |-> Fallback, expiresAt |-> asked[i].at + FailureTime]]
  /\ UNCHANGED <<now, seated, counters, asked, issued, ending>>

-------------------------------------------------------------------------------
Revocable(k) ==
  {i \in Requests : credentialCache[k] # NoEntry /\ credentialCache[k].credential = i}
\* (mutant) the entry is left to expire.
KeepCached(k) ==
  /\ issued' = [i \in Requests |->
       IF i \in Revocable(k) THEN [issued[i] EXCEPT !.state = "revoking"] ELSE issued[i]]
  /\ UNCHANGED credentialCache
\* clearTurnMembership up to the revocation: only the credential in the cache is revoked.
Clear(k) ==
  /\ credentialCache' = [credentialCache EXCEPT ![k] = NoEntry]
  /\ issued' = [i \in Requests |->
       IF i \in Revocable(k) THEN [issued[i] EXCEPT !.state = "revoking"] ELSE issued[i]]

\* room:leave, releaseLobbyMembership: the device is unseated when the revocation
\* has ended.
Leave(k) ==
  /\ k \in seated \ ending
  /\ Clear(k) /\ ending' = ending \cup {k}
  /\ UNCHANGED <<now, seated, counters, asked, inFlight>>

Left(k) ==
  /\ k \in ending /\ \A i \in Requests : asked[i].key = k => issued[i].state # "revoking"
  /\ seated' = seated \ {k} /\ ending' = ending \ {k}
  /\ UNCHANGED <<now, credentialCache, counters, asked, inFlight, issued>>

\* room:kick, room:remove-seat, room:bot-takeover, game:exit and a join that replaces
\* the player: it is unseated first.
Unseat(k) ==
  /\ k \in seated
  /\ seated' = seated \ {k} /\ Clear(k)
  /\ UNCHANGED <<now, counters, asked, inFlight, ending>>

\* revokeCredential ends; the server does not look at whether it has succeeded.
RevocationEnds(i) ==
  /\ i \in Requests /\ issued[i].state = "revoking"
  /\ issued' = [issued EXCEPT ![i].state = "dealt with"]
  /\ UNCHANGED <<now, seated, credentialCache, counters, asked, inFlight, ending>>

\* room:join
Rejoin(k) ==
  /\ k \notin seated
  /\ seated' = seated \cup {k}
  /\ UNCHANGED <<now, credentialCache, counters, asked, inFlight, issued, ending>>

\* sweepTurnSecurityState
Sweep ==
  /\ credentialCache' = [k \in Members |-> IF Cached(k) THEN credentialCache[k] ELSE NoEntry]
  /\ ipCounters' = [a \in Addresses |-> IF Running(ipCounters[a]) THEN ipCounters[a] ELSE NoCounter]
  /\ globalCounter' = IF Running(globalCounter) THEN globalCounter ELSE NoCounter
  /\ UNCHANGED <<now, seated, asked, inFlight, issued, ending>>

\* A request to Cloudflare ends within one step of time (CLOUDFLARE_TIMEOUT_MS).
Tick ==
  /\ now < MaxTime /\ \A i \in inFlight : asked[i].at = now
  /\ now' = now + 1
  /\ UNCHANGED <<seated, credentialCache, counters, asked, inFlight, issued, ending>>

Next ==
  \/ \E k \in Members : AskCloudflare(k) \/ AskInVain(k) \/ Leave(k) \/ Left(k) \/ Unseat(k) \/ Rejoin(k)
  \/ \E i \in Requests : Generated(i) \/ NotGenerated(i) \/ RevocationEnds(i)
  \/ Sweep \/ Tick

Spec == Init /\ [][Next]_vars
-------------------------------------------------------------------------------
AskedIn(a, from, to) ==
  Cardinality({i \in Requests : AddressOf[asked[i].key] \in a /\ asked[i].at \in from..to})

\* A counter that runs has counted exactly the requests sent in its window, the ones
\* the other limit refused left out; and in no period as long as a window are more
\* requests sent than two windows allow (consumeCredentialAllowance, whose rollback
\* charges and discharges a counter that it may have just reset, and the sweep).
AllowanceIsKept ==
  /\ \A a \in Addresses :
       /\ Running(ipCounters[a]) =>
            ipCounters[a].count = AskedIn({a}, ipCounters[a].resetAt - HourWindow, now)
       /\ \A t \in 0..MaxTime : AskedIn({a}, t, t + HourWindow - 1) <= 2 * HourlyLimit
  /\ Running(globalCounter) =>
       globalCounter.count = AskedIn(Addresses, globalCounter.resetAt - DayWindow, now)
  /\ \A t \in 0..MaxTime : AskedIn(Addresses, t, t + DayWindow - 1) <= 2 * DailyLimit

\* A credential that is served from the cache was issued for that member, works, is
\* not about to be revoked, and outlives the entry (getIceServerConfiguration and
\* clearTurnMembership in any order around their requests).
CacheServesLiveCredentials ==
  \A k \in Members : Cached(k) /\ credentialCache[k].credential # Fallback =>
    LET i == credentialCache[k].credential
    IN asked[i].key = k /\ issued[i].state = "live" /\ issued[i].until > credentialCache[k].expiresAt

\* "A live credential is also revoked when its player leaves, is kicked, changes
\* lobbies, or the game exits" (README.md:65-67): a credential whose revocation was
\* not even tried belongs to somebody who is seated.
LeaversCredentialIsRevoked ==
  \A i \in Requests : issued[i].state = "live" /\ now < issued[i].until => asked[i].key \in seated
===============================================================================
