------------------------------ MODULE ResumeTokens ------------------------------
(***************************************************************************)
(* The tokens that prove who owns a seat: membershipTokens.ts on the       *)
(* server, membershipCredentials.ts in the browser.                        *)
(*                                                                         *)
(* The browser keeps for each room the token its seat answers to, and the  *)
(* one that is to replace it.  Tokens are random and never drawn twice:    *)
(* they are numbered in the order in which they are drawn.  The server     *)
(* keeps the SHA-256 hash of one token, which here is the token itself.    *)
(***************************************************************************)
EXTENDS Naturals

CONSTANTS
  NoRecord,  \* the browser has no tokens for the room
  NoHash     \* the device has no seat in the room

Pair == [current : Nat, pending : Nat]

\* (mutant) each attempt brings a new replacement.
PreparedAfresh(rec, drawn) ==
  IF rec = NoRecord THEN [current |-> drawn + 1, pending |-> drawn + 2]
  ELSE [rec EXCEPT !.pending = drawn + 1]
\* prepareMembershipCredentials, when `drawn` tokens were drawn before: a pair that
\* was prepared earlier and not committed is used again.
Prepared(rec, drawn) ==
  IF rec = NoRecord THEN [current |-> drawn + 1, pending |-> drawn + 2] ELSE rec
DrawnToPrepare(rec) == IF rec = NoRecord THEN 2 ELSE 0

\* commitMembershipCredentials: whatever the record says by then.
Committed(rec, drawn) ==
  IF rec = NoRecord THEN rec ELSE [current |-> rec.pending, pending |-> drawn + 1]

\* authorizeResume.  In both cases the seat answers to the replacement from now on.
Authorized(hash, pair) == hash \in {pair.current, pair.pending}
===============================================================================
