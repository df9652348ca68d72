---------------------------- MODULE OperatorReplay --------------------------
(***************************************************************************)
(* The replay button of the dashboard: the monitor obtains a token for the *)
(* client of the row, keeps it for a while (replay-client.ts), and asks    *)
(* the self-service API, which issues and verifies the tokens (auth.ts,    *)
(* the demo endpoint of app.ts), for the replay.                           *)
(***************************************************************************)
EXTENDS Integers

CONSTANTS
  Accounts,              \* the clients replays are asked for
  Presses,               \* bound: the requests to /api/replay
  TokenTtl,              \* how long the monitor keeps a token, 60 s
  JwtTtl,                \* how long it is valid, JWT_TTL_SECONDS
  MaxLatency,            \* bound: how long a call to the API is under way; the code has none
  MaxTime                \* bound

ASSUME OperatorAssumption ==
  TokenTtl \in Nat \ {0} /\ JwtTtl \in Nat /\ MaxLatency \in Nat /\ MaxTime \in Nat

VARIABLES
  now,                   \* the clock, of both services
  tokens,                \* tokens[c]: the cache
  press                  \* press[p]: a request and where it is

operator == <<now, tokens, press>>

Token == [client : Accounts, expiresAt : Nat]
NoToken == [client |-> "nobody", expiresAt |-> 0]

\* age: for how long its call has been under way (observed only by the bound).
Press == [step : {"new", "token", "issued", "post", "done"}, client : Accounts \cup {"nobody"},
          token : Token \cup {NoToken}, status : {0, 202, 400, 401, 409, 502}, age : Nat]

\* A cached token is trusted until expiresAt; nothing is cached at first.
OperatorInit ==
  /\ now = 0
  /\ tokens = [c \in Accounts |-> [token |-> NoToken, expiresAt |-> 0]]
  /\ press = [p \in Presses |->
       [step |-> "new", client |-> "nobody", token |-> NoToken, status |-> 0, age |-> 0]]

OperatorTypeOK ==
  /\ now \in Nat
  /\ tokens \in [Accounts -> [token : Token \cup {NoToken}, expiresAt : Nat]]
  /\ press \in [Presses -> Press]

-----------------------------------------------------------------------------
\* The body of the request names no row.
BadRequest(p) ==
  /\ press[p].step = "new"
  /\ press' = [press EXCEPT ![p].step = "done", ![p].status = 400]
  /\ UNCHANGED <<now, tokens>>

\* A mistake in tokenFor: whichever token is at hand.
PressAnyToken(p) ==
  /\ press[p].step = "new"
  /\ \E c, d \in Accounts :
       IF tokens[d].expiresAt > now
         THEN press' = [press EXCEPT ![p].step = "post", ![p].client = c,
                                     ![p].token = tokens[d].token]
         ELSE press' = [press EXCEPT ![p].step = "token", ![p].client = c]
  /\ UNCHANGED <<now, tokens>>

\* A mistake in tokenFor: a cached token is used for good.
PressOldToken(p) ==
  /\ press[p].step = "new"
  /\ \E c \in Accounts :
       IF tokens[c].token # NoToken
         THEN press' = [press EXCEPT ![p].step = "post", ![p].client = c,
                                     ![p].token = tokens[c].token]
         ELSE press' = [press EXCEPT ![p].step = "token", ![p].client = c]
  /\ UNCHANGED <<now, tokens>>

\* The button of a row of client c: with the token at hand, or for another.
PressReplay(p) ==
  /\ press[p].step = "new"
  /\ \E c \in Accounts :
       IF tokens[c].expiresAt > now
         THEN press' = [press EXCEPT ![p].step = "post", ![p].client = c,
                                     ![p].token = tokens[c].token]
         ELSE press' = [press EXCEPT ![p].step = "token", ![p].client = c]
  /\ UNCHANGED <<now, tokens>>

\* issueDemoToken: for the client it is asked for, from now on.
IssueToken(p) ==
  /\ press[p].step = "token"
  /\ press' = [press EXCEPT ![p].step = "issued",
       ![p].token = [client |-> press[p].client, expiresAt |-> now + JwtTtl]]
  /\ UNCHANGED <<now, tokens>>

\* The answer is there: the token is cached from now on, and used.
TakeToken(p) ==
  /\ press[p].step = "issued"
  /\ tokens' = [tokens EXCEPT ![press[p].client] =
       [token |-> press[p].token, expiresAt |-> now + TokenTtl]]
  /\ press' = [press EXCEPT ![p].step = "post", ![p].age = 0]
  /\ UNCHANGED now

\* authenticate, and then the replay itself (module ReplayApi): accepted, or refused.  The
\* monitor passes the status on.
Replayed(p) ==
  /\ press[p].step = "post"
  /\ \E status \in {202, 401, 409} :
       /\ status = 401 <=> press[p].token.expiresAt <= now
       /\ press' = [press EXCEPT ![p].step = "done", ![p].status = status]
  /\ UNCHANGED <<now, tokens>>

\* No token (the endpoint is a demo's), or no answer.
Unavailable(p) ==
  /\ press[p].step \in {"token", "issued", "post"}
  /\ press' = [press EXCEPT ![p].step = "done", ![p].status = 502]
  /\ UNCHANGED <<now, tokens>>

UnderWay(p) == press[p].step \in {"token", "issued", "post"}

Tick ==
  /\ now < MaxTime
  /\ \A p \in Presses : UnderWay(p) => press[p].age < MaxLatency
  /\ now' = now + 1
  /\ press' = [p \in Presses |->
       IF UnderWay(p) THEN [press[p] EXCEPT !.age = @ + 1] ELSE press[p]]
  /\ UNCHANGED tokens

OperatorNext ==
  \/ \E p \in Presses :
       \/ BadRequest(p) \/ PressReplay(p) \/ IssueToken(p) \/ TakeToken(p)
       \/ Replayed(p) \/ Unavailable(p)
  \/ Tick

OperatorSpec == OperatorInit /\ [][OperatorNext]_operator

-----------------------------------------------------------------------------
(* What holds.                                                             *)

\* The cache never hands out a token the API no longer takes, as long as tokens are valid
\* for longer than they are kept and calls take.
OperatorIsNotRefused ==
  JwtTtl >= TokenTtl + 2 * MaxLatency => \A p \in Presses : press[p].status # 401

\* "Authorised the same way": the replay is asked for in the name of the client whose row
\* the operator pressed, and of no other whose token is in the cache.
ReplayIsClients ==
  \A p \in Presses : press[p].step = "post" \/ press[p].status \in {202, 409} =>
    press[p].token.client = press[p].client
=============================================================================
