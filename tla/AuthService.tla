---------------------------- MODULE AuthService ----------------------------
(***************************************************************************)
(* relayer/src/auth_service.rs, auth_challenges.rs and auth_interceptor.rs:*)
(* a validator asks for a challenge, signs it, exchanges it for an access  *)
(* and a refresh token and renews the access token.  Calls run             *)
(* concurrently; each method of AuthChallenges takes its mutex on its own, *)
(* so a call is one action per lock it takes, and others run in between.   *)
(*                                                                         *)
(* A validator stands for its key pair: what it signs verifies under its   *)
(* own key only.  It has one call open at a time.  check_health and        *)
(* is_authorized read what other threads write, so either answer is        *)
(* possible at any time; a refusal leaves the service as it is.  Ages      *)
(* stand for the expiry times (expiry = creation + time to live).  The     *)
(* clock counts minutes and a call takes none; the expiration task wakes   *)
(* when its interval is over.                                              *)
(***************************************************************************)
EXTENDS Integers, FiniteSets

CONSTANTS
  Validator,           \* the callers, each with its key pair
  Ip,                  \* the addresses calls come from
  AddressesOf,         \* the addresses of each validator, some of them shared
  Capacity,            \* AUTH_CHALLENGES_CAPACITY
  ChallengeTtl,        \* challenge_ttl_secs
  SweepInterval,       \* challenge_expiration_sleep_interval_secs
  AccessTtl,           \* access_token_ttl_secs
  RefreshTtl           \* refresh_token_ttl_secs

ASSUME AuthServiceAssumption ==
  /\ IsFiniteSet(Validator) /\ IsFiniteSet(Ip)
  /\ AddressesOf \in [Validator -> SUBSET Ip]
  /\ {Capacity, ChallengeTtl, SweepInterval, AccessTtl, RefreshTtl} \subseteq Nat \ {0}

VARIABLES
  auth_challenges,     \* the challenge of each address, or NoChallenge
  client,              \* how far each validator has come, and with what
  sweep_in             \* time until the expiration task wakes

vars == <<auth_challenges, client, sweep_in>>

\* Ages are counted up to the last that matters.
OldestAge == ChallengeTtl + SweepInterval
Older(age) == IF age < OldestAge THEN age + 1 ELSE age
LessLeft(left) == IF left > 0 THEN left - 1 ELSE left

\* Random strings, as many as can be known at once: a new one is none of those.
String == 1 .. Cardinality(Ip) + Cardinality(Validator) + 1

Challenge == [string : String, pubkey : Validator, age : 0 .. OldestAge]
NoChallenge == [string |-> 0]

MutIsExpired(challenge) == challenge.age >= ChallengeTtl - 1
is_expired(challenge) == challenge.age >= ChallengeTtl

\* What a validator has: nothing, a call past some of its awaits, the string of a
\* challenge, or tokens.
Idle == [at |-> "idle"]
Calling == [at : {"len", "get", "push"}, ip : Ip]
Told == [at : {"told"}, ip : Ip, string : String, age : 0 .. OldestAge]
Redeeming == [at : {"remove"}, ip : Ip, challenge : Challenge]
Tokens == [at : {"tokens"}, access : Validator, refresh : Validator,
           issued_for : Int, refresh_left : Int]

Init ==
  /\ auth_challenges = [i \in Ip |-> NoChallenge]
  /\ client = [v \in Validator |-> Idle]
  /\ sweep_in = 0

-----------------------------------------------------------------------------
(* generate_auth_challenge.                                                *)

Present == {i \in Ip : auth_challenges[i] # NoChallenge}

Become(v, state) == client' = [client EXCEPT ![v] = state]

GenerateAuthChallenge(v, ip) ==
  /\ ip \in AddressesOf[v]
  /\ client[v].at \in {"idle", "told"}
  /\ Become(v, [at |-> "len", ip |-> ip])
  /\ UNCHANGED <<auth_challenges, sweep_in>>

MutOverloaded == FALSE
Overloaded == Cardinality(Present) >= Capacity

CheckLen(v) ==
  /\ client[v].at = "len"
  /\ Become(v, IF Overloaded THEN Idle ELSE [client[v] EXCEPT !.at = "get"])
  /\ UNCHANGED <<auth_challenges, sweep_in>>

Reusable(ip) == ip \in Present /\ ~is_expired(auth_challenges[ip])

\* The address has a challenge that still runs, whoever it was made for: answer
\* with that one.
ReuseChallenge(v) ==
  /\ client[v].at = "get"
  /\ Reusable(client[v].ip)
  /\ LET challenge == auth_challenges[client[v].ip]
     IN  Become(v, [at |-> "told", ip |-> client[v].ip,
                    string |-> challenge.string, age |-> challenge.age])
  /\ UNCHANGED <<auth_challenges, sweep_in>>

\* It has none: the role, key and authorization checks either refuse or go on.
CheckRequest(v, is_authorized) ==
  /\ client[v].at = "get"
  /\ ~Reusable(client[v].ip)
  /\ Become(v, IF is_authorized THEN [client[v] EXCEPT !.at = "push"] ELSE Idle)
  /\ UNCHANGED <<auth_challenges, sweep_in>>

\* The strings that someone could still present or compare.
Known == {auth_challenges[i].string : i \in Present}
         \cup {client[v].string : v \in {u \in Validator : client[u].at = "told"}}
         \cup {client[v].challenge.string : v \in {u \in Validator : client[u].at = "remove"}}

generate_challenge_token == CHOOSE string \in String : string \notin Known

PushChallenge(v) ==
  /\ client[v].at = "push"
  /\ LET ip == client[v].ip
         string == generate_challenge_token
     IN  /\ auth_challenges' = [auth_challenges EXCEPT
                                  ![ip] = [string |-> string, pubkey |-> v, age |-> 0]]
         /\ Become(v, [at |-> "told", ip |-> ip, string |-> string, age |-> 0])
  /\ UNCHANGED sweep_in

-----------------------------------------------------------------------------
(* generate_auth_tokens: the signature verifies, since a validator signs    *)
(* with its own key; the challenge's expiry is not looked at.               *)

MutMatches(v) == LET c == auth_challenges[client[v].ip] IN client[v].string = c.string
Matches(v) == LET c == auth_challenges[client[v].ip]
              IN  c.pubkey = v /\ client[v].string = c.string

GenerateAuthTokens(v) ==
  /\ client[v].at = "told"
  /\ Become(v, IF client[v].ip \in Present /\ Matches(v)
               THEN [at |-> "remove", ip |-> client[v].ip,
                     challenge |-> auth_challenges[client[v].ip]]
               ELSE Idle)
  /\ UNCHANGED <<auth_challenges, sweep_in>>

\* The tokens carry the claims fixed when the challenge was made.
TokensOf(challenge) ==
  [at |-> "tokens",
   access |-> challenge.pubkey,
   refresh |-> challenge.pubkey,
   issued_for |-> AccessTtl - challenge.age,
   refresh_left |-> RefreshTtl - challenge.age]

RemoveChallenge(v) ==
  /\ client[v].at = "remove"
  /\ auth_challenges' = [auth_challenges EXCEPT ![client[v].ip] = NoChallenge]
  /\ Become(v, TokensOf(client[v].challenge))
  /\ UNCHANGED sweep_in

-----------------------------------------------------------------------------
(* refresh_access_token, the interceptor and callers that give up.          *)

\* The new access token is for the key of the refresh token.
RefreshAccessToken(v) ==
  /\ client[v].at = "tokens"
  /\ Become(v, IF client[v].refresh_left <= 0
               THEN Idle
               ELSE [client[v] EXCEPT !.access = client[v].refresh])
  /\ UNCHANGED <<auth_challenges, sweep_in>>

\* The key the interceptor takes from a verified token and subscribe_packets uses.
SubscribedAs(v) == client[v].access

\* The caller restarts or hangs up: its call ends at the await it has reached.
GiveUp(v) ==
  /\ client[v].at # "idle"
  /\ Become(v, Idle)
  /\ UNCHANGED <<auth_challenges, sweep_in>>

-----------------------------------------------------------------------------
(* The expiration task and time.                                           *)

\* The queue pops its oldest challenge as long as that one has expired.
Popped == {i \in Present : \A j \in Present :
             auth_challenges[j].age >= auth_challenges[i].age => is_expired(auth_challenges[j])}

RemoveAllExpired ==
  /\ sweep_in = 0
  /\ sweep_in' = SweepInterval
  /\ auth_challenges' = [i \in Ip |-> IF i \in Popped THEN NoChallenge ELSE auth_challenges[i]]
  /\ UNCHANGED client

\* No call is under way and the expiration task is asleep.
AtRest == /\ sweep_in > 0
          /\ \A v \in Validator : client[v].at \in {"idle", "told", "tokens"}

Tick ==
  /\ AtRest
  /\ sweep_in' = sweep_in - 1
  /\ auth_challenges' = [i \in Ip |-> IF i \in Present
                                      THEN [auth_challenges[i] EXCEPT !.age = Older(@)]
                                      ELSE NoChallenge]
  /\ client' = [v \in Validator |->
                  CASE client[v].at = "told" -> [client[v] EXCEPT !.age = Older(@)]
                    [] client[v].at = "tokens" -> [client[v] EXCEPT !.refresh_left = LessLeft(@)]
                    [] OTHER -> client[v]]

Next ==
  \/ \E v \in Validator :
       \/ \E ip \in Ip : GenerateAuthChallenge(v, ip)
       \/ CheckLen(v)
       \/ ReuseChallenge(v)
       \/ \E is_authorized \in BOOLEAN : CheckRequest(v, is_authorized)
       \/ PushChallenge(v)
       \/ GenerateAuthTokens(v)
       \/ RemoveChallenge(v)
       \/ RefreshAccessToken(v)
       \/ GiveUp(v)
  \/ RemoveAllExpired
  \/ Tick

Spec == Init /\ [][Next]_vars

-----------------------------------------------------------------------------
(* Properties.                                                             *)

\* Every variable has its type.
TypeOK ==
  /\ auth_challenges \in [Ip -> Challenge \cup {NoChallenge}]
  /\ client \in [Validator -> {Idle} \cup Calling \cup Told \cup Redeeming \cup Tokens]
  /\ sweep_in \in 0 .. SweepInterval

\* The calls that have passed the check of len and may still push.
PastCheck == {v \in Validator : client[v].at \in {"get", "push"}}

\* len() is read under one lock and push() made under another: the map can grow
\* past AUTH_CHALLENGES_CAPACITY, but by fewer entries than calls are open at once.
ChallengesBounded ==
  Cardinality(Present) + Cardinality(PastCheck) < Capacity + Cardinality(Validator)

\* "Specifies how long access_tokens are valid for" and "how long challenges are valid
\* for": the access token that generate_auth_tokens hands out has not expired yet.  The
\* token's life is counted from generate_auth_challenge, so with the default settings,
\* where both times are the same, this takes that no expired challenge is redeemed.
IssuedValid ==
  \A v \in Validator : client[v].at = "tokens" => client[v].issued_for > 0

\* However many validators share an address, and so are told the same challenge, the
\* key a validator subscribes with is the one it signed with.
OwnIdentity ==
  \A v \in Validator : client[v].at = "tokens" => SubscribedAs(v) = v

\* What the desk of KeyDesk.tla shows of the map and of the calls.
Posted == [i \in Ip |-> IF i \in Present THEN {auth_challenges[i].pubkey} ELSE {}]
Stage == [v \in Validator |->
  CASE client[v].at = "remove" -> [at |-> "proved", ip |-> client[v].ip]
    [] client[v].at = "tokens" -> [at |-> "session", key |-> SubscribedAs(v)]
    [] OTHER -> [at |-> "nothing"]]

Desk == INSTANCE KeyDesk WITH standing <- Posted, stage <- Stage

\* The two locks of each call, overtaken by other calls and by the expiration task,
\* implement the desk: a session takes a proof of the own key against a challenge that
\* was made for it and stands, and leaves no challenge at the address.
ImplementsDesk == Desk!DeskSpec

\* No other validator calls from the address.
Alone(v, ip) == \A u \in Validator \ {v} : ip \notin AddressesOf[u]

\* Requests from one address displace each other's challenges, since get_priority and
\* push are two locks.  A validator that shares its address with no other can redeem
\* the challenge it was told for all of challenge_ttl.
ChallengeHonoured ==
  \A v \in Validator :
    client[v].at = "told" /\ client[v].age < ChallengeTtl /\ Alone(v, client[v].ip)
      => client[v].ip \in Present /\ Matches(v)
=============================================================================
