------------------------- MODULE AuthService_proofs -------------------------
(***************************************************************************)
(* What the auth service promises, for any number of validators and        *)
(* addresses, any sharing of addresses and any times to live.              *)
(***************************************************************************)
EXTENDS AuthService, FiniteSetTheorems, TLAPS

ClientState == {Idle} \cup Calling \cup Told \cup Redeeming \cup Tokens

\* The expiration task leaves no challenge older than this.
Swept ==
  /\ \A i \in Present : auth_challenges[i].age + sweep_in < ChallengeTtl + SweepInterval
  /\ \A v \in Validator :
       client[v].at = "remove" => client[v].challenge.age < ChallengeTtl + SweepInterval

\* Calls and challenges stay with the addresses of the validator they are of.
AtHome ==
  /\ \A i \in Present : i \in AddressesOf[auth_challenges[i].pubkey]
  /\ \A v \in Validator :
       client[v].at \in {"len", "get", "push", "told", "remove"} => client[v].ip \in AddressesOf[v]

\* Only the key that a challenge was made for redeems it.
OwnKey ==
  \A v \in Validator :
    /\ client[v].at = "remove" => client[v].challenge.pubkey = v
    /\ client[v].at = "tokens" => client[v].access = v /\ client[v].refresh = v

\* The challenge a validator was told is still there, and as old as it thinks.
Standing(v) ==
  client[v].at = "told" /\ client[v].age < ChallengeTtl /\ Alone(v, client[v].ip)
    => /\ client[v].ip \in Present
       /\ Matches(v)
       /\ auth_challenges[client[v].ip].age = client[v].age

Stand == \A v \in Validator : Standing(v)

\* A token is short of access_token_ttl by the age of the challenge, which is less than
\* challenge_ttl and one interval of the expiration task together.
TokenLife ==
  \A v \in Validator :
    client[v].at = "tokens" => client[v].issued_for > AccessTtl - (ChallengeTtl + SweepInterval)

IInv == /\ TypeOK /\ Swept /\ AtHome /\ OwnKey /\ Stand /\ TokenLife
        /\ ChallengesBounded

-----------------------------------------------------------------------------
(* Facts about single states.                                               *)

\* Which record goes with which place.
LEMMA Places ==
  ASSUME NEW c \in ClientState
  PROVE  /\ c.at \in {"idle", "len", "get", "push", "told", "remove", "tokens"}
         /\ c.at = "idle" => c = Idle
         /\ c.at \in {"len", "get", "push"} => c \in Calling
         /\ c.at = "told" => c \in Told
         /\ c.at = "remove" => c \in Redeeming
         /\ c.at = "tokens" => c \in Tokens
  BY DEF ClientState, Idle, Calling, Told, Redeeming, Tokens

\* The times to live are positive.
LEMMA Times ==
  /\ Capacity \in Nat \ {0} /\ ChallengeTtl \in Nat \ {0} /\ SweepInterval \in Nat \ {0}
  /\ AccessTtl \in Nat \ {0} /\ RefreshTtl \in Nat \ {0}
  /\ OldestAge \in Nat /\ OldestAge = ChallengeTtl + SweepInterval
  BY AuthServiceAssumption DEF OldestAge

\* A challenge in the map is one.
LEMMA PresentChallenge ==
  ASSUME TypeOK, NEW i \in Present
  PROVE  i \in Ip /\ auth_challenges[i] \in Challenge
  BY DEF TypeOK, Present

\* A challenge is not the absence of one.
LEMMA ChallengeIsOne ==
  ASSUME NEW c \in Challenge
  PROVE  c # NoChallenge
<1>1. c.string \in Nat \ {0}
  <2>1. Cardinality(Ip) \in Nat /\ Cardinality(Validator) \in Nat
    BY FS_CardinalityType, AuthServiceAssumption
  <2> QED
    BY <2>1 DEF Challenge, String
<1>2. NoChallenge.string = 0
  BY DEF NoChallenge
<1> QED
  BY <1>1, <1>2

\* There is always a string that nobody knows.
LEMMA FreshString ==
  ASSUME TypeOK
  PROVE  generate_challenge_token \in String
<1> DEFINE Telling == {v \in Validator : client[v].at \in {"told", "remove"}}
           f == [i \in Present |-> auth_challenges[i].string]
           g == [v \in Telling |-> IF client[v].at = "told"
                                   THEN client[v].string ELSE client[v].challenge.string]
           T1 == {f[i] : i \in Present}
           T2 == {g[v] : v \in Telling}
<1>1. /\ IsFiniteSet(Present) /\ Cardinality(Present) <= Cardinality(Ip)
      /\ IsFiniteSet(Telling) /\ Cardinality(Telling) <= Cardinality(Validator)
  <2>1. Present \in SUBSET Ip /\ Telling \in SUBSET Validator
    BY DEF Present
  <2> QED
    BY <2>1, FS_Subset, AuthServiceAssumption
<1>2. f \in Surjection(Present, T1) /\ g \in Surjection(Telling, T2)
  BY DEF Surjection
<1>3. /\ IsFiniteSet(T1) /\ Cardinality(T1) <= Cardinality(Present)
      /\ IsFiniteSet(T2) /\ Cardinality(T2) <= Cardinality(Telling)
  <2> HIDE DEF Telling, f, g, T1, T2
  <2> QED
    BY <1>1, <1>2, FS_Surjection
<1>4. Known \subseteq T1 \cup T2
  BY DEF Known
<1>5. IsFiniteSet(T1 \cup T2)
      /\ Cardinality(T1 \cup T2) = Cardinality(T1) + Cardinality(T2) - Cardinality(T1 \cap T2)
      /\ IsFiniteSet(T1 \cap T2)
  <2> HIDE DEF T1, T2
  <2> QED
    BY <1>3, FS_Union, FS_Intersection
<1> HIDE DEF T1, T2, f, g, Telling
<1>6. /\ Cardinality(Ip) \in Nat /\ Cardinality(Validator) \in Nat
      /\ Cardinality(T1) \in Nat /\ Cardinality(T2) \in Nat
      /\ Cardinality(T1 \cap T2) \in Nat /\ Cardinality(T1 \cup T2) \in Nat
      /\ Cardinality(Present) \in Nat /\ Cardinality(Telling) \in Nat
  BY <1>1, <1>3, <1>5, FS_CardinalityType, AuthServiceAssumption
<1>7. Cardinality(String) = Cardinality(Ip) + Cardinality(Validator) + 1
  <2> DEFINE n == Cardinality(Ip) + Cardinality(Validator) + 1
  <2>1. n \in Int /\ 1 \in Int /\ n >= 1
    BY <1>6
  <2> HIDE DEF n
  <2>2. Cardinality(1 .. n) = n
    BY <2>1, FS_Interval
  <2> QED
    BY <2>2 DEF String, n
<1>8. ~(String \subseteq T1 \cup T2)
  <2> SUFFICES ASSUME String \subseteq T1 \cup T2 PROVE FALSE
    OBVIOUS
  <2>1. Cardinality(String) <= Cardinality(T1 \cup T2)
    BY <1>5, FS_Subset
  <2> QED
    BY <1>1, <1>3, <1>5, <1>6, <1>7, <2>1
<1>9. \E string \in String : string \notin Known
  BY <1>4, <1>8
<1> QED
  BY <1>9 DEF generate_challenge_token

-----------------------------------------------------------------------------
(* The steps that change one client and nothing else.                       *)

\* What a validator may come to have, with the map as it is.
Fits(v, state) ==
  /\ state \in ClientState
  /\ state.at \in {"len", "get", "push", "told", "remove"} => state.ip \in AddressesOf[v]
  /\ state.at = "remove" => /\ state.challenge.pubkey = v
                            /\ state.challenge.age < ChallengeTtl + SweepInterval
  /\ state.at = "tokens" => /\ state.access = v /\ state.refresh = v
                            /\ state.issued_for > AccessTtl - (ChallengeTtl + SweepInterval)
  /\ state.at = "told" /\ state.age < ChallengeTtl /\ Alone(v, state.ip) =>
       /\ state.ip \in Present
       /\ auth_challenges[state.ip].pubkey = v
       /\ auth_challenges[state.ip].string = state.string
       /\ auth_challenges[state.ip].age = state.age
  /\ state.at \in {"get", "push"} => v \in PastCheck \/ Cardinality(Present) < Capacity

\* One more or one less call past the check.
LEMMA PastCheckOf ==
  ASSUME IInv, NEW v \in Validator, NEW state \in ClientState, Become(v, state)
  PROVE  /\ PastCheck' = IF state.at \in {"get", "push"} THEN PastCheck \cup {v} ELSE PastCheck \ {v}
         /\ IsFiniteSet(PastCheck) /\ IsFiniteSet(PastCheck')
         /\ Cardinality(PastCheck) \in Nat /\ Cardinality(PastCheck') \in Nat
         /\ Cardinality(PastCheck') <= Cardinality(Validator)
         /\ Cardinality(Validator) \in Nat
<1>1. PastCheck' = IF state.at \in {"get", "push"} THEN PastCheck \cup {v} ELSE PastCheck \ {v}
  BY DEF PastCheck, Become, IInv, TypeOK
<1>2. PastCheck \in SUBSET Validator /\ PastCheck' \in SUBSET Validator
  BY DEF PastCheck
<1>3. /\ IsFiniteSet(PastCheck) /\ IsFiniteSet(PastCheck')
      /\ Cardinality(PastCheck') <= Cardinality(Validator)
  BY <1>2, FS_Subset, AuthServiceAssumption
<1> QED
  BY <1>1, <1>3, FS_CardinalityType, AuthServiceAssumption

\* The map is finite.
LEMMA PresentFinite == IsFiniteSet(Present) /\ Cardinality(Present) \in Nat
<1>1. Present \in SUBSET Ip
  BY DEF Present
<1> QED
  BY <1>1, FS_Subset, FS_CardinalityType, AuthServiceAssumption

\* A client that comes to have what fits keeps the invariant.
LEMMA BecomeStep ==
  ASSUME IInv, NEW v \in Validator, NEW state, Fits(v, state),
         Become(v, state), UNCHANGED <<auth_challenges, sweep_in>>
  PROVE  IInv'
<1>0. /\ state \in ClientState
      /\ client' = [client EXCEPT ![v] = state]
      /\ client'[v] = state
      /\ \A u \in Validator \ {v} : client'[u] = client[u]
      /\ Present' = Present
  BY DEF IInv, TypeOK, Fits, Become, Present
<1>1. TypeOK'
  BY <1>0 DEF IInv, TypeOK, ClientState
<1>2. Swept'
  BY <1>0 DEF IInv, Swept, Fits
<1>3. AtHome'
  BY <1>0 DEF IInv, AtHome, Fits
<1>4. OwnKey'
  BY <1>0, SMTT(30) DEF IInv, OwnKey, Fits
<1>5. Stand'
  <2> SUFFICES ASSUME NEW u \in Validator PROVE Standing(u)'
    BY DEF Stand
  <2>1. CASE u = v
    BY <1>0, <2>1, SMTT(30) DEF Standing, Fits, Matches, Alone
  <2>2. CASE u # v
    <3>1. Standing(u)
      BY DEF IInv, Stand
    <3> QED
      BY <1>0, <2>2, <3>1, SMTT(30) DEF Standing, Matches, Alone
  <2> QED
    BY <2>1, <2>2
<1>6. TokenLife'
  BY <1>0 DEF IInv, TokenLife, Fits
<1>7. ChallengesBounded'
  <2>1. CASE state.at \in {"get", "push"} /\ v \notin PastCheck
    <3>1. Cardinality(Present) < Capacity
      BY <2>1 DEF Fits
    <3> QED
      BY <1>0, <3>1, PastCheckOf, PresentFinite, Times DEF ChallengesBounded
  <2>2. CASE ~(state.at \in {"get", "push"} /\ v \notin PastCheck)
    <3>1. PastCheck' \in SUBSET PastCheck
      BY <1>0, <2>2, PastCheckOf
    <3>2. Cardinality(PastCheck') <= Cardinality(PastCheck)
      BY <1>0, <3>1, PastCheckOf, FS_Subset
    <3> QED
      BY <1>0, <3>2, PastCheckOf, PresentFinite, Times DEF IInv, ChallengesBounded
  <2> QED
    BY <2>1, <2>2
<1> QED
  BY <1>1, <1>2, <1>3, <1>4, <1>5, <1>6, <1>7 DEF IInv

\* A validator can always have nothing.
LEMMA IdleFits == ASSUME NEW v \in Validator PROVE Fits(v, Idle)
  BY DEF Fits, Idle, ClientState

\* generate_auth_challenge up to push, generate_auth_tokens up to remove, the renewal of
\* the access token and a caller that gives up.
LEMMA ClientSteps ==
  ASSUME IInv, NEW v \in Validator,
         \/ \E ip \in Ip : GenerateAuthChallenge(v, ip)
         \/ CheckLen(v)
         \/ ReuseChallenge(v)
         \/ \E is_authorized \in BOOLEAN : CheckRequest(v, is_authorized)
         \/ GenerateAuthTokens(v)
         \/ RefreshAccessToken(v)
         \/ GiveUp(v)
  PROVE  IInv'
<1> DEFINE c == client[v]
<1>0. c \in ClientState
  BY DEF IInv, TypeOK, ClientState
<1>1. ASSUME NEW ip \in Ip, GenerateAuthChallenge(v, ip) PROVE IInv'
  <2>1. Fits(v, [at |-> "len", ip |-> ip])
    BY <1>1 DEF GenerateAuthChallenge, Fits, ClientState, Calling
  <2> QED
    BY <1>1, <2>1, BecomeStep DEF GenerateAuthChallenge
<1>2. CASE CheckLen(v)
  <2>1. c \in Calling /\ c.ip \in AddressesOf[v]
    BY <1>0, <1>2, Places DEF CheckLen, IInv, AtHome
  <2>2. CASE Overloaded
    BY <1>2, <2>2, IdleFits, BecomeStep DEF CheckLen
  <2>3. CASE ~Overloaded
    <3>1. Cardinality(Present) < Capacity
      BY <2>3, PresentFinite, Times DEF Overloaded
    <3> DEFINE state == [c EXCEPT !.at = "get"]
    <3>2. state \in Calling /\ state.at = "get" /\ state.ip = c.ip
      BY <2>1 DEF Calling
    <3> HIDE DEF state
    <3>3. Fits(v, state)
      BY <2>1, <3>1, <3>2 DEF Fits, ClientState
    <3>4. Become(v, state)
      BY <1>2, <2>3 DEF CheckLen, state
    <3> QED
      BY <1>2, <3>3, <3>4, BecomeStep DEF CheckLen
  <2> QED
    BY <2>2, <2>3
<1>3. CASE ReuseChallenge(v)
  <2> DEFINE ip == c.ip
             challenge == auth_challenges[ip]
             state == [at |-> "told", ip |-> ip, string |-> challenge.string, age |-> challenge.age]
  <2>1. c \in Calling /\ ip \in Ip /\ ip \in AddressesOf[v] /\ ip \in Present
    BY <1>0, <1>3, Places DEF ReuseChallenge, Reusable, IInv, AtHome, Calling
  <2>2. challenge \in Challenge
    BY <2>1, PresentChallenge DEF IInv
  <2>3. Alone(v, ip) => challenge.pubkey = v
    BY <2>1, <2>2 DEF Alone, IInv, AtHome, Challenge
  <2>4. state \in Told
    BY <2>1, <2>2 DEF Told, Challenge
  <2>5. state.at = "told" /\ state.ip = ip /\ state.string = challenge.string
        /\ state.age = challenge.age
    OBVIOUS
  <2>6. Become(v, state) /\ UNCHANGED <<auth_challenges, sweep_in>>
    BY <1>3 DEF ReuseChallenge
  <2> HIDE DEF state
  <2>7. Fits(v, state)
    BY <2>1, <2>3, <2>4, <2>5 DEF Fits, ClientState
  <2> QED
    BY <2>6, <2>7, BecomeStep
<1>4. ASSUME NEW is_authorized \in BOOLEAN, CheckRequest(v, is_authorized) PROVE IInv'
  <2>1. c \in Calling /\ c.ip \in AddressesOf[v] /\ v \in PastCheck
    BY <1>0, <1>4, Places DEF CheckRequest, IInv, AtHome, PastCheck
  <2>2. CASE ~is_authorized
    BY <1>4, <2>2, IdleFits, BecomeStep DEF CheckRequest
  <2>3. CASE is_authorized
    <3> DEFINE state == [c EXCEPT !.at = "push"]
    <3>1. state \in Calling /\ state.at = "push" /\ state.ip = c.ip
      BY <2>1 DEF Calling
    <3> HIDE DEF state
    <3>2. Fits(v, state)
      BY <2>1, <3>1 DEF Fits, ClientState
    <3>3. Become(v, state)
      BY <1>4, <2>3 DEF CheckRequest, state
    <3> QED
      BY <1>4, <3>2, <3>3, BecomeStep DEF CheckRequest
  <2> QED
    BY <2>2, <2>3
<1>5. CASE GenerateAuthTokens(v)
  <2>1. c \in Told /\ c.ip \in Ip /\ c.ip \in AddressesOf[v]
    BY <1>0, <1>5, Places DEF GenerateAuthTokens, IInv, AtHome, Told
  <2>2. CASE ~(c.ip \in Present /\ Matches(v))
    BY <1>5, <2>2, IdleFits, BecomeStep DEF GenerateAuthTokens
  <2>3. CASE c.ip \in Present /\ Matches(v)
    <3> DEFINE challenge == auth_challenges[c.ip]
               state == [at |-> "remove", ip |-> c.ip, challenge |-> challenge]
    <3>1. challenge \in Challenge /\ challenge.pubkey = v
      BY <2>3, PresentChallenge DEF IInv, Matches
    <3>2. challenge.age < ChallengeTtl + SweepInterval
      <4>1. challenge.age + sweep_in < ChallengeTtl + SweepInterval
        BY <2>3 DEF IInv, Swept
      <4>2. challenge.age \in Int /\ sweep_in \in Nat
        BY <3>1, Times, SMTT(30) DEF Challenge, IInv, TypeOK
      <4> QED
        BY <4>1, <4>2, Times
    <3>3. state \in Redeeming
      BY <2>1, <3>1 DEF Redeeming
    <3>4. state.at = "remove" /\ state.ip = c.ip /\ state.challenge = challenge
      OBVIOUS
    <3>5. Become(v, state)
      BY <1>5, <2>3 DEF GenerateAuthTokens
    <3> HIDE DEF state
    <3>6. Fits(v, state)
      BY <2>1, <3>1, <3>2, <3>3, <3>4 DEF Fits, ClientState
    <3> QED
      BY <1>5, <3>5, <3>6, BecomeStep DEF GenerateAuthTokens
  <2> QED
    BY <2>2, <2>3
<1>6. CASE RefreshAccessToken(v)
  <2>1. /\ c \in Tokens /\ c.access = v /\ c.refresh = v
        /\ c.issued_for > AccessTtl - (ChallengeTtl + SweepInterval)
    BY <1>0, <1>6, Places DEF RefreshAccessToken, IInv, OwnKey, TokenLife
  <2>2. CASE c.refresh_left <= 0
    BY <1>6, <2>2, IdleFits, BecomeStep DEF RefreshAccessToken
  <2>3. CASE ~(c.refresh_left <= 0)
    <3> DEFINE state == [c EXCEPT !.access = c.refresh]
    <3>1. /\ state \in Tokens /\ state.at = "tokens"
          /\ state.access = v /\ state.refresh = v /\ state.issued_for = c.issued_for
      BY <2>1 DEF Tokens
    <3> HIDE DEF state
    <3>2. Fits(v, state)
      BY <2>1, <3>1 DEF Fits, ClientState
    <3>3. Become(v, state)
      BY <1>6, <2>3 DEF RefreshAccessToken, state
    <3> QED
      BY <1>6, <3>2, <3>3, BecomeStep DEF RefreshAccessToken
  <2> QED
    BY <2>2, <2>3
<1>7. CASE GiveUp(v)
  BY <1>7, IdleFits, BecomeStep DEF GiveUp
<1> QED
  BY <1>1, <1>2, <1>3, <1>4, <1>5, <1>6, <1>7

-----------------------------------------------------------------------------
(* The steps that change the map.                                           *)

\* push: the call leaves the check behind as its challenge enters the map.
LEMMA PushStep ==
  ASSUME IInv, NEW v \in Validator, PushChallenge(v)
  PROVE  IInv'
<1> DEFINE ip == client[v].ip
           string == generate_challenge_token
           challenge == [string |-> string, pubkey |-> v, age |-> 0]
           state == [at |-> "told", ip |-> ip, string |-> string, age |-> 0]
<1>1. /\ client[v].at = "push" /\ sweep_in' = sweep_in
      /\ auth_challenges' = [auth_challenges EXCEPT ![ip] = challenge]
      /\ Become(v, state)
  BY DEF PushChallenge
<1>2. /\ ip \in Ip /\ ip \in AddressesOf[v] /\ v \in PastCheck
  BY <1>1, Places DEF IInv, TypeOK, ClientState, AtHome, Calling, PastCheck
<1>3. string \in String
  BY FreshString DEF IInv
<1>4. /\ challenge \in Challenge /\ challenge.pubkey = v /\ challenge.age = 0
      /\ challenge.string = string
  BY <1>3, Times DEF Challenge
<1>5. /\ state \in Told /\ state.at = "told" /\ state.ip = ip
      /\ state.string = string /\ state.age = 0
  BY <1>2, <1>3, Times, SMTT(30) DEF Told
<1> HIDE DEF string, challenge, state
<1>6. /\ client'[v] = state
      /\ \A u \in Validator \ {v} : client'[u] = client[u]
      /\ auth_challenges'[ip] = challenge
      /\ \A i \in Ip \ {ip} : auth_challenges'[i] = auth_challenges[i]
  BY <1>1, <1>2 DEF IInv, TypeOK, Become
<1>7. Present' = Present \cup {ip}
  BY <1>2, <1>4, <1>6, ChallengeIsOne DEF Present
<1>8. TypeOK'
  <2>1. auth_challenges' \in [Ip -> Challenge \cup {NoChallenge}]
    BY <1>1, <1>2, <1>4 DEF IInv, TypeOK
  <2>2. client' \in [Validator -> ClientState]
    BY <1>1, <1>5 DEF IInv, TypeOK, Become, ClientState
  <2> QED
    BY <1>1, <2>1, <2>2 DEF IInv, TypeOK, ClientState
<1>9. Swept'
  <2>1. \A i \in Present' : auth_challenges'[i].age + sweep_in' < ChallengeTtl + SweepInterval
    <3> TAKE i \in Present'
    <3>1. CASE i = ip
      BY <1>1, <1>4, <1>6, <3>1, Times, SMTT(30) DEF IInv, TypeOK
    <3>2. CASE i # ip
      BY <1>1, <1>6, <1>7, <3>2 DEF IInv, Swept, Present
    <3> QED
      BY <3>1, <3>2
  <2> QED
    BY <1>5, <1>6, <2>1 DEF IInv, Swept
<1>10. AtHome'
  BY <1>2, <1>4, <1>5, <1>6, <1>7 DEF IInv, AtHome, Present
<1>11. OwnKey' /\ TokenLife'
  BY <1>5, <1>6 DEF IInv, OwnKey, TokenLife
<1>12. Stand'
  <2> SUFFICES ASSUME NEW u \in Validator PROVE Standing(u)'
    BY DEF Stand
  <2>1. CASE u = v
    BY <1>2, <1>4, <1>5, <1>6, <1>7, <2>1 DEF Standing, Matches
  <2>2. CASE u # v
    <3>1. Standing(u) /\ client'[u] = client[u]
      BY <1>6, <2>2 DEF IInv, Stand
    <3>2. Alone(u, client[u].ip) => client[u].ip # ip
      BY <1>2, <2>2 DEF Alone
    <3> QED
      BY <1>6, <1>7, <3>1, <3>2, SMTT(30) DEF Standing, Matches, Alone, Present
  <2> QED
    BY <2>1, <2>2
<1>13. ChallengesBounded'
  <2>1. /\ PastCheck' = PastCheck \ {v}
        /\ IsFiniteSet(PastCheck) /\ Cardinality(PastCheck) \in Nat
    BY <1>1, <1>5, PastCheckOf DEF ClientState
  <2>2. Cardinality(PastCheck') = Cardinality(PastCheck) - 1
    BY <1>2, <2>1, FS_RemoveElement, Zenon
  <2>3. /\ Cardinality(Present') \in Nat
        /\ Cardinality(Present') <= Cardinality(Present) + 1
    <3>1. IsFiniteSet(Present) /\ Cardinality(Present) \in Nat
      BY PresentFinite
    <3>2. Cardinality(Present \cup {ip}) =
            IF ip \in Present THEN Cardinality(Present) ELSE Cardinality(Present) + 1
      BY <3>1, FS_AddElement, Zenon
    <3> QED
      BY <1>7, <3>1, <3>2
  <2>4. Cardinality(Validator) \in Nat
    BY FS_CardinalityType, AuthServiceAssumption
  <2> QED
    BY <2>1, <2>2, <2>3, <2>4, PresentFinite, Times, SMTT(30) DEF IInv, ChallengesBounded
<1> QED
  BY <1>8, <1>9, <1>10, <1>11, <1>12, <1>13 DEF IInv

\* Where challenges are only removed, and none that somebody relies on.
LEMMA RemovalStep ==
  ASSUME IInv, TypeOK', sweep_in' \in Nat,
         \A i \in Ip : auth_challenges'[i] \in {auth_challenges[i], NoChallenge}
  PROVE  /\ Present' \subseteq Present
         /\ \A i \in Present' : auth_challenges'[i] = auth_challenges[i]
         /\ PastCheck' \subseteq PastCheck => ChallengesBounded'
<1>1. /\ Present' \subseteq Present
      /\ \A i \in Present' : auth_challenges'[i] = auth_challenges[i]
  BY DEF Present
<1>2. ASSUME PastCheck' \subseteq PastCheck PROVE ChallengesBounded'
  <2>1. IsFiniteSet(Present) /\ Cardinality(Present) \in Nat
    BY PresentFinite
  <2>2. /\ Cardinality(Present') <= Cardinality(Present)
        /\ Cardinality(Present') \in Nat
    BY <1>1, <2>1, FS_Subset, FS_CardinalityType
  <2>3. PastCheck \in SUBSET Validator
    BY DEF PastCheck
  <2>4. IsFiniteSet(PastCheck) /\ Cardinality(PastCheck) \in Nat
    BY <2>3, FS_Subset, FS_CardinalityType, AuthServiceAssumption
  <2>5. /\ Cardinality(PastCheck') <= Cardinality(PastCheck)
        /\ Cardinality(PastCheck') \in Nat
    BY <1>2, <2>4, FS_Subset, FS_CardinalityType
  <2>6. Cardinality(Validator) \in Nat
    BY FS_CardinalityType, AuthServiceAssumption
  <2> QED
    BY <2>1, <2>2, <2>4, <2>5, <2>6, Times, SMTT(30) DEF IInv, ChallengesBounded
<1> QED
  BY <1>1, <1>2

\* remove: the challenge becomes the tokens of the validator that redeems it.
LEMMA RemoveStep ==
  ASSUME IInv, NEW v \in Validator, RemoveChallenge(v)
  PROVE  IInv'
<1> DEFINE ip == client[v].ip
           challenge == client[v].challenge
           state == TokensOf(challenge)
<1>1. /\ client[v].at = "remove" /\ sweep_in' = sweep_in
      /\ auth_challenges' = [auth_challenges EXCEPT ![ip] = NoChallenge]
      /\ Become(v, state)
  BY DEF RemoveChallenge
<1>2. /\ ip \in Ip /\ ip \in AddressesOf[v] /\ challenge \in Challenge
      /\ challenge.pubkey = v /\ challenge.age < ChallengeTtl + SweepInterval
  BY <1>1, Places DEF IInv, TypeOK, ClientState, AtHome, Redeeming, OwnKey, Swept
<1>3. challenge.age \in Int
  BY <1>2, Times, SMTT(30) DEF Challenge
<1>4. /\ state \in Tokens /\ state.at = "tokens"
      /\ state.access = v /\ state.refresh = v
      /\ state.issued_for = AccessTtl - challenge.age
  <2> HIDE DEF challenge
  <2>1. /\ AccessTtl - challenge.age \in Int /\ RefreshTtl - challenge.age \in Int
    BY <1>3, Times
  <2> QED BY <1>2, <2>1 DEF TokensOf, Tokens
<1> HIDE DEF state, challenge
<1>5. /\ client'[v] = state
      /\ \A u \in Validator \ {v} : client'[u] = client[u]
      /\ auth_challenges'[ip] = NoChallenge
      /\ \A i \in Ip \ {ip} : auth_challenges'[i] = auth_challenges[i]
  BY <1>1, <1>2 DEF IInv, TypeOK, Become
<1>6. TypeOK'
  <2>1. auth_challenges' \in [Ip -> Challenge \cup {NoChallenge}]
    BY <1>1, <1>2 DEF IInv, TypeOK
  <2>2. client' \in [Validator -> ClientState]
    BY <1>1, <1>4 DEF IInv, TypeOK, Become, ClientState
  <2> QED
    BY <1>1, <2>1, <2>2 DEF IInv, TypeOK, ClientState
<1>7. /\ Present' \subseteq Present
      /\ \A i \in Present' : auth_challenges'[i] = auth_challenges[i]
      /\ PastCheck' \subseteq PastCheck => ChallengesBounded'
  <2>1. sweep_in' \in Nat
    BY <1>1, Times DEF IInv, TypeOK
  <2>2. \A i \in Ip : auth_challenges'[i] \in {auth_challenges[i], NoChallenge}
    BY <1>5
  <2> QED
    BY <1>6, <2>1, <2>2, RemovalStep
<1>8. ChallengesBounded'
  BY <1>4, <1>5, <1>7 DEF PastCheck
<1>9. Swept'
  BY <1>1, <1>4, <1>5, <1>7 DEF IInv, Swept
<1>10. AtHome' /\ OwnKey'
  BY <1>4, <1>5, <1>7 DEF IInv, AtHome, OwnKey
<1>11. TokenLife'
  <2>1. state.issued_for > AccessTtl - (ChallengeTtl + SweepInterval)
    BY <1>2, <1>3, <1>4, Times
  <2> QED
    BY <1>5, <2>1 DEF IInv, TokenLife
<1>12. Stand'
  <2> SUFFICES ASSUME NEW u \in Validator PROVE Standing(u)'
    BY DEF Stand
  <2>1. CASE u = v
    BY <1>4, <1>5, <2>1 DEF Standing
  <2>2. CASE u # v
    <3>1. Standing(u) /\ client'[u] = client[u]
      BY <1>5, <2>2 DEF IInv, Stand
    <3>2. Alone(u, client[u].ip) => client[u].ip # ip
      BY <1>2, <2>2 DEF Alone
    <3> QED
      BY <1>5, <3>1, <3>2, SMTT(30) DEF Standing, Matches, Alone, Present
  <2> QED
    BY <2>1, <2>2
<1> QED
  BY <1>6, <1>8, <1>9, <1>10, <1>11, <1>12 DEF IInv

\* remove_all_expired: the queue pops its oldest challenges, exactly the expired ones.
LEMMA SweepStep ==
  ASSUME IInv, RemoveAllExpired
  PROVE  IInv'
<1>1. /\ sweep_in' = SweepInterval /\ client' = client
      /\ \A i \in Ip : auth_challenges'[i] = IF i \in Popped THEN NoChallenge ELSE auth_challenges[i]
  BY DEF RemoveAllExpired
<1>2. \A i \in Present : auth_challenges[i].age \in Int
  BY PresentChallenge, Times DEF IInv, Challenge
<1>3. \A i \in Present : i \in Popped <=> auth_challenges[i].age >= ChallengeTtl
  <2> TAKE i \in Present
  <2>1. ASSUME i \in Popped PROVE auth_challenges[i].age >= ChallengeTtl
    BY <1>2, <2>1 DEF Popped, is_expired
  <2>2. ASSUME auth_challenges[i].age >= ChallengeTtl PROVE i \in Popped
    BY <1>2, <2>2, Times DEF Popped, is_expired
  <2> QED
    BY <2>1, <2>2
<1>4. TypeOK'
  <2>1. auth_challenges' \in [Ip -> Challenge \cup {NoChallenge}]
    BY DEF RemoveAllExpired, IInv, TypeOK
  <2> QED
    BY <1>1, <2>1, Times DEF IInv, TypeOK
<1>5. /\ Present' \subseteq Present
      /\ \A i \in Present' : auth_challenges'[i] = auth_challenges[i]
      /\ PastCheck' \subseteq PastCheck => ChallengesBounded'
  <2>1. sweep_in' \in Nat
    BY <1>1, Times
  <2>2. \A i \in Ip : auth_challenges'[i] \in {auth_challenges[i], NoChallenge}
    BY <1>1
  <2> QED
    BY <1>4, <2>1, <2>2, RemovalStep
<1>6. ChallengesBounded'
  BY <1>1, <1>5 DEF PastCheck
<1>7. \A i \in Present' : i \in Ip /\ i \notin Popped
  BY <1>1 DEF Present
<1>8. Swept'
  <2>1. \A i \in Present' : auth_challenges'[i].age + sweep_in' < ChallengeTtl + SweepInterval
    BY <1>1, <1>2, <1>3, <1>5, <1>7, Times
  <2> QED
    BY <1>1, <2>1 DEF IInv, Swept
<1>9. AtHome' /\ OwnKey' /\ TokenLife'
  BY <1>1, <1>5 DEF IInv, AtHome, OwnKey, TokenLife
<1>10. Stand'
  <2> SUFFICES ASSUME NEW u \in Validator PROVE Standing(u)'
    BY DEF Stand
  <2>1. Standing(u)
    BY DEF IInv, Stand
  <2> SUFFICES ASSUME client[u].at = "told", client[u].age < ChallengeTtl, Alone(u, client[u].ip)
               PROVE  /\ client[u].ip \in Present'
                      /\ auth_challenges'[client[u].ip] = auth_challenges[client[u].ip]
    BY <1>1, <2>1 DEF Standing, Matches, Alone
  <2>2. /\ client[u].ip \in Present
        /\ auth_challenges[client[u].ip].age = client[u].age
    BY <2>1 DEF Standing
  <2>3. client[u].ip \notin Popped
    BY <1>2, <1>3, <2>2, Times, SMTT(30)
  <2> QED
    BY <1>1, <2>2, <2>3 DEF Present
<1> QED
  BY <1>4, <1>6, <1>8, <1>9, <1>10 DEF IInv

-----------------------------------------------------------------------------
(* Time, and the theorems.                                                  *)

\* What time does to a client.
Aged(c) ==
  CASE c.at = "told" -> [c EXCEPT !.age = Older(@)]
    [] c.at = "tokens" -> [c EXCEPT !.refresh_left = LessLeft(@)]
    [] OTHER -> c

\* It changes no more than the ages.
LEMMA AgedClient ==
  ASSUME NEW c \in ClientState
  PROVE  /\ Aged(c) \in ClientState /\ Aged(c).at = c.at
         /\ c.at = "told" => /\ Aged(c).ip = c.ip /\ Aged(c).string = c.string
                             /\ Aged(c).age = Older(c.age)
         /\ c.at = "tokens" => /\ Aged(c).access = c.access /\ Aged(c).refresh = c.refresh
                               /\ Aged(c).issued_for = c.issued_for
         /\ c.at \notin {"told", "tokens"} => Aged(c) = c
<1>1. CASE c.at = "told"
  <2>1. c \in Told
    BY <1>1, Places
  <2>2. Aged(c) = [c EXCEPT !.age = Older(@)]
    BY <1>1 DEF Aged
  <2>3. Older(c.age) \in 0 .. OldestAge
    BY <2>1, Times DEF Told, Older
  <2>4. Aged(c) \in Told
    BY <2>1, <2>2, <2>3 DEF Told
  <2>5. /\ Aged(c).at = c.at /\ Aged(c).ip = c.ip /\ Aged(c).string = c.string
        /\ Aged(c).age = Older(c.age)
    BY <2>1, <2>2 DEF Told
  <2> QED
    BY <1>1, <2>4, <2>5 DEF ClientState
<1>2. CASE c.at = "tokens"
  <2>1. c \in Tokens
    BY <1>2, Places
  <2>2. Aged(c) = [c EXCEPT !.refresh_left = LessLeft(@)]
    BY <1>2 DEF Aged
  <2>3. LessLeft(c.refresh_left) \in Int
    BY <2>1 DEF Tokens, LessLeft
  <2>4. /\ Aged(c) \in Tokens /\ Aged(c).at = c.at
        /\ Aged(c).access = c.access /\ Aged(c).refresh = c.refresh
        /\ Aged(c).issued_for = c.issued_for
    BY <2>1, <2>2, <2>3 DEF Tokens
  <2> QED
    BY <1>2, <2>4 DEF ClientState
<1>3. CASE c.at \notin {"told", "tokens"}
  BY <1>3 DEF Aged
<1> QED
  BY <1>1, <1>2, <1>3

\* A minute passes: challenges and those who were told them age together.
LEMMA TickStep ==
  ASSUME IInv, Tick
  PROVE  IInv'
<1>1. /\ sweep_in' = sweep_in - 1 /\ sweep_in \in 1 .. SweepInterval
      /\ \A v \in Validator : client[v].at \in {"idle", "told", "tokens"}
      /\ \A i \in Ip : auth_challenges'[i] = IF i \in Present
                                             THEN [auth_challenges[i] EXCEPT !.age = Older(@)]
                                             ELSE NoChallenge
      /\ DOMAIN auth_challenges' = Ip
  BY DEF Tick, AtRest, IInv, TypeOK
<1>2. client' = [v \in Validator |-> Aged(client[v])]
  BY DEF Tick, Aged
<1>3. \A v \in Validator : client[v] \in ClientState /\ client'[v] = Aged(client[v])
  BY <1>2 DEF IInv, TypeOK, ClientState
<1>4. ASSUME NEW i \in Present
      PROVE  /\ i \in Ip
             /\ auth_challenges'[i] \in Challenge
             /\ auth_challenges'[i].string = auth_challenges[i].string
             /\ auth_challenges'[i].pubkey = auth_challenges[i].pubkey
             /\ auth_challenges'[i].age = Older(auth_challenges[i].age)
             /\ auth_challenges[i].age \in 0 .. OldestAge
  <2>1. i \in Ip /\ auth_challenges[i] \in Challenge
    BY PresentChallenge DEF IInv
  <2>2. auth_challenges'[i] = [auth_challenges[i] EXCEPT !.age = Older(@)]
    BY <1>1, <2>1
  <2>3. auth_challenges[i].age \in 0 .. OldestAge
    BY <2>1 DEF Challenge
  <2>4. Older(auth_challenges[i].age) \in 0 .. OldestAge
    BY <2>3, Times DEF Older
  <2> QED
    BY <2>1, <2>2, <2>3, <2>4 DEF Challenge
<1>5. Present' = Present
  <2>1. \A i \in Ip : i \in Present' <=> i \in Present
    BY <1>1, <1>4, ChallengeIsOne DEF Present
  <2> QED
    BY <2>1 DEF Present
<1>6. TypeOK'
  <2>1. auth_challenges' \in [Ip -> Challenge \cup {NoChallenge}]
    <3>1. \A i \in Ip : auth_challenges'[i] \in Challenge \cup {NoChallenge}
      BY <1>1, <1>4
    <3>2. auth_challenges' = [i \in Ip |-> auth_challenges'[i]]
      BY DEF Tick
    <3> QED
      BY <3>1, <3>2
  <2>2. client' \in [Validator -> ClientState]
    BY <1>2, <1>3, AgedClient
  <2>3. sweep_in' \in 0 .. SweepInterval
    BY <1>1, Times
  <2> QED
    BY <2>1, <2>2, <2>3 DEF TypeOK, ClientState
<1>7. \A v \in Validator : client'[v].at = client[v].at
  BY <1>3, AgedClient
<1>8. Swept'
  <2>1. ASSUME NEW i \in Present
        PROVE  auth_challenges'[i].age + sweep_in' < ChallengeTtl + SweepInterval
    <3>1. auth_challenges[i].age + sweep_in < ChallengeTtl + SweepInterval
      BY DEF IInv, Swept
    <3> QED
      BY <1>1, <1>4, <3>1, Times DEF Older
  <2> QED
    BY <1>1, <1>5, <1>7, <2>1 DEF Swept
<1>9. AtHome'
  <2>1. \A i \in Present' : i \in AddressesOf[auth_challenges'[i].pubkey]
    BY <1>4, <1>5 DEF IInv, AtHome
  <2>2. ASSUME NEW v \in Validator, client[v].at = "told"
        PROVE  client'[v].ip \in AddressesOf[v]
    BY <1>3, <2>2, AgedClient DEF IInv, AtHome
  <2> QED
    BY <1>1, <1>7, <2>1, <2>2 DEF AtHome
<1>10. OwnKey' /\ TokenLife'
  BY <1>1, <1>3, <1>7, AgedClient DEF IInv, OwnKey, TokenLife
<1>11. Stand'
  <2> SUFFICES ASSUME NEW v \in Validator PROVE Standing(v)'
    BY DEF Stand
  <2>1. Standing(v)
    BY DEF IInv, Stand
  <2> SUFFICES ASSUME client[v].at = "told", client'[v].age < ChallengeTtl,
                      Alone(v, client'[v].ip)
               PROVE  /\ client'[v].ip \in Present'
                      /\ Matches(v)'
                      /\ auth_challenges'[client'[v].ip].age = client'[v].age
    BY <1>7 DEF Standing, Alone
  <2>2. /\ client'[v].ip = client[v].ip /\ client'[v].string = client[v].string
        /\ client'[v].age = Older(client[v].age)
    BY <1>3, AgedClient, SMTT(30)
  <2>3. client[v].age \in 0 .. OldestAge
    BY <1>3, Places DEF Told
  <2>4. client[v].age < ChallengeTtl
    BY <2>2, <2>3, Times, SMTT(30) DEF Older
  <2>5. /\ client[v].ip \in Present /\ Matches(v)
        /\ auth_challenges[client[v].ip].age = client[v].age
    BY <2>1, <2>2, <2>4 DEF Standing
  <2> QED
    BY <1>4, <1>5, <2>2, <2>5 DEF Matches
<1>12. ChallengesBounded'
  <2>1. PastCheck' = PastCheck
    BY <1>7 DEF PastCheck
  <2> QED
    BY <1>5, <2>1 DEF IInv, ChallengesBounded
<1> QED
  BY <1>6, <1>8, <1>9, <1>10, <1>11, <1>12 DEF IInv

\* At first nobody has anything.
LEMMA InitAuth == Init => IInv
<1> SUFFICES ASSUME Init PROVE IInv
  OBVIOUS
<1>1. /\ \A v \in Validator : client[v].at = "idle"
      /\ Present = {} /\ PastCheck = {}
  BY DEF Init, Idle, Present, PastCheck
<1>2. TypeOK
  BY Times DEF Init, TypeOK
<1>3. Swept /\ AtHome /\ OwnKey /\ Stand /\ TokenLife
  BY <1>1 DEF Swept, AtHome, OwnKey, Stand, Standing, TokenLife
<1>4. ChallengesBounded
  <2>1. Cardinality(Validator) \in Nat /\ Cardinality({}) = 0
    BY FS_CardinalityType, FS_EmptySet, AuthServiceAssumption
  <2> QED
    BY <1>1, <2>1, Times DEF ChallengesBounded
<1> QED
  BY <1>2, <1>3, <1>4 DEF IInv

\* Every step preserves the invariant.
LEMMA NextAuth == IInv /\ [Next]_vars => IInv'
<1> SUFFICES ASSUME IInv, [Next]_vars PROVE IInv'
  OBVIOUS
<1>1. ASSUME NEW v \in Validator,
             \/ \E ip \in Ip : GenerateAuthChallenge(v, ip)
             \/ CheckLen(v)
             \/ ReuseChallenge(v)
             \/ \E is_authorized \in BOOLEAN : CheckRequest(v, is_authorized)
             \/ GenerateAuthTokens(v)
             \/ RefreshAccessToken(v)
             \/ GiveUp(v)
      PROVE  IInv'
  BY <1>1, ClientSteps
<1>2. ASSUME NEW v \in Validator, PushChallenge(v) \/ RemoveChallenge(v) PROVE IInv'
  BY <1>2, PushStep, RemoveStep
<1>3. CASE RemoveAllExpired \/ Tick
  BY <1>3, SweepStep, TickStep
<1>4. CASE UNCHANGED vars
  <2>1. Present' = Present /\ PastCheck' = PastCheck
    BY <1>4 DEF vars, Present, PastCheck
  <2> QED
    BY <1>4, <2>1 DEF vars, IInv, TypeOK, Swept, AtHome, OwnKey, Stand, Standing, Matches, Alone,
                      TokenLife, ChallengesBounded
<1> QED
  BY <1>1, <1>2, <1>3, <1>4 DEF Next

\* The invariant holds in every reachable state.
THEOREM AuthHolds == Spec => []IInv
  BY InitAuth, NextAuth, PTL DEF Spec

\* Every variable of the auth service keeps its type; above all, a string that nobody
\* knows can always be generated.
THEOREM TypeCorrect == Spec => []TypeOK
  BY AuthHolds, PTL DEF IInv

\* The map of challenges outgrows its capacity by fewer entries than there are callers,
\* however many there are.
THEOREM ChallengesAreBounded == Spec => []ChallengesBounded
  BY AuthHolds, PTL DEF IInv

\* Settings under which every access token is valid when it is handed out: its time to
\* live covers that of a challenge and one interval of the expiration task, which may
\* leave an expired challenge to be redeemed for that long.
THEOREM TokensLive ==
  ASSUME AccessTtl >= ChallengeTtl + SweepInterval
  PROVE  Spec => []IssuedValid
<1>1. IInv => IssuedValid
  <2> SUFFICES ASSUME IInv, NEW v \in Validator, client[v].at = "tokens"
               PROVE  client[v].issued_for > 0
    BY DEF IssuedValid
  <2>1. client[v].issued_for \in Int
    BY Places DEF IInv, TypeOK, ClientState, Tokens
  <2>2. client[v].issued_for > AccessTtl - (ChallengeTtl + SweepInterval)
    BY DEF IInv, TokenLife
  <2> QED
    BY <2>1, <2>2, Times
<1> QED
  BY <1>1, AuthHolds, PTL

\* A validator subscribes under the key it signed with, however addresses are shared.
THEOREM IdentityIsOwn == Spec => []OwnIdentity
<1>1. IInv => OwnIdentity
  BY DEF IInv, OwnKey, OwnIdentity, SubscribedAs
<1> QED
  BY <1>1, AuthHolds, PTL

\* A validator alone on its address can redeem its challenge for all of challenge_ttl.
THEOREM ChallengesAreHonoured == Spec => []ChallengeHonoured
<1>1. IInv => ChallengeHonoured
  BY DEF IInv, Stand, Standing, ChallengeHonoured
<1> QED
  BY <1>1, AuthHolds, PTL

-----------------------------------------------------------------------------
(* The desk that the validators are promised.                               *)

\* The stage of a client.
StageOf(c) ==
  CASE c.at = "remove" -> [at |-> "proved", ip |-> c.ip]
    [] c.at = "tokens" -> [at |-> "session", key |-> c.access]
    [] OTHER -> [at |-> "nothing"]

\* The stages, one by one.
LEMMA Stages ==
  ASSUME NEW c
  PROVE  /\ c.at = "remove" => StageOf(c) = Desk!Proved(c.ip)
         /\ c.at = "tokens" => StageOf(c) = Desk!SessionAs(c.access)
         /\ c.at \notin {"remove", "tokens"} => StageOf(c) = Desk!Nothing
  BY DEF StageOf, Desk!Proved, Desk!SessionAs, Desk!Nothing

\* The stage of each validator is that of its client.
LEMMA StageAt == Stage = [v \in Validator |-> StageOf(client[v])]
  BY DEF Stage, StageOf, SubscribedAs

\* A step of one client changes its stage only.
LEMMA BecomeStage ==
  ASSUME TypeOK, NEW v \in Validator, NEW c, Become(v, c)
  PROVE  Stage' = [Stage EXCEPT ![v] = StageOf(c)]
<1>1. client'[v] = c /\ \A u \in Validator \ {v} : client'[u] = client[u]
  BY DEF TypeOK, Become
<1>2. Stage' = [u \in Validator |-> StageOf(client'[u])]
  BY DEF Stage, StageOf, SubscribedAs
<1>3. [Stage EXCEPT ![v] = StageOf(c)]
        = [u \in Validator |-> IF u = v THEN StageOf(c) ELSE StageOf(client[u])]
  BY StageAt
<1>4. \A u \in Validator : StageOf(client'[u]) = IF u = v THEN StageOf(c) ELSE StageOf(client[u])
  BY <1>1, Zenon
<1> QED
  BY <1>2, <1>3, <1>4

\* A step that leaves the stage of its client as it is, leaves all as they are.
LEMMA SameStage ==
  ASSUME TypeOK, NEW v \in Validator, NEW c, Become(v, c), StageOf(c) = StageOf(client[v])
  PROVE  Stage' = Stage
<1>1. Stage' = [Stage EXCEPT ![v] = StageOf(client[v])]
  BY BecomeStage
<1> QED
  BY <1>1, StageAt

\* The map says what is posted.
LEMMA SamePosted ==
  ASSUME UNCHANGED auth_challenges
  PROVE  Posted' = Posted
  BY DEF Posted, Present

\* The steps of a call before it pushes, redeems or renews.
LEMMA CallSteps ==
  ASSUME IInv, NEW v \in Validator,
         \/ \E ip \in Ip : GenerateAuthChallenge(v, ip)
         \/ CheckLen(v)
         \/ ReuseChallenge(v)
         \/ \E is_authorized \in BOOLEAN : CheckRequest(v, is_authorized)
  PROVE  UNCHANGED Desk!deskVars
<1> DEFINE Before == {"idle", "len", "get", "push", "told"}
<1>0. client[v] \in ClientState
  BY DEF IInv, TypeOK, ClientState
<1>1. client[v].at \in Before /\ UNCHANGED auth_challenges
  BY Zenon DEF GenerateAuthChallenge, CheckLen, ReuseChallenge, CheckRequest
<1>2. PICK c : Become(v, c) /\ c.at \in Before
  <2>1. Idle.at = "idle"
    BY DEF Idle
  <2>2. ASSUME NEW ip \in Ip, GenerateAuthChallenge(v, ip)
        PROVE  \E c : Become(v, c) /\ c.at \in Before
    BY <2>2, SMTT(30) DEF GenerateAuthChallenge
  <2>3. CASE CheckLen(v)
    <3>1. client[v] \in Calling
      BY <1>0, <2>3, Places DEF CheckLen
    <3>2. [client[v] EXCEPT !.at = "get"].at = "get"
      BY <3>1 DEF Calling
    <3> QED
      BY <2>1, <2>3, <3>2, Zenon DEF CheckLen
  <2>4. CASE ReuseChallenge(v)
    BY <2>4, SMTT(30) DEF ReuseChallenge
  <2>5. ASSUME NEW is_authorized \in BOOLEAN, CheckRequest(v, is_authorized)
        PROVE  \E c : Become(v, c) /\ c.at \in Before
    <3>1. client[v] \in Calling
      BY <1>0, <2>5, Places DEF CheckRequest
    <3>2. [client[v] EXCEPT !.at = "push"].at = "push"
      BY <3>1 DEF Calling
    <3> QED
      BY <2>1, <2>5, <3>2, Zenon DEF CheckRequest
  <2> QED
    BY <2>2, <2>3, <2>4, <2>5
<1>3. StageOf(c) = StageOf(client[v])
  BY <1>1, <1>2, Stages
<1> QED
  BY <1>1, <1>2, <1>3, SameStage, SamePosted DEF IInv, Desk!deskVars

\* generate_auth_tokens: the proof is accepted against the challenge that stands.
LEMMA TokensProve ==
  ASSUME IInv, NEW v \in Validator, GenerateAuthTokens(v)
  PROVE  [Desk!DeskNext]_(Desk!deskVars)
<1> DEFINE ip == client[v].ip
<1>1. client[v].at = "told" /\ UNCHANGED auth_challenges
  BY DEF GenerateAuthTokens
<1>2. ip \in Ip
  BY <1>1, Places DEF IInv, TypeOK, ClientState, Told
<1>3. Stage[v] = Desk!Nothing
  BY <1>1, StageAt, Stages
<1>4. CASE ip \in Present /\ Matches(v)
  <2> DEFINE c == [at |-> "remove", ip |-> ip, challenge |-> auth_challenges[ip]]
  <2>1. Become(v, c) /\ c.at = "remove" /\ c.ip = ip
    BY <1>4 DEF GenerateAuthTokens
  <2> HIDE DEF c
  <2>2. Stage' = [Stage EXCEPT ![v] = Desk!Proved(ip)]
    BY <2>1, BecomeStage, Stages, SMTT(30) DEF IInv
  <2>3. Posted[ip] = {v}
    BY <1>2, <1>4 DEF Posted, Matches
  <2>4. Posted' = Posted
    BY <1>1, SamePosted
  <2> HIDE DEF ip
  <2>5. Desk!Prove(v, ip)
    BY <1>3, <2>2, <2>3, <2>4, Zenon DEF Desk!Prove
  <2> QED
    BY <1>2, <2>5, Zenon DEF Desk!DeskNext
<1>5. CASE ~(ip \in Present /\ Matches(v))
  <2>1. Become(v, Idle) /\ Idle.at = "idle"
    BY <1>5 DEF GenerateAuthTokens, Idle
  <2>2. StageOf(Idle) = StageOf(client[v])
    BY <1>1, <2>1, Stages
  <2> QED
    BY <1>1, <2>1, <2>2, SameStage, SamePosted DEF IInv, Desk!deskVars
<1> QED
  BY <1>4, <1>5

\* push: a challenge for the own key, at an address of its own.
LEMMA PushIssues ==
  ASSUME IInv, NEW v \in Validator, PushChallenge(v)
  PROVE  Desk!DeskNext
<1> DEFINE ip == client[v].ip
           string == generate_challenge_token
           challenge == [string |-> string, pubkey |-> v, age |-> 0]
           c == [at |-> "told", ip |-> ip, string |-> string, age |-> 0]
<1>1. /\ client[v].at = "push"
      /\ auth_challenges' = [auth_challenges EXCEPT ![ip] = challenge]
      /\ Become(v, c) /\ c.at = "told"
  BY DEF PushChallenge
<1>2. ip \in Ip /\ ip \in AddressesOf[v]
  BY <1>1, Places DEF IInv, TypeOK, ClientState, AtHome, Calling
<1>3. challenge \in Challenge /\ challenge.pubkey = v
  BY FreshString, Times DEF IInv, Challenge
<1>4. Stage' = Stage /\ Stage[v] = Desk!Nothing
  <2>1. StageOf(c) = Desk!Nothing /\ StageOf(client[v]) = Desk!Nothing
    BY <1>1, Stages
  <2> QED
    BY <1>1, <2>1, SameStage, StageAt DEF IInv
<1> HIDE DEF challenge, c
<1>5. challenge # NoChallenge
  BY <1>3, ChallengeIsOne
<1>6. /\ auth_challenges'[ip] = challenge
      /\ \A i \in Ip \ {ip} : auth_challenges'[i] = auth_challenges[i]
  BY <1>1, <1>2 DEF IInv, TypeOK
<1> HIDE DEF ip
<1>7. Posted' = [Posted EXCEPT ![ip] = {v}]
  BY <1>2, <1>3, <1>5, <1>6, Zenon DEF Posted, Present
<1>8. Desk!Issue(v, ip)
  BY <1>2, <1>4, <1>7, Zenon DEF Desk!Issue
<1> QED
  BY <1>2, <1>8, Zenon DEF Desk!DeskNext

\* remove: the proof becomes a session under the own key, and the address is cleared.
LEMMA RemoveOpens ==
  ASSUME IInv, NEW v \in Validator, RemoveChallenge(v)
  PROVE  Desk!DeskNext
<1> DEFINE ip == client[v].ip
           c == TokensOf(client[v].challenge)
<1>1. /\ client[v].at = "remove"
      /\ auth_challenges' = [auth_challenges EXCEPT ![ip] = NoChallenge]
      /\ Become(v, c)
  BY DEF RemoveChallenge
<1>2. ip \in Ip
  BY <1>1, Places DEF IInv, TypeOK, ClientState, Redeeming
<1>3. c.at = "tokens" /\ c.access = v
  BY <1>1 DEF TokensOf, IInv, OwnKey
<1>4. Stage[v] = Desk!Proved(ip)
  BY <1>1, StageAt, Stages
<1> HIDE DEF c
<1>5. Stage' = [Stage EXCEPT ![v] = Desk!SessionAs(v)]
  BY <1>1, <1>3, BecomeStage, Stages, SMTT(30) DEF IInv
<1>6. /\ auth_challenges'[ip] = NoChallenge
      /\ \A i \in Ip \ {ip} : auth_challenges'[i] = auth_challenges[i]
  BY <1>1, <1>2 DEF IInv, TypeOK
<1> HIDE DEF ip
<1>7. Posted' = [Posted EXCEPT ![ip] = {}]
  BY <1>2, <1>6, Zenon DEF Posted, Present
<1>8. Desk!OpenSession(v, ip)
  BY <1>4, <1>5, <1>7, Zenon DEF Desk!OpenSession
<1> QED
  BY <1>2, <1>8, Zenon DEF Desk!DeskNext

\* refresh_access_token and a caller that gives up: the session stays or ends.
LEMMA RenewStays ==
  ASSUME IInv, NEW v \in Validator, RefreshAccessToken(v) \/ GiveUp(v)
  PROVE  [Desk!DeskNext]_(Desk!deskVars)
<1>1. UNCHANGED auth_challenges
  BY DEF RefreshAccessToken, GiveUp
<1>2. Posted' = Posted
  BY <1>1, SamePosted
<1>3. ASSUME Become(v, Idle) PROVE Desk!DeskNext
  <2>1. StageOf(Idle) = Desk!Nothing
    BY Stages DEF Idle
  <2>2. Stage' = [Stage EXCEPT ![v] = Desk!Nothing]
    BY <1>3, <2>1, BecomeStage DEF IInv
  <2> QED
    BY <1>2, <2>2, Zenon DEF Desk!DeskNext, Desk!Leave
<1>4. CASE GiveUp(v)
  BY <1>3, <1>4 DEF GiveUp
<1>5. CASE RefreshAccessToken(v)
  <2>1. CASE client[v].refresh_left <= 0
    BY <1>3, <1>5, <2>1 DEF RefreshAccessToken
  <2>2. CASE ~(client[v].refresh_left <= 0)
    <3> DEFINE c == [client[v] EXCEPT !.access = client[v].refresh]
    <3>1. Become(v, c) /\ client[v].at = "tokens"
      BY <1>5, <2>2 DEF RefreshAccessToken
    <3>2. client[v] \in Tokens /\ client[v].access = v /\ client[v].refresh = v
      BY <3>1, Places DEF IInv, TypeOK, ClientState, OwnKey
    <3>3. c.at = "tokens" /\ c.access = v
      BY <3>2 DEF Tokens
    <3>4. StageOf(c) = StageOf(client[v])
      BY <3>1, <3>2, <3>3, Stages, Zenon
    <3> QED
      BY <1>2, <3>1, <3>4, SameStage DEF IInv, Desk!deskVars
  <2> QED
    BY <2>1, <2>2
<1> QED
  BY <1>4, <1>5

\* remove_all_expired takes challenges down.
LEMMA SweepExpires ==
  ASSUME IInv, RemoveAllExpired
  PROVE  Desk!DeskNext
<1>1. /\ client' = client
      /\ \A i \in Ip : auth_challenges'[i] = IF i \in Popped THEN NoChallenge ELSE auth_challenges[i]
  BY DEF RemoveAllExpired
<1>2. Stage' = Stage
  BY <1>1, Zenon DEF Stage, SubscribedAs
<1>3. \A i \in Ip : i \in Present' <=> i \in Present /\ i \notin Popped
  BY <1>1 DEF Present
<1>4. Posted' = [i \in Ip |-> IF i \in Popped THEN {} ELSE Posted[i]]
  BY <1>1, <1>3 DEF Posted
<1>5. Popped \in SUBSET Ip
  BY DEF Popped, Present
<1>6. Desk!Expire(Popped)
  BY <1>2, <1>4, Zenon DEF Desk!Expire
<1> QED
  BY <1>5, <1>6, Zenon DEF Desk!DeskNext

\* Time alone changes nothing at the desk.
LEMMA TickLeavesDesk ==
  ASSUME IInv, Tick
  PROVE  UNCHANGED Desk!deskVars
<1>1. /\ \A v \in Validator : client[v].at \in {"idle", "told", "tokens"}
      /\ \A i \in Ip : auth_challenges'[i] = IF i \in Present
                                             THEN [auth_challenges[i] EXCEPT !.age = Older(@)]
                                             ELSE NoChallenge
      /\ client' = [v \in Validator |-> Aged(client[v])]
  BY DEF Tick, AtRest, Aged
<1>2. \A v \in Validator : StageOf(client'[v]) = StageOf(client[v])
  <2> SUFFICES ASSUME NEW v \in Validator PROVE StageOf(client'[v]) = StageOf(client[v])
    OBVIOUS
  <2>1. client[v] \in ClientState /\ client'[v] = Aged(client[v])
    BY <1>1 DEF IInv, TypeOK, ClientState
  <2>2. /\ client'[v].at = client[v].at
        /\ client[v].at = "tokens" => client'[v].access = client[v].access
    BY <2>1, AgedClient
  <2> QED
    BY <1>1, <2>2, Stages
<1>3. Stage' = [v \in Validator |-> StageOf(client'[v])]
  BY DEF Stage, StageOf, SubscribedAs
<1>4. Stage' = Stage
  BY <1>2, <1>3, StageAt
<1>5. \A i \in Present : auth_challenges'[i].pubkey = auth_challenges[i].pubkey /\ i \in Present'
  <2> SUFFICES ASSUME NEW i \in Present
               PROVE  auth_challenges'[i].pubkey = auth_challenges[i].pubkey /\ i \in Present'
    OBVIOUS
  <2>1. i \in Ip /\ auth_challenges[i] \in Challenge
    BY PresentChallenge DEF IInv
  <2>2. auth_challenges'[i] = [auth_challenges[i] EXCEPT !.age = Older(@)]
    BY <1>1, <2>1
  <2>3. Older(auth_challenges[i].age) \in 0 .. OldestAge
    BY <2>1, Times DEF Challenge, Older
  <2>4. auth_challenges'[i] \in Challenge /\ auth_challenges'[i].pubkey = auth_challenges[i].pubkey
    BY <2>1, <2>2, <2>3 DEF Challenge
  <2> QED
    BY <2>1, <2>4, ChallengeIsOne DEF Present
<1>6. \A i \in Ip : i \notin Present => i \notin Present'
  BY <1>1, Zenon DEF Present
<1>7. Posted' = Posted
  BY <1>5, <1>6, Zenon DEF Posted
<1> QED
  BY <1>4, <1>7 DEF Desk!deskVars

\* Every step of the service is a step of the desk or leaves it alone.
LEMMA NextDesk == IInv /\ [Next]_vars => [Desk!DeskNext]_(Desk!deskVars)
<1> SUFFICES ASSUME IInv, [Next]_vars PROVE [Desk!DeskNext]_(Desk!deskVars)
  OBVIOUS
<1>1. CASE UNCHANGED vars
  <2>1. Stage' = Stage /\ Posted' = Posted
    BY <1>1, SamePosted, Zenon DEF vars, Stage, SubscribedAs
  <2> QED
    BY <2>1 DEF Desk!deskVars
<1> QED
  BY <1>1, CallSteps, TokensProve, PushIssues, RemoveOpens, RenewStays, SweepExpires,
     TickLeavesDesk, Zenon DEF Next

\* ImplementsDesk: the two locks of each call, overtaken by other calls and by the expiration
\* task, give a session only for a proof of the own key against a standing challenge, for
\* any number of validators and addresses and any sharing of addresses.
THEOREM ServiceImplementsDesk == Spec => ImplementsDesk
<1>1. Init => Desk!DeskInit
  <2> SUFFICES ASSUME Init PROVE Desk!DeskInit
    OBVIOUS
  <2>1. Present = {} /\ \A v \in Validator : client[v].at = "idle"
    BY DEF Init, Idle, Present
  <2>2. Posted = [i \in Ip |-> {}]
    BY <2>1 DEF Posted
  <2>3. Stage = [v \in Validator |-> Desk!Nothing]
    BY <2>1, StageAt, Stages
  <2> QED
    BY <2>2, <2>3, Zenon DEF Desk!DeskInit
<1> QED
  BY <1>1, NextDesk, AuthHolds, PTL DEF Spec, ImplementsDesk, Desk!DeskSpec
=============================================================================
