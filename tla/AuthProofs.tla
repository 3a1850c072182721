------------------------------ MODULE AuthProofs ------------------------------
(***************************************************************************)
(* Theorems about Auth for every set of requests, clients, emails and      *)
(* passwords and every rate and token life.  The limiter's own bound is    *)
(* inherited: every step of Auth is a step of RateLimiter or leaves it.    *)
(***************************************************************************)
EXTENDS Auth, RateLimiterProofs

(* Where a request is tells what it asks for and what has happened to it. *)
Flow(r) ==
    /\ pc[r] = "idle" => req[r] = NoInput /\ address[r] = None /\ identity[r] = None
    /\ pc[r] # "idle" => req[r] \in Input
    /\ pc[r] \in {"prepare", "insert"} => req[r].op = "register"
    /\ pc[r] \in {"find", "compare"} => req[r].op = "login"
    /\ pc[r] = "parse" => req[r].op = "refresh"
    /\ pc[r] = "user" => req[r].op \in {"refresh", "call"} /\ identity[r] \in Requests
    /\ req[r].op \in {"register", "login"} =>
          req[r].text \in Texts /\ req[r].password \in Passwords
    /\ pc[r] # "done" => reply[r] = "NONE" /\ compares[r] = 0

FlowInv == \A r \in Requests : Flow(r)

(* A comparison is paid for at the limiter, and there is one behind each verdict. *)
Guess(r) ==
    /\ pc[r] = "limit" => req[r].op \in AuthOperations /\ address[r] = AddressOf[req[r].client]
    /\ pc[r] \in {"find", "compare"} \/ compares[r] > 0 =>
          verdict[r] = "allowed" /\ address[r] = AddressOf[req[r].client]
    /\ req[r].op = "login" /\ reply[r] \in {"OK", "INVALID_CREDENTIALS"} => compares[r] = 1

GuessInv == \A r \in Requests : Guess(r)

(* A row is what its registration wrote, and a login has read such a row of its own email. *)
RowInv ==
    /\ \A u \in everStored : pc[u] = "done" /\ req[u].op = "register"
    /\ \A u \in Requests : users[u] # NoUser =>
          /\ u \in everStored
          /\ users[u] = [email |-> Normal[req[u].text], password |-> req[u].password]
    /\ \A r \in Requests : found[r] # None =>
          /\ pc[r] = "compare"
          /\ found[r].id \in everStored
          /\ found[r].password = req[found[r].id].password
          /\ Normal[req[found[r].id].text] = Normal[req[r].text]

(* c has shown the password of the account u. *)
Proved(c, u) ==
    \E s \in Requests :
        /\ Opened(s, c, u)
        /\ req[s].op \in {"register", "login"}
        /\ req[s].password = req[u].password
        /\ Normal[req[s].text] = Normal[req[u].text]

(* c has had a session of u, since which a token of that life with that expiry was made. *)
Backed(c, u, ttl, exp) ==
    \E s \in Requests : Opened(s, c, u) /\ exp * Second <= issuedAt[s] + ttl

Life(typ) == IF typ = "refresh" THEN RefreshTTL ELSE AccessTTL

(* Every token traces back to a session of its holder and to a password. *)
TokenInv ==
    /\ \A c \in Clients : \A token \in wallet[c] :
          /\ token.sub \in everStored
          /\ Proved(c, token.sub)
          /\ Backed(c, token.sub, Life(token.typ), token.exp)
    /\ \A r \in Requests : req[r].op = "refresh" /\ req[r].token # NoToken =>
          req[r].token \in wallet[req[r].client]
    /\ \A r \in Requests : identity[r] # None =>
          pc[r] \in {"user", "done"} /\ identity[r] \in everStored

AuthInv ==
    /\ TypeOK /\ LimiterInv /\ FlowInv /\ GuessInv /\ RowInv /\ TokenInv
    /\ OneAccountPerEmail /\ NoSessionWithoutAccount /\ CallerHasProved

-----------------------------------------------------------------------------
(* The limiter *)

(* Whatever the client claims, it is the address it connects from that counts. *)
LEMMA LastHop ==
    ASSUME NEW c, NEW forwarded \in Forwarded(c)
    PROVE  ClientIP(forwarded, AddressOf[c]) = AddressOf[c]
<1>1. CASE forwarded = << >>
  BY <1>1 DEF ClientIP
<1>2. CASE forwarded = <<AddressOf[c]>>
  BY <1>2 DEF ClientIP
<1>3. CASE \E claimed \in Addresses : forwarded = <<claimed, AddressOf[c]>>
  BY <1>3 DEF ClientIP
<1> QED
  BY <1>1, <1>2, <1>3 DEF Forwarded

LEMMA NextLimits == Next => [LimiterNext]_limiterVars
<1> SUFFICES ASSUME Next PROVE [LimiterNext]_limiterVars
  OBVIOUS
<1>1. ASSUME NEW r \in Requests, ReceiveAuth(r) PROVE [LimiterNext]_limiterVars
  <2>1. CASE UNCHANGED limiterVars
    BY <2>1
  <2>2. CASE \E c \in Clients : \E forwarded \in Forwarded(c) :
                 Lookup(r, ClientIP(forwarded, AddressOf[c]))
    <3>1. PICK c \in Clients : Lookup(r, AddressOf[c])
      BY <2>2, LastHop
    <3> QED
      BY <3>1, AuthAssumption DEF LimiterNext
  <2> QED
    BY <1>1, <2>1, <2>2 DEF ReceiveAuth
<1>2. ASSUME NEW r \in Requests, UseBucket(r) PROVE [LimiterNext]_limiterVars
  BY <1>2 DEF UseBucket, LimiterNext
<1>3. CASE Advance
  BY <1>3 DEF Advance, LimiterNext
<1>4. ASSUME NEW r \in Requests,
             \/ Prepare(r) \/ StoreUser(r) \/ StoreUnacknowledged(r) \/ FindUser(r) \/ Compare(r)
             \/ ParseRefresh(r) \/ ReceiveCall(r) \/ LoadUser(r) \/ StatementFails(r)
             \/ RemoveUser(r)
      PROVE  [LimiterNext]_limiterVars
  BY <1>4 DEF Prepare, StoreUser, StoreUnacknowledged, FindUser, Compare, ParseRefresh,
              ReceiveCall, LoadUser, StatementFails, RemoveUser
<1> QED
  BY <1>1, <1>2, <1>3, <1>4 DEF Next

-----------------------------------------------------------------------------
(* Types *)

LEMMA ExpiryFacts ==
    ASSUME NEW t \in Nat, NEW ttl \in Nat
    PROVE  (t + ttl) \div Second \in Nat /\ ((t + ttl) \div Second) * Second <= t + ttl
<1>1. Second \in Nat /\ Second > 0 /\ t + ttl \in Nat
  BY AuthAssumption
<1> QED
  BY <1>1

LEMMA PairFacts ==
    ASSUME NEW u \in Requests, NEW t \in Nat
    PROVE  /\ Pair(u, t) \subseteq Token
           /\ \A token \in Pair(u, t) :
                 token.sub = u /\ token.exp * Second <= t + Life(token.typ)
<1>1. ASSUME NEW typ \in {"access", "refresh"}, NEW ttl \in Nat
      PROVE  /\ Issue(u, typ, t, ttl) \in Token
             /\ Issue(u, typ, t, ttl).sub = u /\ Issue(u, typ, t, ttl).typ = typ
             /\ Issue(u, typ, t, ttl).exp * Second <= t + ttl
  BY ExpiryFacts DEF Issue, Token
<1>2. /\ Issue(u, "access", t, AccessTTL) \in Token
      /\ Issue(u, "access", t, AccessTTL).sub = u
      /\ Issue(u, "access", t, AccessTTL).exp * Second
             <= t + Life(Issue(u, "access", t, AccessTTL).typ)
  BY <1>1, AuthAssumption DEF Life
<1>3. /\ Issue(u, "refresh", t, RefreshTTL) \in Token
      /\ Issue(u, "refresh", t, RefreshTTL).sub = u
      /\ Issue(u, "refresh", t, RefreshTTL).exp * Second
             <= t + Life(Issue(u, "refresh", t, RefreshTTL).typ)
  BY <1>1, AuthAssumption DEF Life
<1> QED
  BY <1>2, <1>3 DEF Pair

LEMMA DistinctValues ==
    /\ NoUser \notin User
    /\ NoToken \notin Token
    /\ NoInput \notin Input
    /\ NoInput.op = "none"
  BY LimiterAssumption, AuthAssumption DEF NoUser, User, NoToken, Token, NoInput, Input, AuthOperations

(* The requests whose fields are read are well formed. *)
LEMMA InputFacts ==
    ASSUME TypeOK, FlowInv, NEW r \in Requests, pc[r] # "idle"
    PROVE  /\ req[r].client \in Clients
           /\ req[r].op \in AuthOperations \cup {"call"}
           /\ req[r].token \in Token \cup {NoToken}
           /\ wallet[req[r].client] \in SUBSET Token
<1>1. req[r] \in Input
  BY DEF FlowInv, Flow
<1>2. wallet \in [Clients -> SUBSET Token]
  BY DEF TypeOK
<1> QED
  BY <1>1, <1>2 DEF Input

LEMMA AuthTypeStep ==
    ASSUME TypeOK, LimiterInv, FlowInv, GuessInv, Next
    PROVE  TypeOK'
<1>0. LimiterTypeOK'
  BY NextLimits, LimiterInvStep DEF LimiterInv
<1>t. now \in Nat
  BY DEF LimiterInv, LimiterTypeOK
<1>1. ASSUME NEW r \in Requests, ReceiveAuth(r) PROVE TypeOK'
  <2>1. PICK op \in AuthOperations, c \in Clients, text \in Written, password \in Passwords,
             token \in (UNION {wallet[k] : k \in Clients}) \cup {NoToken} :
          /\ op = "refresh" => token \in wallet[c] \cup {NoToken}
          /\ req' = [req EXCEPT ![r] =
                IF op = "refresh"
                THEN [NoInput EXCEPT !.op = op, !.client = c, !.token = token]
                ELSE [op |-> op, client |-> c, text |-> text, password |-> password,
                      token |-> NoToken]]
          /\ pc' = [pc EXCEPT ![r] = "limit"] \/ pc' = [pc EXCEPT ![r] = FirstStep(op)]
    BY <1>1 DEF ReceiveAuth, Goto
  <2>2. \A k \in Clients : wallet[k] \subseteq Token
    BY DEF TypeOK
  <2>3. token \in Token \cup {NoToken}
    BY <2>1, <2>2
  <2>4. req' \in [Requests -> Input \cup {NoInput}]
    BY <2>1, <2>3, AuthAssumption DEF TypeOK, NoInput, Input
  <2>5. FirstStep(op) \in {"prepare", "find", "parse"}
    BY DEF FirstStep, AuthOperations
  <2> QED
    BY <1>0, <1>1, <2>1, <2>4, <2>5 DEF ReceiveAuth, TypeOK, session
<1>2. ASSUME NEW r \in Requests, UseBucket(r) PROVE TypeOK'
  <2>1. FirstStep(req[r].op) \in {"prepare", "find", "parse"}
    BY <1>2 DEF UseBucket, GuessInv, Guess, FirstStep, AuthOperations
  <2> QED
    BY <1>0, <1>2, <2>1 DEF UseBucket, TypeOK, session, Goto, Answer, Errors
<1>3. ASSUME NEW r \in Requests, Prepare(r) PROVE TypeOK'
  BY <1>0, <1>t, <1>3 DEF Prepare, TypeOK, Goto, Answer, Errors
<1>4. ASSUME NEW r \in Requests, pc[r] = "insert"
      PROVE  /\ Insert(r) => users' \in [Requests -> User \cup {NoUser}] /\ everStored' \subseteq Requests
             /\ DeliverPair(r) =>
                   /\ wallet' \in [Clients -> SUBSET Token]
                   /\ user' \in [Requests -> Requests \cup {None}]
  <2>1. [email |-> NormalizeEmail(req[r].text), password |-> req[r].password] \in User
    BY <1>4, AuthAssumption DEF FlowInv, Flow, NormalizeEmail, User
  <2>2. issuedAt[r] \in Nat
    BY DEF TypeOK
  <2>3. wallet[req[r].client] \cup Pair(r, issuedAt[r]) \in SUBSET Token
    BY <1>4, <2>2, InputFacts, PairFacts
  <2> QED
    BY <2>1, <2>3 DEF Insert, DeliverPair, TypeOK
<1>5. ASSUME NEW r \in Requests, StoreUser(r) PROVE TypeOK'
  BY <1>0, <1>4, <1>5 DEF StoreUser, DeliverPair, TypeOK, Goto, Answer, Errors
<1>6. ASSUME NEW r \in Requests, StoreUnacknowledged(r) PROVE TypeOK'
  BY <1>0, <1>4, <1>6 DEF StoreUnacknowledged, TypeOK, session, Goto, Answer, Errors
<1>7. ASSUME NEW r \in Requests, FindUser(r) PROVE TypeOK'
  <2>1. ASSUME NEW u \in Requests, users[u].email = NormalizeEmail(req[r].text)
        PROVE  [id |-> u, password |-> users[u].password] \in [id : Requests, password : Passwords]
    <3>1. req[r].text \in Texts
      BY <1>7 DEF FindUser, FlowInv, Flow
    <3>2. users[u].email # None
      BY <2>1, <3>1, AuthAssumption DEF NormalizeEmail
    <3>3. users[u] \in User
      BY <3>2 DEF TypeOK, NoUser
    <3> QED
      BY <3>3 DEF User
  <2> QED
    BY <1>0, <1>7, <2>1 DEF FindUser, TypeOK, session, Goto
<1>8. ASSUME NEW r \in Requests, NEW u \in Requests, pc[r] # "idle", Grant(r, u)
      PROVE  /\ wallet' \in [Clients -> SUBSET Token]
             /\ issuedAt' \in [Requests -> Nat]
             /\ user' \in [Requests -> Requests \cup {None}]
  <2>1. wallet[req[r].client] \cup Pair(u, now) \in SUBSET Token
    BY <1>t, <1>8, InputFacts, PairFacts
  <2> QED
    BY <1>t, <1>8, <2>1 DEF Grant, TypeOK
<1>9. ASSUME NEW r \in Requests, Compare(r) PROVE TypeOK'
  <2>1. Matches(r) => found[r].id \in Requests
    BY DEF Matches, TypeOK
  <2>2. /\ wallet' \in [Clients -> SUBSET Token]
        /\ issuedAt' \in [Requests -> Nat]
        /\ user' \in [Requests -> Requests \cup {None}]
    BY <1>8, <1>9, <2>1 DEF Compare, TypeOK
  <2>3. /\ compares' \in [Requests -> Nat]
        /\ found' \in [Requests -> [id : Requests, password : Passwords] \cup {None}]
    BY <1>9 DEF Compare, CompareHash, TypeOK
  <2>4. /\ pc' = [pc EXCEPT ![r] = "done"]
        /\ \E code \in {"OK", "INVALID_CREDENTIALS"} : reply' = [reply EXCEPT ![r] = code]
    BY <1>9 DEF Compare, Grant, Goto, Answer
  <2> QED
    BY <1>0, <1>9, <2>2, <2>3, <2>4 DEF Compare, TypeOK, Errors
<1>10. ASSUME NEW r \in Requests, NEW token \in Token \cup {NoToken}, NEW typ,
              Accepted(token, typ), Accept(r, token.sub)
       PROVE  /\ identity' \in [Requests -> Requests \cup {None}]
              /\ acceptedAt' \in [Requests -> Nat]
  <2>1. token.sub \in Requests
    BY <1>10 DEF Accepted, Token, NoToken
  <2> QED
    BY <1>t, <1>10, <2>1 DEF Accept, TypeOK
<1>11. ASSUME NEW r \in Requests, ParseRefresh(r) PROVE TypeOK'
  <2>1. req[r].token \in Token \cup {NoToken}
    BY <1>11, InputFacts DEF ParseRefresh
  <2>2. /\ identity' \in [Requests -> Requests \cup {None}]
        /\ acceptedAt' \in [Requests -> Nat]
    BY <1>10, <1>11, <2>1 DEF ParseRefresh, TypeOK
  <2> QED
    BY <1>0, <1>11, <2>2 DEF ParseRefresh, TypeOK, Goto, Answer, Errors
<1>12. ASSUME NEW r \in Requests, ReceiveCall(r) PROVE TypeOK'
  <2>0. PICK c \in Clients : \E token \in wallet[c] \cup {NoToken} :
          /\ req' = [req EXCEPT ![r] = [NoInput EXCEPT !.op = "call", !.client = c,
                                                       !.token = token]]
          /\ \/ /\ Accepted(token, "access")
                /\ Accept(r, token.sub)
                /\ Goto(r, "user")
                /\ UNCHANGED reply
             \/ /\ ~Accepted(token, "access")
                /\ Answer(r, "NULL")
                /\ UNCHANGED <<identity, acceptedAt>>
    BY <1>12 DEF ReceiveCall
  <2>1. PICK token \in wallet[c] \cup {NoToken} :
          /\ req' = [req EXCEPT ![r] = [NoInput EXCEPT !.op = "call", !.client = c,
                                                       !.token = token]]
          /\ \/ /\ Accepted(token, "access")
                /\ Accept(r, token.sub)
                /\ Goto(r, "user")
                /\ UNCHANGED reply
             \/ /\ ~Accepted(token, "access")
                /\ Answer(r, "NULL")
                /\ UNCHANGED <<identity, acceptedAt>>
    BY <2>0
  <2>2. token \in Token \cup {NoToken}
    BY DEF TypeOK
  <2>3. /\ identity' \in [Requests -> Requests \cup {None}]
        /\ acceptedAt' \in [Requests -> Nat]
    BY <1>10, <2>1, <2>2 DEF TypeOK
  <2>4. req' \in [Requests -> Input \cup {NoInput}]
    BY <2>1, <2>2 DEF TypeOK, NoInput, Input
  <2> QED
    BY <1>0, <1>12, <2>1, <2>3, <2>4 DEF ReceiveCall, TypeOK, Goto, Answer, Errors
<1>13. ASSUME NEW r \in Requests, LoadUser(r) PROVE TypeOK'
  <2>1. identity[r] \in Requests
    BY <1>13 DEF LoadUser, FlowInv, Flow
  <2>2. /\ wallet' \in [Clients -> SUBSET Token]
        /\ issuedAt' \in [Requests -> Nat]
        /\ user' \in [Requests -> Requests \cup {None}]
    BY <1>8, <1>13, <2>1 DEF LoadUser, TypeOK
  <2> QED
    BY <1>0, <1>13, <2>2 DEF LoadUser, Grant, TypeOK, Goto, Answer, Errors
<1>14. ASSUME NEW r \in Requests, StatementFails(r) PROVE TypeOK'
  BY <1>0, <1>14 DEF StatementFails, TypeOK, session, Goto, Answer, Errors
<1>15. ASSUME NEW r \in Requests, RemoveUser(r) PROVE TypeOK'
  BY <1>0, <1>15 DEF RemoveUser, TypeOK, session
<1>16. CASE Advance
  BY <1>0, <1>16 DEF Advance, authVars, TypeOK, session
<1> QED
  BY <1>1, <1>2, <1>3, <1>5, <1>6, <1>7, <1>9, <1>11, <1>12, <1>13, <1>14, <1>15, <1>16
  DEF Next

-----------------------------------------------------------------------------
(* The life of a request *)

Step(r) ==
    \/ ReceiveAuth(r) \/ UseBucket(r)
    \/ Prepare(r) \/ StoreUser(r) \/ StoreUnacknowledged(r)
    \/ FindUser(r) \/ Compare(r)
    \/ ParseRefresh(r) \/ ReceiveCall(r) \/ LoadUser(r)
    \/ StatementFails(r)
    \/ RemoveUser(r)

(* What the step leaves of request q. *)
Kept(q) ==
    /\ pc'[q] = pc[q] /\ req'[q] = req[q] /\ found'[q] = found[q] /\ issuedAt'[q] = issuedAt[q]
    /\ user'[q] = user[q] /\ identity'[q] = identity[q] /\ acceptedAt'[q] = acceptedAt[q]
    /\ compares'[q] = compares[q] /\ reply'[q] = reply[q]
    /\ address'[q] = address[q] /\ verdict'[q] = verdict[q]

LEMMA OthersKept ==
    ASSUME TypeOK, NEW r \in Requests, Step(r), NEW q \in Requests, q # r
    PROVE  Kept(q)
<1> USE DEF Kept
<1>t. LimiterTypeOK
  BY DEF TypeOK
<1>1. CASE ReceiveAuth(r)
  <2>1. address'[q] = address[q] /\ verdict'[q] = verdict[q]
    BY <1>1, <1>t DEF ReceiveAuth, Lookup, limiterVars, LimiterTypeOK
  <2> QED
    BY <1>1, <2>1 DEF ReceiveAuth, TypeOK, session, Goto
<1>2. CASE UseBucket(r)
  <2>1. address'[q] = address[q] /\ verdict'[q] = verdict[q]
    BY <1>2, <1>t DEF UseBucket, Decide, LimiterTypeOK
  <2> QED
    BY <1>2, <2>1 DEF UseBucket, TypeOK, session, Goto, Answer
<1>3. CASE Prepare(r)
  BY <1>3 DEF Prepare, TypeOK, Goto, Answer, limiterVars
<1>4. CASE StoreUser(r)
  BY <1>4 DEF StoreUser, Insert, DeliverPair, TypeOK, Goto, Answer, limiterVars
<1>5. CASE StoreUnacknowledged(r)
  BY <1>5 DEF StoreUnacknowledged, TypeOK, session, Goto, Answer, limiterVars
<1>6. CASE FindUser(r)
  BY <1>6 DEF FindUser, TypeOK, session, Goto, limiterVars
<1>7. CASE Compare(r)
  BY <1>7 DEF Compare, CompareHash, Grant, TypeOK, Goto, Answer, limiterVars
<1>8. CASE ParseRefresh(r)
  BY <1>8 DEF ParseRefresh, Accept, TypeOK, Goto, Answer, limiterVars
<1>9. CASE ReceiveCall(r)
  BY <1>9 DEF ReceiveCall, Accept, TypeOK, Goto, Answer, limiterVars
<1>10. CASE LoadUser(r)
  BY <1>10 DEF LoadUser, Grant, TypeOK, Goto, Answer, limiterVars
<1>11. CASE StatementFails(r)
  BY <1>11 DEF StatementFails, TypeOK, session, Goto, Answer, limiterVars
<1>12. CASE RemoveUser(r)
  BY <1>12 DEF RemoveUser, session, limiterVars
<1> QED
  BY <1>1, <1>2, <1>3, <1>4, <1>5, <1>6, <1>7, <1>8, <1>9, <1>10, <1>11, <1>12 DEF Step

(* A step of a request is a step before its answer. *)
LEMMA AnswersStand ==
    ASSUME TypeOK, FlowInv, NEW r \in Requests, Step(r), pc[r] = "done"
    PROVE  Kept(r)
<1>1. RemoveUser(r)
  BY DEF Step, ReceiveAuth, UseBucket, Prepare, StoreUser, StoreUnacknowledged, FindUser, Compare,
         ParseRefresh, ReceiveCall, LoadUser, StatementFails
<1> QED
  BY <1>1 DEF Kept, RemoveUser, session, limiterVars

LEMMA FlowStep ==
    ASSUME TypeOK, FlowInv, GuessInv, NEW r \in Requests, Step(r)
    PROVE  FlowInv'
<1>0. ASSUME NEW q \in Requests, q # r PROVE Flow(q)'
  BY <1>0, OthersKept DEF Kept, FlowInv, Flow
<1>t. Flow(r) /\ Guess(r)
  BY DEF FlowInv, GuessInv
<1>1. CASE ReceiveAuth(r)
  <2>1. PICK op \in AuthOperations, c \in Clients, text \in Written, password \in Passwords,
             token \in (UNION {wallet[k] : k \in Clients}) \cup {NoToken} :
          /\ op = "refresh" => token \in wallet[c] \cup {NoToken}
          /\ req' = [req EXCEPT ![r] =
                IF op = "refresh"
                THEN [NoInput EXCEPT !.op = op, !.client = c, !.token = token]
                ELSE [op |-> op, client |-> c, text |-> text, password |-> password,
                      token |-> NoToken]]
          /\ IF op \in Limited
             THEN Goto(r, "limit") /\ \E forwarded \in Forwarded(c) :
                      Lookup(r, ClientIP(forwarded, AddressOf[c]))
             ELSE UNCHANGED limiterVars /\ Goto(r, FirstStep(op))
    BY <1>1 DEF ReceiveAuth
  <2>2. \A k \in Clients : wallet[k] \subseteq Token
    BY DEF TypeOK
  <2>3. req'[r] \in Input /\ pc'[r] = "limit"
        /\ (req'[r].op \in {"register", "login"} =>
                req'[r].text \in Texts /\ req'[r].password \in Passwords)
    BY <2>1, <2>2, AuthAssumption DEF TypeOK, NoInput, Input, Limited, Goto, AuthOperations
  <2>4. reply'[r] = "NONE" /\ compares'[r] = 0
    BY <1>1, <1>t DEF ReceiveAuth, session, Flow
  <2> QED
    BY <1>0, <2>3, <2>4 DEF Flow, FlowInv
<1>2. CASE UseBucket(r)
  BY <1>0, <1>t, <1>2 DEF UseBucket, FirstStep, AuthOperations, Goto, Answer, TypeOK, Flow, Guess,
                          FlowInv, session
<1>3. CASE Prepare(r)
  BY <1>0, <1>t, <1>3 DEF Prepare, Goto, Answer, TypeOK, Flow, FlowInv
<1>4. CASE StoreUser(r)
  BY <1>0, <1>t, <1>4 DEF StoreUser, DeliverPair, Goto, Answer, TypeOK, Flow, FlowInv
<1>5. CASE StoreUnacknowledged(r)
  BY <1>0, <1>t, <1>5 DEF StoreUnacknowledged, session, Goto, Answer, TypeOK, Flow, FlowInv
<1>6. CASE FindUser(r)
  BY <1>0, <1>t, <1>6 DEF FindUser, session, Goto, TypeOK, Flow, FlowInv
<1>7. CASE Compare(r)
  BY <1>0, <1>t, <1>7 DEF Compare, Grant, Goto, Answer, TypeOK, Flow, FlowInv
<1>8. CASE ParseRefresh(r)
  <2>1. Accepted(req[r].token, "refresh") => req[r].token.sub \in Requests
    <3>1. req[r].token \in Token \cup {NoToken}
      BY <1>8, InputFacts DEF ParseRefresh
    <3> QED
      BY <3>1 DEF Accepted, Token, NoToken
  <2>2. pc'[r] = "user" => identity'[r] \in Requests
    BY <1>8, <2>1 DEF ParseRefresh, Accept, TypeOK, Goto, Answer
  <2> QED
    BY <1>0, <1>t, <1>8, <2>2 DEF ParseRefresh, Goto, Answer, TypeOK, Flow, FlowInv
<1>9. CASE ReceiveCall(r)
  <2>1. PICK c \in Clients : \E token \in wallet[c] \cup {NoToken} :
          /\ req' = [req EXCEPT ![r] = [NoInput EXCEPT !.op = "call", !.client = c,
                                                       !.token = token]]
          /\ \/ /\ Accepted(token, "access")
                /\ Accept(r, token.sub)
                /\ Goto(r, "user")
                /\ UNCHANGED reply
             \/ /\ ~Accepted(token, "access")
                /\ Answer(r, "NULL")
                /\ UNCHANGED <<identity, acceptedAt>>
    BY <1>9 DEF ReceiveCall
  <2>2. PICK token \in wallet[c] \cup {NoToken} :
          /\ req' = [req EXCEPT ![r] = [NoInput EXCEPT !.op = "call", !.client = c,
                                                       !.token = token]]
          /\ \/ /\ Accepted(token, "access")
                /\ Accept(r, token.sub)
                /\ Goto(r, "user")
                /\ UNCHANGED reply
             \/ /\ ~Accepted(token, "access")
                /\ Answer(r, "NULL")
                /\ UNCHANGED <<identity, acceptedAt>>
    BY <2>1
  <2>3. token \in Token \cup {NoToken}
    BY DEF TypeOK
  <2>4. req'[r] \in Input /\ req'[r].op = "call"
    BY <2>2, <2>3 DEF TypeOK, NoInput, Input
  <2>5. pc'[r] = "user" => identity'[r] \in Requests
    BY <2>2, <2>3 DEF Accept, Accepted, TypeOK, Goto, Answer, Token, NoToken
  <2>6. pc'[r] \in {"user", "done"} /\ (pc'[r] = "user" => reply'[r] = reply[r])
    BY <2>2 DEF TypeOK, Goto, Answer
  <2>7. pc[r] = "idle" /\ compares' = compares
    BY <1>9 DEF ReceiveCall
  <2> QED
    BY <1>0, <1>t, <2>4, <2>5, <2>6, <2>7 DEF Flow, FlowInv
<1>10. CASE LoadUser(r)
  BY <1>0, <1>t, <1>10 DEF LoadUser, Grant, Goto, Answer, TypeOK, Flow, FlowInv
<1>11. CASE StatementFails(r)
  BY <1>0, <1>t, <1>11 DEF StatementFails, session, Goto, Answer, TypeOK, Flow, FlowInv
<1>12. CASE RemoveUser(r)
  BY <1>0, <1>t, <1>12 DEF RemoveUser, session, limiterVars, Flow, FlowInv
<1> QED
  BY <1>1, <1>2, <1>3, <1>4, <1>5, <1>6, <1>7, <1>8, <1>9, <1>10, <1>11, <1>12 DEF Step

LEMMA GuessStep ==
    ASSUME TypeOK, LimiterInv, FlowInv, GuessInv, NEW r \in Requests, Step(r)
    PROVE  GuessInv'
<1>0. ASSUME NEW q \in Requests, q # r PROVE Guess(q)'
  BY <1>0, OthersKept DEF Kept, GuessInv, Guess
<1>t. Flow(r) /\ Guess(r) /\ LimiterTypeOK
  BY DEF FlowInv, GuessInv, TypeOK
<1> SUFFICES Guess(r)'
  BY <1>0 DEF GuessInv
<1>1. CASE ReceiveAuth(r)
  <2>1. PICK op \in AuthOperations, c \in Clients :
          /\ req'[r].client = c /\ req'[r].op = op
          /\ Goto(r, "limit")
          /\ \E forwarded \in Forwarded(c) : Lookup(r, ClientIP(forwarded, AddressOf[c]))
    <3>1. PICK op \in AuthOperations, c \in Clients : \E text, password, token :
            /\ req' = [req EXCEPT ![r] =
                  IF op = "refresh"
                  THEN [NoInput EXCEPT !.op = op, !.client = c, !.token = token]
                  ELSE [op |-> op, client |-> c, text |-> text, password |-> password,
                        token |-> NoToken]]
            /\ Goto(r, "limit")
            /\ \E forwarded \in Forwarded(c) : Lookup(r, ClientIP(forwarded, AddressOf[c]))
      BY <1>1 DEF ReceiveAuth, Limited
    <3>2. req'[r].client = c /\ req'[r].op = op
      BY <3>1 DEF TypeOK, NoInput
    <3> QED
      BY <3>1, <3>2
  <2>2. address'[r] = AddressOf[c]
    BY <1>t, <2>1, LastHop DEF Lookup, LimiterTypeOK
  <2>3. pc'[r] = "limit" /\ compares'[r] = 0 /\ reply'[r] = "NONE"
    BY <1>1, <1>t, <2>1 DEF ReceiveAuth, Goto, TypeOK, session, Flow
  <2> QED
    BY <2>1, <2>2, <2>3 DEF Guess
<1>2. CASE UseBucket(r)
  <2>1. address'[r] = address[r] /\ req' = req /\ compares'[r] = 0
    BY <1>2, <1>t DEF UseBucket, Decide, session, Flow
  <2>2. \/ verdict'[r] = "allowed" /\ pc'[r] # "limit" /\ reply'[r] = "NONE"
        \/ pc'[r] = "done" /\ reply'[r] = "RATE_LIMITED"
    BY <1>2, <1>t DEF UseBucket, FirstStep, Goto, Answer, TypeOK, Flow, Guess, AuthOperations
  <2> QED
    BY <1>2, <1>t, <2>1, <2>2 DEF UseBucket, Guess
<1>3. CASE Prepare(r)
  BY <1>t, <1>3 DEF Prepare, limiterVars, Goto, Answer, TypeOK, Flow, Guess
<1>4. CASE StoreUser(r)
  BY <1>t, <1>4 DEF StoreUser, DeliverPair, limiterVars, Goto, Answer, TypeOK, Flow, Guess
<1>5. CASE StoreUnacknowledged(r)
  BY <1>t, <1>5 DEF StoreUnacknowledged, session, limiterVars, Goto, Answer, TypeOK, Flow, Guess
<1>6. CASE FindUser(r)
  BY <1>t, <1>6 DEF FindUser, session, limiterVars, Goto, TypeOK, Flow, Guess
<1>7. CASE Compare(r)
  BY <1>t, <1>7 DEF Compare, CompareHash, Grant, limiterVars, Goto, Answer, TypeOK, Flow, Guess
<1>8. CASE ParseRefresh(r)
  BY <1>t, <1>8 DEF ParseRefresh, limiterVars, Goto, Answer, TypeOK, Flow, Guess
<1>9. CASE ReceiveCall(r)
  BY <1>t, <1>9 DEF ReceiveCall, NoInput, limiterVars, Goto, Answer, TypeOK, Flow, Guess
<1>10. CASE LoadUser(r)
  BY <1>t, <1>10 DEF LoadUser, Grant, limiterVars, Goto, Answer, TypeOK, Flow, Guess
<1>11. CASE StatementFails(r)
  BY <1>t, <1>11 DEF StatementFails, session, limiterVars, Goto, Answer, TypeOK, Flow, Guess
<1>12. CASE RemoveUser(r)
  BY <1>t, <1>12 DEF RemoveUser, session, limiterVars, Guess
<1> QED
  BY <1>1, <1>2, <1>3, <1>4, <1>5, <1>6, <1>7, <1>8, <1>9, <1>10, <1>11, <1>12 DEF Step

-----------------------------------------------------------------------------
(* Rows *)

LEMMA DoneKept ==
    ASSUME TypeOK, FlowInv, NEW r \in Requests, Step(r), NEW q \in Requests, pc[q] = "done"
    PROVE  Kept(q)
  BY OthersKept, AnswersStand

(* The only steps that touch the table. *)
LEMMA RowsChange ==
    ASSUME NEW r \in Requests, Step(r)
    PROVE  \/ users' = users /\ everStored' = everStored
           \/ /\ pc[r] = "insert" /\ ~Taken(NormalizeEmail(req[r].text)) /\ Insert(r)
              /\ \E code \in {"OK", "INTERNAL_ERROR"} : Answer(r, code)
           \/ users' = [users EXCEPT ![r] = NoUser] /\ everStored' = everStored
  BY DEF Step, ReceiveAuth, UseBucket, Prepare, StoreUser, StoreUnacknowledged, DeliverPair,
         FindUser, Compare, ParseRefresh, ReceiveCall, LoadUser, StatementFails, RemoveUser

LEMMA RowStep ==
    ASSUME TypeOK, FlowInv, RowInv, NEW r \in Requests, Step(r)
    PROVE  RowInv'
<1>1. everStored \subseteq Requests /\ everStored' \subseteq everStored \cup {r}
  BY RowsChange DEF TypeOK, Insert
<1>2. ASSUME NEW u \in everStored' PROVE pc'[u] = "done" /\ req'[u].op = "register"
  <2>1. CASE u \in everStored
    BY <2>1, <1>1, DoneKept DEF RowInv, Kept
  <2>2. CASE u \notin everStored
    <3>1. u = r /\ pc[r] = "insert" /\ pc'[r] = "done"
      BY <1>2, <2>2, RowsChange DEF Insert, Answer, Goto, TypeOK
    <3>2. req' = req
      BY <3>1 DEF Step, ReceiveAuth, UseBucket, Prepare, StoreUser, StoreUnacknowledged, FindUser,
                  Compare, ParseRefresh, ReceiveCall, LoadUser, StatementFails, RemoveUser
    <3> QED
      BY <3>1, <3>2 DEF FlowInv, Flow
  <2> QED
    BY <2>1, <2>2
<1>3. ASSUME NEW u \in Requests, users'[u] # NoUser
      PROVE  /\ u \in everStored'
             /\ users'[u] = [email |-> Normal[req'[u].text], password |-> req'[u].password]
  <2>1. CASE users'[u] = users[u]
    <3>1. u \in everStored /\ pc[u] = "done"
      BY <1>3, <2>1 DEF RowInv
    <3>2. u \in everStored' /\ req'[u] = req[u]
      BY <3>1, RowsChange, DoneKept DEF Insert, Kept
    <3> QED
      BY <1>3, <2>1, <3>2 DEF RowInv
  <2>2. CASE users'[u] # users[u]
    <3>1. u = r /\ pc[r] = "insert" /\ Insert(r)
      BY <1>3, <2>2, RowsChange DEF TypeOK, Insert
    <3>2. req' = req
      BY <3>1 DEF Step, ReceiveAuth, UseBucket, Prepare, StoreUser, StoreUnacknowledged, FindUser,
                  Compare, ParseRefresh, ReceiveCall, LoadUser, StatementFails, RemoveUser
    <3> QED
      BY <3>1, <3>2 DEF Insert, NormalizeEmail, TypeOK
  <2> QED
    BY <2>1, <2>2
<1>4. ASSUME NEW q \in Requests, found'[q] # None
      PROVE  /\ pc'[q] = "compare"
             /\ found'[q].id \in everStored'
             /\ found'[q].password = req'[found'[q].id].password
             /\ Normal[req'[found'[q].id].text] = Normal[req'[q].text]
  <2>1. CASE Kept(q)
    <3>1. found[q] # None /\ found'[q] = found[q] /\ req'[q] = req[q] /\ pc'[q] = pc[q]
      BY <1>4, <2>1 DEF Kept
    <3>2. found[q].id \in everStored /\ pc[found[q].id] = "done" /\ found[q].id \in Requests
      BY <1>1, <3>1 DEF RowInv
    <3>3. req'[found[q].id] = req[found[q].id] /\ found[q].id \in everStored'
      BY <3>2, DoneKept, RowsChange DEF Kept, Insert
    <3> QED
      BY <3>1, <3>3 DEF RowInv
  <2>2. CASE q = r /\ ~Kept(r)
    <3>1. FindUser(r)
      BY <1>4, <2>2 DEF Step, ReceiveAuth, UseBucket, Prepare, StoreUser, StoreUnacknowledged,
                  Compare, ParseRefresh, ReceiveCall, LoadUser, StatementFails, RemoveUser,
                  TypeOK, RowInv, Kept, session, limiterVars
    <3>2. PICK u \in Requests : /\ users[u].email = NormalizeEmail(req[r].text)
                                /\ found'[r] = [id |-> u, password |-> users[u].password]
      BY <1>4, <2>2, <3>1 DEF FindUser, TypeOK, RowInv
    <3>3. req[r].text \in Texts
      BY <3>1 DEF FindUser, FlowInv, Flow
    <3>4. users[u] # NoUser
      BY <3>2, <3>3, AuthAssumption DEF NormalizeEmail, NoUser
    <3>5. req' = req /\ pc'[r] = "compare" /\ everStored' = everStored
      BY <3>1 DEF FindUser, Goto, TypeOK
    <3>6. /\ u \in everStored
          /\ users[u].email = Normal[req[u].text] /\ users[u].password = req[u].password
      <4>1. u \in everStored
            /\ users[u] = [email |-> Normal[req[u].text], password |-> req[u].password]
        BY <3>4 DEF RowInv
      <4> QED
        BY <4>1
    <3>7. found'[r].id = u /\ found'[r].password = users[u].password
      BY <3>2
    <3> QED
      BY <2>2, <3>2, <3>5, <3>6, <3>7 DEF NormalizeEmail
  <2> QED
    BY <2>1, <2>2, OthersKept
<1> QED
  BY <1>2, <1>3, <1>4 DEF RowInv

LEMMA OneAccountStep ==
    ASSUME TypeOK, FlowInv, RowInv, OneAccountPerEmail, NEW r \in Requests, Step(r)
    PROVE  OneAccountPerEmail'
<1>1. CASE users' = users \/ users' = [users EXCEPT ![r] = NoUser]
  BY <1>1 DEF OneAccountPerEmail, TypeOK, NoUser
<1>2. CASE pc[r] = "insert" /\ ~Taken(NormalizeEmail(req[r].text)) /\ Insert(r)
  <2> DEFINE e == Normal[req[r].text]
  <2>1. req[r].text \in Texts
    BY <1>2 DEF FlowInv, Flow
  <2>2. e \in Texts /\ Normal[e] = e
    BY <2>1, AuthAssumption
  <2>3. users'[r].email = e /\ \A u \in Requests : u # r => users'[u] = users[u]
    BY <1>2 DEF Insert, NormalizeEmail, TypeOK
  <2>4. \A u \in Requests : users[u].email # e
    BY <1>2 DEF Taken, NormalizeEmail
  <2>5. \A u \in Requests : users[u] # NoUser => Normal[users[u].email] = users[u].email
    BY DEF OneAccountPerEmail
  <2> QED
    BY <2>2, <2>3, <2>4, <2>5 DEF OneAccountPerEmail
<1> QED
  BY <1>1, <1>2, RowsChange

-----------------------------------------------------------------------------
(* Sessions *)

LEMMA SessionKept ==
    ASSUME TypeOK, FlowInv, NEW r \in Requests, Step(r),
           NEW s \in Requests, NEW c, NEW u, Opened(s, c, u)
    PROVE  Opened(s, c, u)' /\ req'[s] = req[s] /\ issuedAt'[s] = issuedAt[s]
<1>1. pc[s] = "done"
  BY DEF Opened, FlowInv, Flow
<1> QED
  BY <1>1, DoneKept DEF Kept, Opened

LEMMA ProvedKept ==
    ASSUME TypeOK, FlowInv, RowInv, NEW r \in Requests, Step(r),
           NEW c, NEW u \in everStored, Proved(c, u)
    PROVE  Proved(c, u)'
<1>1. PICK s \in Requests :
          /\ Opened(s, c, u)
          /\ req[s].op \in {"register", "login"}
          /\ req[s].password = req[u].password
          /\ Normal[req[s].text] = Normal[req[u].text]
  BY DEF Proved
<1>2. Opened(s, c, u)' /\ req'[s] = req[s]
  BY <1>1, SessionKept
<1>3. req'[u] = req[u]
  BY DoneKept DEF RowInv, TypeOK, Kept
<1> QED
  BY <1>1, <1>2, <1>3 DEF Proved

LEMMA BackedKept ==
    ASSUME TypeOK, FlowInv, NEW r \in Requests, Step(r),
           NEW c, NEW u, NEW ttl, NEW exp, Backed(c, u, ttl, exp)
    PROVE  Backed(c, u, ttl, exp)'
<1>1. PICK s \in Requests : Opened(s, c, u) /\ exp * Second <= issuedAt[s] + ttl
  BY DEF Backed
<1>2. Opened(s, c, u)' /\ issuedAt'[s] = issuedAt[s]
  BY <1>1, SessionKept
<1> QED
  BY <1>1, <1>2 DEF Backed

(* r hands its client a pair of tokens for u made at t. *)
Opens(r, u, t) ==
    /\ wallet' = [wallet EXCEPT ![req[r].client] = @ \cup Pair(u, t)]
    /\ req' = req
    /\ reply'[r] = "OK" /\ user'[r] = u /\ issuedAt'[r] = t
    /\ \/ pc[r] = "insert" /\ u = r /\ r \in everStored'
       \/ pc[r] = "compare" /\ Matches(r) /\ u = found[r].id
       \/ pc[r] = "user" /\ req[r].op = "refresh" /\ u = identity[r]

LEMMA WalletChange ==
    ASSUME TypeOK, LimiterInv, FlowInv, NEW r \in Requests, Step(r), wallet' # wallet
    PROVE  \E u \in Requests, t \in Nat : Opens(r, u, t)
<1>1. now \in Nat
  BY DEF LimiterInv, LimiterTypeOK
<1>2. \/ StoreUser(r) /\ DeliverPair(r) /\ Insert(r)
      \/ Compare(r) /\ Matches(r) /\ Grant(r, found[r].id)
      \/ LoadUser(r) /\ req[r].op = "refresh" /\ Grant(r, identity[r])
  BY DEF Step, ReceiveAuth, UseBucket, Prepare, StoreUser, StoreUnacknowledged, FindUser, Compare,
         ParseRefresh, ReceiveCall, LoadUser, StatementFails, RemoveUser
<1>3. CASE StoreUser(r) /\ DeliverPair(r) /\ Insert(r)
  <2>1. Opens(r, r, issuedAt[r]) /\ issuedAt[r] \in Nat
    BY <1>3 DEF StoreUser, DeliverPair, Insert, Answer, TypeOK, Opens
  <2> QED
    BY <2>1
<1>4. CASE Compare(r) /\ Matches(r) /\ Grant(r, found[r].id)
  <2>1. Opens(r, found[r].id, now) /\ found[r].id \in Requests
    BY <1>4 DEF Compare, Matches, Grant, Answer, TypeOK, Opens
  <2> QED
    BY <1>1, <2>1
<1>5. CASE LoadUser(r) /\ req[r].op = "refresh" /\ Grant(r, identity[r])
  <2>1. Opens(r, identity[r], now) /\ identity[r] \in Requests
    BY <1>5 DEF LoadUser, Grant, Answer, TypeOK, Opens, FlowInv, Flow
  <2> QED
    BY <1>1, <2>1
<1> QED
  BY <1>2, <1>3, <1>4, <1>5

LEMMA NewSession ==
    ASSUME AuthInv, NEW r \in Requests, Step(r), NEW u \in Requests, NEW t \in Nat,
           Opens(r, u, t), NEW c \in Clients, c = req[r].client
    PROVE  /\ u \in everStored'
           /\ Opened(r, c, u)'
           /\ Proved(c, u)'
<1> USE DEF AuthInv
<1>1. everStored \subseteq everStored'
  BY RowsChange DEF Insert
<1>2. req' = req /\ reply'[r] = "OK" /\ user'[r] = u
  BY DEF Opens
<1>3. CASE pc[r] = "insert" /\ u = r /\ r \in everStored'
  <2>1. req[r].op = "register"
    BY <1>3 DEF FlowInv, Flow
  <2>2. Opened(r, c, u)'
    BY <1>2, <2>1 DEF Opened
  <2> QED
    BY <1>2, <1>3, <2>1, <2>2 DEF Proved
<1>4. CASE pc[r] = "compare" /\ Matches(r) /\ u = found[r].id
  <2>1. req[r].op = "login"
    BY <1>4 DEF FlowInv, Flow
  <2>2. Opened(r, c, u)'
    BY <1>2, <2>1 DEF Opened
  <2>3. /\ u \in everStored /\ req[r].password = req[u].password
        /\ Normal[req[r].text] = Normal[req[u].text]
    BY <1>4 DEF Matches, RowInv
  <2> QED
    BY <1>1, <1>2, <2>1, <2>2, <2>3 DEF Proved
<1>5. CASE pc[r] = "user" /\ req[r].op = "refresh" /\ u = identity[r]
  <2>1. Opened(r, c, u)'
    BY <1>2, <1>5 DEF Opened
  <2>2. identity[r] # None
    BY <1>5, LimiterAssumption
  <2>3. u \in everStored
    BY <1>5, <2>2 DEF TokenInv
  <2>4. Proved(c, u)
    BY <1>5, <2>2 DEF CallerHasProved, Proved
  <2> QED
    BY <1>1, <2>1, <2>3, <2>4, ProvedKept
<1> QED
  BY <1>3, <1>4, <1>5 DEF Opens

(* A token that is accepted is one its client holds. *)
LEMMA Acceptance ==
    ASSUME AuthInv, NEW r \in Requests, Step(r), identity'[r] # identity[r]
    PROVE  \E c \in Clients : \E token \in wallet[c] :
              /\ req'[r].client = c
              /\ identity'[r] = token.sub /\ acceptedAt'[r] = now
              /\ pc'[r] = "user" /\ wallet' = wallet /\ everStored' = everStored
              /\ now < token.exp * Second
              /\ Life(token.typ) = TTL(req'[r].op)
<1> USE DEF AuthInv
<1>1. ParseRefresh(r) \/ ReceiveCall(r)
  BY DEF Step, ReceiveAuth, UseBucket, Prepare, StoreUser, StoreUnacknowledged, FindUser, Compare,
         LoadUser, StatementFails, RemoveUser, session
<1>2. CASE ParseRefresh(r)
  <2> DEFINE c == req[r].client
             token == req[r].token
  <2>1. /\ Accepted(token, "refresh") /\ Accept(r, token.sub) /\ Goto(r, "user")
        /\ req' = req /\ wallet' = wallet /\ everStored' = everStored
    BY <1>2 DEF ParseRefresh
  <2>2. c \in Clients /\ req[r].op = "refresh"
    BY <1>2, InputFacts DEF ParseRefresh, FlowInv, Flow
  <2>3. token # NoToken
    BY <2>1 DEF Accepted, NoToken
  <2>4. token \in wallet[c]
    BY <2>2, <2>3 DEF TokenInv
  <2>5. /\ identity'[r] = token.sub /\ acceptedAt'[r] = now /\ pc'[r] = "user"
        /\ now < token.exp * Second /\ token.typ = "refresh"
    BY <2>1 DEF Accept, Accepted, Goto, TypeOK
  <2> QED
    BY <2>1, <2>2, <2>4, <2>5 DEF Life, TTL
<1>3. CASE ReceiveCall(r)
  <2>1. PICK c \in Clients : \E token \in wallet[c] \cup {NoToken} :
          /\ req' = [req EXCEPT ![r] = [NoInput EXCEPT !.op = "call", !.client = c,
                                                       !.token = token]]
          /\ Accepted(token, "access") /\ Accept(r, token.sub) /\ Goto(r, "user")
    BY <1>3 DEF ReceiveCall
  <2>2. PICK token \in wallet[c] \cup {NoToken} :
          /\ req' = [req EXCEPT ![r] = [NoInput EXCEPT !.op = "call", !.client = c,
                                                       !.token = token]]
          /\ Accepted(token, "access") /\ Accept(r, token.sub) /\ Goto(r, "user")
    BY <2>1
  <2>3. token \in wallet[c]
    BY <2>2 DEF Accepted, NoToken
  <2>4. req'[r].client = c /\ req'[r].op = "call"
    BY <2>2 DEF TypeOK, NoInput
  <2>5. /\ identity'[r] = token.sub /\ acceptedAt'[r] = now /\ pc'[r] = "user"
        /\ now < token.exp * Second /\ token.typ = "access"
    BY <2>2 DEF Accept, Accepted, Goto, TypeOK
  <2>6. wallet' = wallet /\ everStored' = everStored
    BY <1>3 DEF ReceiveCall
  <2> QED
    BY <2>3, <2>4, <2>5, <2>6 DEF Life, TTL
<1> QED
  BY <1>1, <1>2, <1>3

(* What a request asks for changes only when it arrives; a refresh presents a token of its own. *)
LEMMA Arrival ==
    ASSUME AuthInv, NEW r \in Requests, Step(r), req'[r] # req[r]
    PROVE  /\ pc[r] = "idle" /\ wallet' = wallet
           /\ req'[r].op = "refresh" /\ req'[r].token # NoToken =>
                  req'[r].token \in wallet[req'[r].client]
<1>1. ReceiveAuth(r) \/ ReceiveCall(r)
  BY DEF Step, UseBucket, Prepare, StoreUser, StoreUnacknowledged, FindUser, Compare,
         ParseRefresh, LoadUser, StatementFails, RemoveUser, session
<1>2. CASE ReceiveAuth(r)
  <2>1. PICK op \in AuthOperations, c \in Clients : \E text, password, token :
          /\ op = "refresh" => token \in wallet[c] \cup {NoToken}
          /\ req' = [req EXCEPT ![r] =
                IF op = "refresh"
                THEN [NoInput EXCEPT !.op = op, !.client = c, !.token = token]
                ELSE [op |-> op, client |-> c, text |-> text, password |-> password,
                      token |-> NoToken]]
    BY <1>2 DEF ReceiveAuth
  <2> QED
    BY <1>2, <2>1 DEF ReceiveAuth, AuthInv, TypeOK, NoInput
<1>3. CASE ReceiveCall(r)
  BY <1>3 DEF ReceiveCall, AuthInv, TypeOK, NoInput
<1> QED
  BY <1>1, <1>2, <1>3

LEMMA TokenStep ==
    ASSUME AuthInv, NEW r \in Requests, Step(r)
    PROVE  TokenInv'
<1> USE DEF AuthInv
<1>0. everStored \subseteq everStored'
  BY RowsChange DEF Insert
<1>1. ASSUME NEW c \in Clients, NEW token \in wallet'[c]
      PROVE  /\ token.sub \in everStored'
             /\ Proved(c, token.sub)'
             /\ Backed(c, token.sub, Life(token.typ), token.exp)'
  <2>1. CASE token \in wallet[c]
    BY <1>0, <2>1, ProvedKept, BackedKept DEF TokenInv
  <2>2. CASE token \notin wallet[c]
    <3>1. PICK u \in Requests, t \in Nat : Opens(r, u, t)
      BY <1>1, <2>2, WalletChange
    <3>2. c = req[r].client /\ token \in Pair(u, t)
      BY <1>1, <2>2, <3>1 DEF Opens, TypeOK
    <3>3. token.sub = u /\ token.exp * Second <= t + Life(token.typ)
      BY <3>2, PairFacts
    <3>4. u \in everStored' /\ Opened(r, c, u)' /\ Proved(c, u)' /\ issuedAt'[r] = t
      BY <3>1, <3>2, NewSession DEF Opens
    <3> QED
      BY <3>3, <3>4 DEF Backed
  <2> QED
    BY <2>1, <2>2
<1>2. ASSUME NEW q \in Requests, req'[q].op = "refresh", req'[q].token # NoToken
      PROVE  req'[q].token \in wallet'[req'[q].client]
  <2>1. CASE req'[q] = req[q]
    <3>1. req[q].token \in wallet[req[q].client]
      BY <1>2, <2>1 DEF TokenInv
    <3>2. req[q].client \in Clients
      BY <1>2, <2>1, InputFacts, DistinctValues DEF FlowInv, Flow
    <3>3. \A k \in Clients : wallet[k] \subseteq wallet'[k]
      BY WalletChange DEF Opens, TypeOK
    <3> QED
      BY <2>1, <3>1, <3>2, <3>3
  <2>2. CASE req'[q] # req[q]
    <3>1. q = r
      BY <2>2, OthersKept DEF Kept
    <3> QED
      BY <1>2, <2>2, <3>1, Arrival
  <2> QED
    BY <2>1, <2>2
<1>3. ASSUME NEW q \in Requests, identity'[q] # None
      PROVE  pc'[q] \in {"user", "done"} /\ identity'[q] \in everStored'
  <2>1. CASE identity'[q] = identity[q]
    <3>1. pc[q] \in {"user", "done"} /\ identity[q] \in everStored
      BY <1>3, <2>1 DEF TokenInv
    <3>2. CASE Kept(q)
      BY <1>0, <2>1, <3>1, <3>2 DEF Kept
    <3>3. CASE ~Kept(q)
      <4>1. q = r /\ pc[r] = "user"
        BY <3>1, <3>3, OthersKept, DoneKept
      <4>2. pc'[r] \in {"user", "done"}
        BY <4>1 DEF Step, ReceiveAuth, UseBucket, Prepare, StoreUser, StoreUnacknowledged, FindUser,
               Compare, ParseRefresh, ReceiveCall, LoadUser, StatementFails, RemoveUser, Grant,
               Answer, Goto, TypeOK
      <4> QED
        BY <1>0, <2>1, <3>1, <4>1, <4>2
    <3> QED
      BY <3>2, <3>3
  <2>2. CASE identity'[q] # identity[q]
    <3>1. q = r
      BY <2>2, OthersKept DEF Kept
    <3>2. PICK c \in Clients : \E token \in wallet[c] :
              identity'[r] = token.sub /\ pc'[r] = "user" /\ everStored' = everStored
      BY <2>2, <3>1, Acceptance
    <3> QED
      BY <3>1, <3>2 DEF TokenInv
  <2> QED
    BY <2>1, <2>2
<1> QED
  BY <1>1, <1>2, <1>3 DEF TokenInv

LEMMA CallerStep ==
    ASSUME AuthInv, NEW r \in Requests, Step(r)
    PROVE  CallerHasProved'
<1> USE DEF AuthInv
<1> SUFFICES ASSUME NEW q \in Requests, NEW c, NEW u, c = req'[q].client, u = identity'[q], u # None
             PROVE  /\ Proved(c, u)'
                    /\ \E s \in Requests :
                          Opened(s, c, u)' /\ acceptedAt'[q] - issuedAt'[s] < TTL(req'[q].op)
  BY DEF CallerHasProved, Proved
<1>1. CASE identity'[q] = identity[q]
  <2>1. pc[q] \in {"user", "done"} /\ u \in everStored
    BY <1>1 DEF TokenInv
  <2>2. req'[q] = req[q] /\ acceptedAt'[q] = acceptedAt[q]
    <3>1. CASE Kept(q)
      BY <3>1 DEF Kept
    <3>2. CASE ~Kept(q)
      <4>1. q = r /\ pc[r] = "user"
        BY <2>1, <3>2, OthersKept, DoneKept
      <4> QED
        BY <4>1 DEF Step, ReceiveAuth, UseBucket, Prepare, StoreUser, StoreUnacknowledged, FindUser,
               Compare, ParseRefresh, ReceiveCall, LoadUser, StatementFails, RemoveUser, session
    <3> QED
      BY <3>1, <3>2
  <2>3. Proved(c, u)
    BY <1>1, <2>2 DEF CallerHasProved, Proved
  <2>4. PICK s \in Requests : Opened(s, c, u) /\ acceptedAt[q] - issuedAt[s] < TTL(req[q].op)
    BY <1>1, <2>2 DEF CallerHasProved
  <2>5. Opened(s, c, u)' /\ issuedAt'[s] = issuedAt[s]
    BY <2>4, SessionKept
  <2> QED
    BY <2>1, <2>2, <2>3, <2>4, <2>5, ProvedKept
<1>2. CASE identity'[q] # identity[q]
  <2>1. q = r
    BY <1>2, OthersKept DEF Kept
  <2>2. c \in Clients /\ \E token \in wallet[c] :
            /\ u = token.sub /\ acceptedAt'[r] = now /\ now < token.exp * Second
            /\ Life(token.typ) = TTL(req'[r].op)
    BY <1>2, <2>1, Acceptance
  <2>3. PICK token \in wallet[c] :
            /\ u = token.sub /\ acceptedAt'[r] = now /\ now < token.exp * Second
            /\ Life(token.typ) = TTL(req'[r].op)
    BY <2>2
  <2>4. u \in everStored /\ Proved(c, u) /\ Backed(c, u, Life(token.typ), token.exp)
    BY <2>2, <2>3 DEF TokenInv
  <2>5. PICK s \in Requests : Opened(s, c, u) /\ token.exp * Second <= issuedAt[s] + Life(token.typ)
    BY <2>4 DEF Backed
  <2>6. Opened(s, c, u)' /\ issuedAt'[s] = issuedAt[s]
    BY <2>5, SessionKept
  <2>7. now \in Nat /\ issuedAt[s] \in Nat /\ Life(token.typ) \in Nat /\ token.exp * Second \in Nat
    <3>1. token.exp \in Nat
      BY <2>2 DEF TypeOK, Token
    <3> QED
      BY <3>1, AuthAssumption DEF LimiterInv, LimiterTypeOK, TypeOK, Life
  <2>8. now - issuedAt[s] < Life(token.typ)
    BY <2>3, <2>5, <2>7
  <2> QED
    BY <2>1, <2>3, <2>4, <2>6, <2>8, ProvedKept
<1> QED
  BY <1>1, <1>2

LEMMA NoSessionStep ==
    ASSUME AuthInv, NEW r \in Requests, Step(r), TokenInv'
    PROVE  NoSessionWithoutAccount'
<1> USE DEF AuthInv
<1>1. \A c \in Clients : \A token \in wallet'[c] : token.sub \in everStored'
  BY DEF TokenInv
<1>2. ASSUME NEW q \in Requests, req'[q].op = "register", reply'[q] = "OK"
      PROVE  q \in everStored'
  <2>1. CASE Kept(q)
    BY <1>2, <2>1, RowsChange DEF Kept, NoSessionWithoutAccount, Insert
  <2>2. CASE ~Kept(q)
    <3>1. q = r /\ pc[r] # "done"
      BY <2>2, OthersKept, DoneKept
    <3>2. reply[r] = "NONE"
      BY <3>1 DEF FlowInv, Flow
    <3>3. StoreUser(r) \/ Compare(r) \/ LoadUser(r)
      BY <1>2, <3>1, <3>2 DEF Step, ReceiveAuth, UseBucket, Prepare, StoreUnacknowledged, FindUser,
            ParseRefresh, ReceiveCall, StatementFails, RemoveUser, Answer, TypeOK
    <3>4. StoreUser(r)
      BY <1>2, <3>1, <3>3 DEF Compare, LoadUser, FlowInv, Flow
    <3> QED
      BY <1>2, <3>1, <3>4 DEF StoreUser, Insert, Answer, TypeOK
  <2> QED
    BY <2>1, <2>2
<1>3. ASSUME NEW q \in Requests, reply'[q] = "EMAIL_ALREADY_REGISTERED"
      PROVE  q \notin everStored'
  <2>1. CASE Kept(q)
    <3>1. pc[q] = "done" /\ q \notin everStored
      BY <1>3, <2>1 DEF Kept, FlowInv, Flow, NoSessionWithoutAccount
    <3> QED
      BY <3>1, RowsChange DEF Insert
  <2>2. CASE ~Kept(q)
    <3>1. q = r /\ pc[r] # "done"
      BY <2>2, OthersKept, DoneKept
    <3>2. reply[r] = "NONE" /\ r \notin everStored
      BY <3>1 DEF FlowInv, Flow, RowInv
    <3>3. StoreUser(r)
      BY <1>3, <3>1, <3>2 DEF Step, ReceiveAuth, UseBucket, Prepare, StoreUnacknowledged, FindUser,
            Compare, ParseRefresh, ReceiveCall, LoadUser, StatementFails, RemoveUser, Grant,
            Answer, TypeOK
    <3> QED
      BY <1>3, <3>1, <3>2, <3>3 DEF StoreUser, DeliverPair, Answer, TypeOK
  <2> QED
    BY <2>1, <2>2
<1> QED
  BY <1>1, <1>2, <1>3 DEF NoSessionWithoutAccount

-----------------------------------------------------------------------------
(* The theorems *)

LEMMA AuthInitially == Init => AuthInv
<1> SUFFICES ASSUME Init PROVE AuthInv
  OBVIOUS
<1>1. LimiterInv
  BY LimiterInitially DEF Init
<1>2. TypeOK
  BY <1>1 DEF Init, TypeOK, LimiterInv
<1>3. FlowInv /\ GuessInv
  BY DistinctValues DEF Init, LimiterInit, FlowInv, Flow, GuessInv, Guess, NoInput, AuthOperations
<1>4. RowInv /\ TokenInv
  BY DEF Init, RowInv, TokenInv, NoInput
<1>5. OneAccountPerEmail /\ NoSessionWithoutAccount /\ CallerHasProved
  BY DEF Init, OneAccountPerEmail, NoSessionWithoutAccount, CallerHasProved, NoInput
<1> QED
  BY <1>1, <1>2, <1>3, <1>4, <1>5 DEF AuthInv

LEMMA AuthInvStep == AuthInv /\ [Next]_vars => AuthInv'
<1> SUFFICES ASSUME AuthInv, [Next]_vars PROVE AuthInv'
  OBVIOUS
<1>1. ASSUME NEW r \in Requests, Step(r) PROVE AuthInv'
  <2>1. Next
    BY <1>1 DEF Next, Step
  <2>2. TypeOK' /\ LimiterInv'
    BY <2>1, AuthTypeStep, NextLimits, LimiterInvStep DEF AuthInv
  <2>3. FlowInv' /\ GuessInv' /\ RowInv' /\ OneAccountPerEmail'
    BY <1>1, FlowStep, GuessStep, RowStep, OneAccountStep DEF AuthInv
  <2>4. TokenInv' /\ CallerHasProved'
    BY <1>1, TokenStep, CallerStep
  <2>5. NoSessionWithoutAccount'
    BY <1>1, <2>4, NoSessionStep
  <2> QED
    BY <2>2, <2>3, <2>4, <2>5 DEF AuthInv
<1>2. CASE (Advance \/ UNCHANGED vars)
  <2>1. TypeOK' /\ LimiterInv'
    <3>1. [LimiterNext]_limiterVars
      BY <1>2 DEF Advance, LimiterNext, vars
    <3>2. LimiterInv'
      BY <3>1, LimiterInvStep DEF AuthInv
    <3> QED
      BY <1>2, <3>2 DEF Advance, vars, authVars, session, AuthInv, TypeOK, LimiterInv
  <2>2. UNCHANGED authVars /\ address' = address /\ verdict' = verdict
    BY <1>2 DEF Advance, Tick, vars, limiterVars
  <2>3. FlowInv' /\ GuessInv' /\ RowInv'
    BY <2>2 DEF AuthInv, authVars, session, FlowInv, Flow, GuessInv, Guess, RowInv
  <2>4. TokenInv'
    BY <2>2 DEF AuthInv, authVars, session, TokenInv, Proved, Backed, Opened
  <2>5. OneAccountPerEmail' /\ NoSessionWithoutAccount' /\ CallerHasProved'
    BY <2>2 DEF AuthInv, authVars, session, OneAccountPerEmail, NoSessionWithoutAccount,
                CallerHasProved, Opened
  <2> QED
    BY <2>1, <2>3, <2>4, <2>5 DEF AuthInv
<1> QED
  BY <1>1, <1>2 DEF Next, Step

LEMMA AuthInvAlways == Spec => []AuthInv
  BY AuthInitially, AuthInvStep, PTL DEF Spec

(* The types of the variables of Auth: no answer, token or session names an id that was never made. *)
THEOREM AuthTypes == Spec => []TypeOK
<1>1. AuthInv => TypeOK
  BY DEF AuthInv
<1> QED
  BY <1>1, AuthInvAlways, PTL

(* Registration, login and refresh use the limiter as its specification says: no step of theirs
   does to it what Allow (ratelimit.go:34-44) would not. *)
THEOREM AuthImplementsLimiter == Spec => LimiterSpec
<1>1. Init => LimiterInit
  BY DEF Init
<1>2. [Next]_vars => [LimiterNext]_limiterVars
  BY NextLimits DEF vars, limiterVars
<1> QED
  BY <1>1, <1>2, PTL DEF Spec, LimiterSpec

(* Racing registrations (auth_usecase.go:50-78) never give one email two accounts, whatever the
   spellings of it. *)
THEOREM OneAccountTheorem == Spec => []OneAccountPerEmail
<1>1. AuthInv => OneAccountPerEmail
  BY DEF AuthInv
<1> QED
  BY <1>1, AuthInvAlways, PTL

(* A pair of tokens made before its user is stored (auth_usecase.go:67-76) never reaches a client
   unless the user was. *)
THEOREM NoSessionTheorem == Spec => []NoSessionWithoutAccount
<1>1. AuthInv => NoSessionWithoutAccount
  BY DEF AuthInv
<1> QED
  BY <1>1, AuthInvAlways, PTL

(* Whoever acts for a user has shown the password of that account, in a session younger than the
   life of a token of that role (jwt.go:62-101, auth_usecase.go:82-121). *)
THEOREM CallerTheorem == Spec => []CallerHasProved
<1>1. AuthInv => CallerHasProved
  BY DEF AuthInv
<1> QED
  BY <1>1, AuthInvAlways, PTL

(* Every verdict of login on the credentials costs one comparison (auth_usecase.go:80-96). *)
THEOREM LoginTheorem == Spec => []LoginTellsNothing
<1>1. AuthInv => LoginTellsNothing
  BY DEF AuthInv, GuessInv, Guess, LoginTellsNothing
<1> QED
  BY <1>1, AuthInvAlways, PTL

(* The comparisons made for an address are among the requests the limiter granted it, so its
   window bound is a bound on them (schema.resolvers.go:32-35, ratelimit.go:34-44). *)
THEOREM GuessesTheorem == Spec => []GuessesBounded
<1>1. AuthInv /\ WindowBound => GuessesBounded
  <2> SUFFICES ASSUME AuthInv, WindowBound, NEW a \in Addresses
               PROVE  (Cardinality({r \in Requests : compares[r] > 0 /\ AddressOf[req[r].client] = a})
                          - Burst) * Interval <= now
    BY DEF GuessesBounded
  <2> DEFINE guesses == {r \in Requests : compares[r] > 0 /\ AddressOf[req[r].client] = a}
             m == Cardinality(guesses)
             n == Count(a, 0, now)
  <2>1. now \in Nat /\ \A r \in Requests : decidedAt[r] \in 0..now
    BY DEF AuthInv, LimiterInv, LimiterTypeOK, TimeInv
  <2>2. guesses \subseteq Granted(a, 0, now)
    BY <2>1 DEF AuthInv, GuessInv, Guess, Granted
  <2>3. IsFiniteSet(Granted(a, 0, now)) /\ n \in Nat
    BY CountFacts
  <2>4. m \in Nat /\ m <= n
    BY <2>2, <2>3, FS_Subset, FS_CardinalityType DEF Count
  <2>5. (n - Burst) * Interval <= now
    BY <2>1 DEF WindowBound, Count
  <2>6. m * Interval <= n * Interval
    BY <2>3, <2>4, InProportion
  <2>7. /\ (m - Burst) * Interval = m * Interval - Capacity
        /\ (n - Burst) * Interval = n * Interval - Capacity
        /\ m * Interval \in Nat /\ n * Interval \in Nat
    BY <2>3, <2>4, Expand, RateFacts
  <2> QED
    BY <2>1, <2>5, <2>6, <2>7, RateFacts
<1> QED
  BY <1>1, AuthInvAlways, AuthImplementsLimiter, WindowBoundTheorem, PTL

=============================================================================
