--------------------------------- MODULE Auth ---------------------------------
(***************************************************************************)
(* Accounts and sessions: the mutations register, login and refreshToken   *)
(* (internal/usecase/auth_usecase.go) behind the rate limiter, and any     *)
(* other operation, which acts for the user its access token names         *)
(* (delivery/graphql/middleware/auth.go).  A step is one SQL statement, or *)
(* one use of the limiter, with the Go code that follows it.               *)
(*                                                                         *)
(* Passwords stand for their hashes and tokens for their claims: bcrypt    *)
(* and HMAC-SHA256 are ideal, so a client can only present tokens that it  *)
(* was given.  newID() of request r is r itself.                           *)
(***************************************************************************)
EXTENDS RateLimiter, Sequences

CONSTANTS
    Clients,          \* who sends requests
    AddressOf,        \* the address each client connects from
    Texts,            \* what clients may write as an email, and the canonical forms of it
    Normal,           \* the canonical form of each text
    Emails,           \* the texts that are well-formed emails
    Written,          \* bound: the texts the clients of a run write
    Passwords,        \* what clients may write as a password
    GoodPasswords,    \* those the policy accepts
    Second,           \* the ticks of a second
    AccessTTL,        \* the life of an access token, in ticks
    RefreshTTL        \* the life of a refresh token, in ticks

ASSUME AuthAssumption ==
    /\ AddressOf \in [Clients -> Addresses]
    /\ Emails \subseteq Texts /\ Written \subseteq Texts
    /\ Normal \in [Texts -> Texts] /\ \A text \in Texts : Normal[Normal[text]] = Normal[text]
    /\ GoodPasswords \subseteq Passwords
    /\ Second \in Nat \ {0} /\ AccessTTL \in Nat /\ RefreshTTL \in Nat
    /\ None \notin Clients \cup Texts \cup Passwords

VARIABLES
    users,       \* the rows of users, by id
    wallet,      \* the tokens each client has been given
    pc,          \* where each request is
    req,         \* what each request asks for
    found,       \* the row a login has read
    issuedAt,    \* when a request made its pair of tokens
    user,        \* the user an answer is about
    identity,    \* the user a token was accepted for
    acceptedAt,  \* when that was (history)
    compares,    \* the bcrypt comparisons made for each request
    reply,       \* what each request answers
    everStored   \* the ids that have had a row (history)

session == <<issuedAt, user, identity, acceptedAt, compares>>
authVars == <<users, wallet, pc, req, found, session, reply, everStored>>
vars == <<limiterVars, authVars>>

-----------------------------------------------------------------------------
(* Data *)

User == [email : Texts, password : Passwords]
NoUser == [email |-> None, password |-> None]

Token == [sub : Requests, typ : {"access", "refresh"}, exp : Nat]
NoToken == [sub |-> None, typ |-> "none", exp |-> 0]

AuthOperations == {"register", "login", "refresh"}

Input == [op : AuthOperations \cup {"call"}, client : Clients, text : Texts \cup {None},
          password : Passwords \cup {None}, token : Token \cup {NoToken}]

NoInput == [op |-> "none", client |-> None, text |-> None, password |-> None,
            token |-> NoToken]

Errors == {"RATE_LIMITED", "INVALID_EMAIL", "INVALID_PASSWORD", "EMAIL_ALREADY_REGISTERED",
           "INVALID_CREDENTIALS", "UNAUTHENTICATED", "INTERNAL_ERROR"}

(* Variant: the email is kept as it was written. *)
AsWritten(text) == text

NormalizeEmail(text) == Normal[text]

(* The expiry is a number of seconds: the part of a second is cut off. *)
Issue(u, typ, t, ttl) == [sub |-> u, typ |-> typ, exp |-> (t + ttl) \div Second]

(* issueTokens for u at time t. *)
Pair(u, t) == {Issue(u, "access", t, AccessTTL), Issue(u, "refresh", t, RefreshTTL)}

(* Variant: the claim typ is not looked at. *)
AnyLiveToken(token, typ) == token.sub # None /\ now < token.exp * Second

(* JWTService.parse. *)
Accepted(token, typ) == token.sub # None /\ token.typ = typ /\ now < token.exp * Second

Goto(r, label) == pc' = [pc EXCEPT ![r] = label]

Answer(r, code) == Goto(r, "done") /\ reply' = [reply EXCEPT ![r] = code]

(* The answer carries a pair of tokens for u made at this instant. *)
Grant(r, u) ==
    /\ wallet' = [wallet EXCEPT ![req[r].client] = @ \cup Pair(u, now)]
    /\ issuedAt' = [issuedAt EXCEPT ![r] = now]
    /\ user' = [user EXCEPT ![r] = u]
    /\ Answer(r, "OK")

-----------------------------------------------------------------------------

Init ==
    /\ LimiterInit
    /\ users = [u \in Requests |-> NoUser]
    /\ wallet = [c \in Clients |-> {}]
    /\ pc = [r \in Requests |-> "idle"]
    /\ req = [r \in Requests |-> NoInput]
    /\ found = [r \in Requests |-> None]
    /\ issuedAt = [r \in Requests |-> 0]
    /\ user = [r \in Requests |-> None]
    /\ identity = [r \in Requests |-> None]
    /\ acceptedAt = [r \in Requests |-> 0]
    /\ compares = [r \in Requests |-> 0]
    /\ reply = [r \in Requests |-> "NONE"]
    /\ everStored = {}

-----------------------------------------------------------------------------
(* A request arrives, and the limiter *)

(* Variant: the resolver of login does not call allowAuth. *)
LimitedButLogin == {"register", "refresh"}

Limited == AuthOperations

FirstStep(op) ==
    CASE op = "register" -> "prepare" [] op = "login" -> "find" [] op = "refresh" -> "parse"

(* X-Forwarded-For as the server gets it: what the client claims, if anything, and then what the
   proxy saw; no values at all if the request came without a proxy. *)
Forwarded(c) == {<<claimed, AddressOf[c]>> : claimed \in Addresses} \cup {<<AddressOf[c]>>, << >>}

(* The last value of the header or, without a header, the address of the peer. *)
ClientIP(forwarded, remoteAddr) ==
    IF forwarded = << >> THEN remoteAddr ELSE forwarded[Len(forwarded)]

(* The request arrives, and its resolver calls allowAuth before anything else. *)
ReceiveAuth(r) ==
    /\ pc[r] = "idle"
    /\ \E op \in AuthOperations, c \in Clients, text \in Written, password \in Passwords,
          token \in (UNION {wallet[c] : c \in Clients}) \cup {NoToken} :
          /\ op = "refresh" => token \in wallet[c] \cup {NoToken}
          /\ op # "refresh" => token = NoToken
          /\ req' = [req EXCEPT ![r] =
                IF op = "refresh"
                THEN [NoInput EXCEPT !.op = op, !.client = c, !.token = token]
                ELSE [op |-> op, client |-> c, text |-> text, password |-> password,
                      token |-> NoToken]]
          /\ IF op \in Limited
             THEN Goto(r, "limit") /\ \E forwarded \in Forwarded(c) :
                      Lookup(r, ClientIP(forwarded, AddressOf[c]))
             ELSE UNCHANGED limiterVars /\ Goto(r, FirstStep(op))
    /\ UNCHANGED <<users, wallet, found, session, reply, everStored>>

UseBucket(r) ==
    /\ pc[r] = "limit"
    /\ Decide(r)
    /\ \/ /\ verdict'[r] = "allowed"
          /\ Goto(r, FirstStep(req[r].op))
          /\ UNCHANGED reply
       \/ /\ verdict'[r] = "refused"
          /\ Answer(r, "RATE_LIMITED")
    /\ UNCHANGED <<users, wallet, req, found, session, everStored>>

-----------------------------------------------------------------------------
(* register *)

ValidateEmail(text) == text \in Emails

ValidatePassword(password) == password \in GoodPasswords

(* Validation, hash and tokens: all in memory, before anything is stored. *)
Prepare(r) ==
    /\ pc[r] = "prepare"
    /\ \/ /\ ~ValidateEmail(NormalizeEmail(req[r].text))
          /\ Answer(r, "INVALID_EMAIL")
          /\ UNCHANGED issuedAt
       \/ /\ ValidateEmail(NormalizeEmail(req[r].text))
          /\ \/ /\ ~ValidatePassword(req[r].password)
                /\ Answer(r, "INVALID_PASSWORD")
                /\ UNCHANGED issuedAt
             \/ /\ ValidatePassword(req[r].password)
                /\ issuedAt' = [issuedAt EXCEPT ![r] = now]
                /\ Goto(r, "insert")
                /\ UNCHANGED reply
    /\ UNCHANGED <<limiterVars, users, wallet, req, found, user, identity, acceptedAt,
                   compares, everStored>>

(* The UNIQUE constraint of users.email. *)
Taken(email) == \E u \in Requests : users[u].email = email

Insert(r) ==
    /\ users' = [users EXCEPT ![r] = [email |-> NormalizeEmail(req[r].text),
                                      password |-> req[r].password]]
    /\ everStored' = everStored \cup {r}

(* The pair made in Prepare reaches the client. *)
DeliverPair(r) ==
    /\ wallet' = [wallet EXCEPT ![req[r].client] = @ \cup Pair(r, issuedAt[r])]
    /\ user' = [user EXCEPT ![r] = r]
    /\ Answer(r, "OK")

(* Variant: the error of Create is reported beside the tokens. *)
StoreUserKeepingPair(r) ==
    /\ pc[r] = "insert"
    /\ \/ /\ Taken(NormalizeEmail(req[r].text))
          /\ DeliverPair(r)
          /\ UNCHANGED <<users, everStored>>
       \/ /\ ~Taken(NormalizeEmail(req[r].text))
          /\ Insert(r)
          /\ DeliverPair(r)
    /\ UNCHANGED <<limiterVars, req, found, issuedAt, identity, acceptedAt, compares>>

StoreUser(r) ==
    /\ pc[r] = "insert"
    /\ \/ /\ Taken(NormalizeEmail(req[r].text))
          /\ Answer(r, "EMAIL_ALREADY_REGISTERED")
          /\ UNCHANGED <<users, wallet, user, everStored>>
       \/ /\ ~Taken(NormalizeEmail(req[r].text))
          /\ Insert(r)
          /\ DeliverPair(r)
    /\ UNCHANGED <<limiterVars, req, found, issuedAt, identity, acceptedAt, compares>>

(* The row is stored and the connection breaks before the answer of the database arrives. *)
StoreUnacknowledged(r) ==
    /\ pc[r] = "insert"
    /\ ~Taken(NormalizeEmail(req[r].text))
    /\ Insert(r)
    /\ Answer(r, "INTERNAL_ERROR")
    /\ UNCHANGED <<limiterVars, wallet, req, found, session>>

-----------------------------------------------------------------------------
(* login *)

FindUser(r) ==
    /\ pc[r] = "find"
    /\ \/ \E u \in Requests :
             /\ users[u].email = NormalizeEmail(req[r].text)
             /\ found' = [found EXCEPT ![r] = [id |-> u, password |-> users[u].password]]
       \/ /\ ~Taken(NormalizeEmail(req[r].text))
          /\ UNCHANGED found
    /\ Goto(r, "compare")
    /\ UNCHANGED <<limiterVars, users, wallet, req, session, reply, everStored>>

(* Variant: an unknown email is refused without a comparison. *)
CompareKnown(r) == compares' = [compares EXCEPT ![r] = IF found[r] = None THEN 0 ELSE @ + 1]

(* With the hash of the user, or with the dummy hash. *)
CompareHash(r) == compares' = [compares EXCEPT ![r] = @ + 1]

Matches(r) == found[r] # None /\ found[r].password = req[r].password

Compare(r) ==
    /\ pc[r] = "compare"
    /\ CompareHash(r)
    /\ \/ /\ Matches(r)
          /\ Grant(r, found[r].id)
       \/ /\ ~Matches(r)
          /\ Answer(r, "INVALID_CREDENTIALS")
          /\ UNCHANGED <<wallet, issuedAt, user>>
    /\ found' = [found EXCEPT ![r] = None]
    /\ UNCHANGED <<limiterVars, users, req, identity, acceptedAt, everStored>>

-----------------------------------------------------------------------------
(* refreshToken, and operations that act for a user *)

Accept(r, u) ==
    /\ identity' = [identity EXCEPT ![r] = u]
    /\ acceptedAt' = [acceptedAt EXCEPT ![r] = now]

ParseRefresh(r) ==
    /\ pc[r] = "parse"
    /\ \/ /\ Accepted(req[r].token, "refresh")
          /\ Accept(r, req[r].token.sub)
          /\ Goto(r, "user")
          /\ UNCHANGED reply
       \/ /\ ~Accepted(req[r].token, "refresh")
          /\ Answer(r, "UNAUTHENTICATED")
          /\ UNCHANGED <<identity, acceptedAt>>
    /\ UNCHANGED <<limiterVars, users, wallet, req, found, issuedAt, user, compares, everStored>>

(* Middleware Auth: a request without a valid access token goes on without a user. *)
ReceiveCall(r) ==
    /\ pc[r] = "idle"
    /\ \E c \in Clients : \E token \in wallet[c] \cup {NoToken} :
          /\ req' = [req EXCEPT ![r] = [NoInput EXCEPT !.op = "call", !.client = c,
                                                       !.token = token]]
          /\ \/ /\ Accepted(token, "access")
                /\ Accept(r, token.sub)
                /\ Goto(r, "user")
                /\ UNCHANGED reply
             \/ /\ ~Accepted(token, "access")
                /\ Answer(r, "NULL")
                /\ UNCHANGED <<identity, acceptedAt>>
    /\ UNCHANGED <<limiterVars, users, wallet, found, issuedAt, user, compares, everStored>>

(* UserRepository.GetByID. *)
Exists(u) == users[u] # NoUser

(* Refresh renews the session of a user who still exists, me is null for
   one who does not. *)
LoadUser(r) ==
    /\ pc[r] = "user"
    /\ \/ /\ Exists(identity[r])
          /\ \/ /\ req[r].op = "refresh"
                /\ Grant(r, identity[r])
             \/ /\ req[r].op = "call"
                /\ user' = [user EXCEPT ![r] = identity[r]]
                /\ Answer(r, "OK")
                /\ UNCHANGED <<wallet, issuedAt>>
       \/ /\ ~Exists(identity[r])
          /\ Answer(r, IF req[r].op = "refresh" THEN "UNAUTHENTICATED" ELSE "NULL")
          /\ UNCHANGED <<wallet, issuedAt, user>>
    /\ UNCHANGED <<limiterVars, users, req, found, identity, acceptedAt, compares, everStored>>

-----------------------------------------------------------------------------

(* A statement fails; Refresh reports any failure as an invalid session. *)
StatementFails(r) ==
    /\ pc[r] \in {"insert", "find", "user"}
    /\ Answer(r, IF req[r].op = "refresh" THEN "UNAUTHENTICATED" ELSE "INTERNAL_ERROR")
    /\ UNCHANGED <<limiterVars, users, wallet, req, found, session, everStored>>

(* Nothing in the service removes users; an operator may. *)
RemoveUser(u) ==
    /\ users[u] # NoUser
    /\ users' = [users EXCEPT ![u] = NoUser]
    /\ UNCHANGED <<limiterVars, wallet, pc, req, found, session, reply, everStored>>

Advance == Tick /\ UNCHANGED authVars

Next ==
    \/ \E r \in Requests :
          \/ ReceiveAuth(r) \/ UseBucket(r)
          \/ Prepare(r) \/ StoreUser(r) \/ StoreUnacknowledged(r)
          \/ FindUser(r) \/ Compare(r)
          \/ ParseRefresh(r) \/ ReceiveCall(r) \/ LoadUser(r)
          \/ StatementFails(r)
          \/ RemoveUser(r)
    \/ Advance

Spec == Init /\ [][Next]_vars

-----------------------------------------------------------------------------
(* Properties *)

TypeOK ==
    /\ LimiterTypeOK
    /\ users \in [Requests -> User \cup {NoUser}]
    /\ wallet \in [Clients -> SUBSET Token]
    /\ pc \in [Requests -> {"idle", "limit", "prepare", "insert", "find", "compare", "parse",
                            "user", "done"}]
    /\ req \in [Requests -> Input \cup {NoInput}]
    /\ found \in [Requests -> [id : Requests, password : Passwords] \cup {None}]
    /\ issuedAt \in [Requests -> Nat]
    /\ user \in [Requests -> Requests \cup {None}]
    /\ identity \in [Requests -> Requests \cup {None}]
    /\ acceptedAt \in [Requests -> Nat]
    /\ compares \in [Requests -> Nat]
    /\ reply \in [Requests -> Errors \cup {"NONE", "OK", "NULL"}]
    /\ everStored \subseteq Requests

(* However many registrations race (auth_usecase.go:50-78), and however an email is written, it
   has one account, and no account is out of reach of login for the way its email is stored. *)
OneAccountPerEmail ==
    \A u, v \in Requests :
        users[u] # NoUser =>
            /\ Normal[users[u].email] = users[u].email
            /\ u # v /\ users[v] # NoUser => Normal[users[u].email] # Normal[users[v].email]

(* Tokens are made before the user is stored (auth_usecase.go:67-76), yet no client ever holds one
   for an account that was never stored, and only the one told OK holds the account. *)
NoSessionWithoutAccount ==
    /\ \A c \in Clients : \A token \in wallet[c] : token.sub \in everStored
    /\ \A r \in Requests : req[r].op = "register" /\ reply[r] = "OK" => r \in everStored
    /\ \A r \in Requests : reply[r] = "EMAIL_ALREADY_REGISTERED" => r \notin everStored

(* s gave its client a session of u. *)
Opened(s, c, u) == req[s].client = c /\ reply[s] = "OK" /\ user[s] = u /\ req[s].op # "call"

TTL(op) == IF op = "refresh" THEN RefreshTTL ELSE AccessTTL

(* Who acts for a user has shown the password of that very account, however many refreshes ago,
   and the session it acts under is younger than the life of a token of that role: tokens serve
   in one role, until they expire, and for the account they were made for, even after its email
   has passed to another account (jwt.go:62-101, auth_usecase.go:82-121). *)
CallerHasProved ==
    \A r \in Requests : identity[r] # None =>
        /\ \E s \in Requests :
              /\ Opened(s, req[r].client, identity[r])
              /\ req[s].op \in {"register", "login"}
              /\ req[s].password = req[identity[r]].password
              /\ Normal[req[s].text] = Normal[req[identity[r]].text]
        /\ \E s \in Requests :
              /\ Opened(s, req[r].client, identity[r])
              /\ acceptedAt[r] - issuedAt[s] < TTL(req[r].op)

(* Guessing passwords is bounded by the limiter, through which every login goes
   (schema.resolvers.go:32-35): the comparisons made for an address never exceed a full bucket
   and what has come back since the start. *)
GuessesBounded ==
    \A a \in Addresses :
        (Cardinality({r \in Requests : compares[r] > 0 /\ AddressOf[req[r].client] = a}) - Burst)
            * Interval <= now

(* A failed login does not tell whether the email has an account: every login that is answered
   with a verdict on the credentials has cost one bcrypt comparison, whatever was found, and
   whether or not the account was removed meanwhile (auth_usecase.go:80-96). *)
LoginTellsNothing ==
    \A r \in Requests :
        req[r].op = "login" /\ reply[r] \in {"OK", "INVALID_CREDENTIALS"} => compares[r] = 1

=============================================================================
