------------------------------ MODULE Sessions ------------------------------
(***************************************************************************)
(* The server's accounts and refresh tokens (modules/auth).                *)
(*                                                                         *)
(* A request is served by a handler, one of many at work at a time on one  *)
(* or several replicas, and each `await` of AuthService is a call to a     *)
(* repository: one action per call, its effect included.  Between two of   *)
(* them every other handler may run.  The repositories are Postgres        *)
(* (`durable`) or maps in the process, as the environment has it.          *)
(*                                                                         *)
(* A token is the number it was issued under, which stands for its value,  *)
(* its hash and the id of its row; a family has the number of its first    *)
(* token; a user has the position of its row in the order of creation.     *)
(*                                                                         *)
(* Left out: the contents of credentials and claims, rate limits, and      *)
(* requests that are refused before any row is read.                       *)
(***************************************************************************)
EXTENDS ServerClock, Sequences, FiniteSets

CONSTANTS
  Emails,
  Handlers,       \* the requests at work at one time
  RefreshTtl,     \* REFRESH_TTL_SECONDS
  AccessTtl,      \* JWT_ACCESS_TTL_SECONDS
  MaxUsers,       \* bound: rows of users
  MaxTokens,      \* bound: tokens ever issued
  SessionsEnd     \* bound: the last moment looked at

ASSUME SessionsAssumption ==
  /\ RefreshTtl \in Nat \ {0} /\ AccessTtl \in Nat \ {0}
  /\ MaxUsers \in Nat /\ MaxTokens \in Nat /\ SessionsEnd \in Nat
  /\ IsFiniteSet(Handlers)

VARIABLES
  durable,        \* DATABASE_URL is set: the Prisma repositories are used
  users,          \* rows of users, as their e-mails in the order of creation
  tokens,         \* rows of refresh tokens
  minted,         \* how many tokens were ever issued
  known,          \* the tokens clients have received
  handlers,       \* what each handler is at
  access,         \* until when the access tokens given to a family are valid
  forked,         \* history: families one token of which was rotated twice at once
  deadline        \* history: 0, or when access to a revoked family must be over

sessionHistory == <<forked, deadline>>
sessionVars == <<now, durable, users, tokens, minted, known, handlers, access,
                 forked, deadline>>

TokenIds == 1..MaxTokens

\* RefreshTokenRecord; "none" while there is no such row.
TokenRow == [st : {"none", "live", "revoked"}, user : 0..MaxUsers,
             family : 0..MaxTokens, expiresAt : Nat]

NoRow == [st |-> "none", user |-> 0, family |-> 0, expiresAt |-> 0]

\* The call a handler awaits next.
Awaits == {"idle", "createUser", "compare", "findUser", "revoke", "create",
           "answer", "revokeReused", "revokeLeft"}

\* `user`, `token` and `family` are 0 where they are not known (yet).
HandlerState == [at : Awaits, email : Emails \cup {"none"}, user : 0..MaxUsers,
                 token : 0..MaxTokens, family : 0..MaxTokens]

Idle == [at |-> "idle", email |-> "none", user |-> 0, token |-> 0, family |-> 0]

\* Rows and handlers name accounts and families there are.
SessionsTypeOK ==
  /\ now \in Nat
  /\ durable \in BOOLEAN
  /\ users \in Seq(Emails) /\ Len(users) <= MaxUsers
  /\ tokens \in [TokenIds -> TokenRow]
  /\ minted \in 0..MaxTokens
  /\ known \in SUBSET TokenIds
  /\ handlers \in [Handlers -> HandlerState]
  /\ access \in [TokenIds -> Nat]
  /\ forked \in SUBSET TokenIds
  /\ deadline \in [TokenIds -> Nat]
  /\ \A t \in TokenIds : tokens[t].st # "none" =>
       tokens[t].user \in DOMAIN users /\ tokens[t].family \in 1..t /\ t <= minted
  /\ \A h \in Handlers :
       /\ handlers[h].at \in {"findUser", "revoke", "create", "answer"} =>
            handlers[h].user \in DOMAIN users
       /\ handlers[h].at \in {"findUser", "revoke", "answer"} =>
            handlers[h].token \in 1..minted

InitSessions ==
  /\ now = 0
  /\ durable \in BOOLEAN
  /\ users = <<>>
  /\ tokens = [t \in TokenIds |-> NoRow]
  /\ minted = 0
  /\ known = {}
  /\ handlers = [h \in Handlers |-> Idle]
  /\ access = [f \in TokenIds |-> 0]
  /\ forked = {}
  /\ deadline = [f \in TokenIds |-> 0]

------------------------------------------------------------------------------
(* Rows *)

Holders(e) == {u \in DOMAIN users : users[u] = e}

\* A mutant: the last row.
FindByEmailLatest(e) == IF Holders(e) = {} THEN 0
                        ELSE CHOOSE u \in Holders(e) : \A v \in Holders(e) : v <= u

\* findByEmail: the first row in the order of creation, 0 when there is none.
FindByEmail(e) == IF Holders(e) = {} THEN 0
                  ELSE CHOOSE u \in Holders(e) : \A v \in Holders(e) : u <= v

Live(f) == {t \in TokenIds : tokens[t].st = "live" /\ tokens[t].family = f}

\* The rotations of a family that read a live token and have issued no other.
Rotating(f) == {h \in Handlers : /\ handlers[h].at \in {"findUser", "revoke", "create"}
                                 /\ handlers[h].family = f}

\* A pair for the family may still go out to a client.
Answering(f) == {h \in Handlers : handlers[h].at = "answer" /\ handlers[h].family = f}

Becomes(h, state) == handlers' = [handlers EXCEPT ![h] = state]

\* A mutant: the other sessions of the user go with it.
RevokeUser(t) ==
  tokens' = [r \in TokenIds |->
    IF tokens[r].st = "live" /\ tokens[r].user = tokens[t].user
      THEN [tokens[r] EXCEPT !.st = "revoked"] ELSE tokens[r]]

\* revoke: the row was read live, or was revoked meanwhile.
RevokeOne(t) == tokens' = [tokens EXCEPT ![t].st = "revoked"]

\* A mutant: only the newest token of the family goes.
RevokeLatest(f) ==
  /\ tokens' = [t \in TokenIds |->
       IF t \in Live(f) /\ \A u \in Live(f) : u <= t
         THEN [tokens[t] EXCEPT !.st = "revoked"] ELSE tokens[t]]
  /\ deadline' = IF Rotating(f) \cup Answering(f) = {} /\ deadline[f] = 0
                   THEN [deadline EXCEPT ![f] = now + AccessTtl] ELSE deadline

\* revokeFamily: every live token of the family, in one statement.
RevokeFamily(f) ==
  /\ tokens' = [t \in TokenIds |->
       IF t \in Live(f) THEN [tokens[t] EXCEPT !.st = "revoked"] ELSE tokens[t]]
  /\ deadline' = IF Rotating(f) \cup Answering(f) = {} /\ deadline[f] = 0
                   THEN [deadline EXCEPT ![f] = now + AccessTtl] ELSE deadline

------------------------------------------------------------------------------
(* register *)

\* An e-mail that has a row is refused (409), which changes nothing.
RegisterFinds(h, e) ==
  /\ handlers[h].at = "idle" /\ FindByEmail(e) = 0
  /\ Becomes(h, [Idle EXCEPT !.at = "createUser", !.email = e])
  /\ UNCHANGED <<now, durable, users, tokens, minted, known, access, sessionHistory>>

\* Postgres refuses a second row for an e-mail; the map, which has the id for
\* its key, does not.
RegisterCreates(h) ==
  LET e == handlers[h].email IN
  /\ handlers[h].at = "createUser"
  /\ users' = IF durable /\ Holders(e) # {} THEN users ELSE Append(users, e)
  /\ Len(users') <= MaxUsers
  /\ Becomes(h, Idle)
  /\ UNCHANGED <<now, durable, tokens, minted, known, access, sessionHistory>>

------------------------------------------------------------------------------
(* login *)

\* The comparison is awaited whether or not the e-mail has a row.
LoginFinds(h, e) ==
  /\ handlers[h].at = "idle"
  /\ Becomes(h, [Idle EXCEPT !.at = "compare", !.user = FindByEmail(e)])
  /\ UNCHANGED <<now, durable, users, tokens, minted, known, access, sessionHistory>>

\* A mutant: whether the e-mail has a row is not asked again.
LoginTrusts(h) ==
  /\ handlers[h].at = "compare"
  /\ \E right \in BOOLEAN :
       Becomes(h, IF right THEN [handlers[h] EXCEPT !.at = "create"] ELSE Idle)
  /\ UNCHANGED <<now, durable, users, tokens, minted, known, access, sessionHistory>>

LoginCompares(h) ==
  /\ handlers[h].at = "compare"
  /\ \E right \in BOOLEAN :
       Becomes(h, IF handlers[h].user # 0 /\ right
                    THEN [handlers[h] EXCEPT !.at = "create"] ELSE Idle)
  /\ UNCHANGED <<now, durable, users, tokens, minted, known, access, sessionHistory>>

------------------------------------------------------------------------------
(* refresh *)

\* What the row of t says at the moment it is read decides everything.  An
\* unknown or an expired token is refused, which changes nothing.
RefreshFinds(h, t) ==
  LET row == tokens[t] IN
  /\ handlers[h].at = "idle" /\ t \in known
  /\ \/ /\ row.st = "revoked"
        /\ Becomes(h, [Idle EXCEPT !.at = "revokeReused", !.family = row.family])
        /\ UNCHANGED forked
     \/ /\ row.st = "live" /\ row.expiresAt > now
        /\ Becomes(h, [Idle EXCEPT !.at = "findUser", !.user = row.user,
                                   !.token = t, !.family = row.family])
        /\ forked' = IF Rotating(row.family) = {} THEN forked
                     ELSE forked \cup {row.family}
  /\ UNCHANGED <<now, durable, users, tokens, minted, known, access, deadline>>

RefreshFindsUser(h) ==
  /\ handlers[h].at = "findUser"
  /\ Becomes(h, IF handlers[h].user \in DOMAIN users
                  THEN [handlers[h] EXCEPT !.at = "revoke"] ELSE Idle)
  /\ UNCHANGED <<now, durable, users, tokens, minted, known, access, sessionHistory>>

\* A mutant: the row is left as it was.
RefreshKeeps(h) ==
  /\ handlers[h].at = "revoke"
  /\ Becomes(h, [handlers[h] EXCEPT !.at = "create"])
  /\ UNCHANGED <<now, durable, users, tokens, minted, known, access, sessionHistory>>

RefreshRevokes(h) ==
  /\ handlers[h].at = "revoke"
  /\ RevokeOne(handlers[h].token)
  /\ Becomes(h, [handlers[h] EXCEPT !.at = "create"])
  /\ UNCHANGED <<now, durable, users, minted, known, access, sessionHistory>>

\* A token of a family is read revoked: the whole family goes.
KillsFamily(h) ==
  /\ handlers[h].at = "revokeReused"
  /\ RevokeFamily(handlers[h].family)
  /\ Becomes(h, Idle)
  /\ UNCHANGED <<now, durable, users, minted, known, access, forked>>

------------------------------------------------------------------------------
(* issuePair, the end of a login and of a refresh *)

\* The new row.  A login opens a family.
Issues(h) ==
  LET t == minted + 1
      f == IF handlers[h].family = 0 THEN t ELSE handlers[h].family
  IN /\ handlers[h].at = "create" /\ minted < MaxTokens
     /\ minted' = t
     /\ tokens' = [tokens EXCEPT ![t] =
          [st |-> "live", user |-> handlers[h].user, family |-> f,
           expiresAt |-> now + RefreshTtl]]
     /\ Becomes(h, [handlers[h] EXCEPT !.at = "answer", !.token = t, !.family = f])
     /\ UNCHANGED <<now, durable, users, known, access, sessionHistory>>

\* The access token is signed and the pair goes out.
Answers(h) ==
  /\ handlers[h].at = "answer"
  /\ access' = [access EXCEPT ![handlers[h].family] = now + AccessTtl]
  /\ known' = known \cup {handlers[h].token}
  /\ Becomes(h, Idle)
  /\ UNCHANGED <<now, durable, users, tokens, minted, sessionHistory>>

------------------------------------------------------------------------------
(* logout *)

LogoutFinds(h, t) ==
  /\ handlers[h].at = "idle" /\ t \in known /\ tokens[t].st # "none"
  /\ Becomes(h, [Idle EXCEPT !.at = "revokeLeft", !.family = tokens[t].family])
  /\ UNCHANGED <<now, durable, users, tokens, minted, known, access, sessionHistory>>

LogoutRevokes(h) ==
  /\ handlers[h].at = "revokeLeft"
  /\ RevokeFamily(handlers[h].family)
  /\ Becomes(h, Idle)
  /\ UNCHANGED <<now, durable, users, minted, known, access, forked>>

------------------------------------------------------------------------------
(* Faults *)

\* The awaited call is rejected (500); what was done before it stays.
Fails(h) ==
  /\ handlers[h].at # "idle"
  /\ Becomes(h, Idle)
  /\ UNCHANGED <<now, durable, users, tokens, minted, known, access, sessionHistory>>

\* The process ends, and with it what it keeps in maps.
Restart ==
  /\ handlers' = [h \in Handlers |-> Idle]
  /\ IF durable THEN UNCHANGED <<users, tokens>>
                ELSE users' = <<>> /\ tokens' = [t \in TokenIds |-> NoRow]
  /\ UNCHANGED <<now, durable, minted, known, access, sessionHistory>>

SessionTick ==
  /\ Tick(SessionsEnd)
  /\ UNCHANGED <<durable, users, tokens, minted, known, handlers, access, sessionHistory>>

NextSessions ==
  \/ \E h \in Handlers :
       \/ \E e \in Emails : RegisterFinds(h, e) \/ LoginFinds(h, e)
       \/ \E t \in known : RefreshFinds(h, t) \/ LogoutFinds(h, t)
       \/ RegisterCreates(h) \/ LoginCompares(h)
       \/ RefreshFindsUser(h) \/ RefreshRevokes(h) \/ KillsFamily(h)
       \/ Issues(h) \/ Answers(h) \/ LogoutRevokes(h) \/ Fails(h)
  \/ Restart \/ SessionTick

SpecSessions == InitSessions /\ [][NextSessions]_sessionVars

------------------------------------------------------------------------------
(* Properties *)

\* A session has one token that works.  Only two refreshes that both read a
\* live token of the family before either revoked it can leave it with more:
\* rotation is a read and a write with an await between them
\* (auth.service.ts:86-104).
OneLive == \A f \in TokenIds : f \notin forked => Cardinality(Live(f)) <= 1

\* A family revoked while none of its refreshes was under way stays closed:
\* no token of it ever works again, none is on its way to a client, and the
\* access tokens given out, which no row backs, end within their lifetime.
\* (A refresh that has read its row when the family is revoked issues a live
\* token after it: auth.service.ts:103-104.)
ClosedStaysClosed ==
  \A f \in TokenIds : deadline[f] # 0 =>
    /\ Live(f) = {} /\ Rotating(f) = {} /\ Answering(f) = {}
    /\ access[f] <= deadline[f]

\* No session is closed by another: a token stops to work only by its own
\* rotation, or when its own family is logged out or found reused.
NoFalseAlarm ==
  [][\A t \in TokenIds : tokens[t].st = "live" /\ tokens'[t].st = "revoked" =>
       \E h \in Handlers :
         \/ handlers[h].at = "revoke" /\ handlers[h].token = t
         \/ handlers[h].at \in {"revokeReused", "revokeLeft"}
            /\ handlers[h].family = tokens[t].family]_sessionVars

\* Two registrations of one e-mail that both find it free leave the map with
\* two accounts (auth.service.ts:55-64).  Whoever could log in still can: the
\* account an e-mail leads to never changes while the process keeps its maps.
StableLogin ==
  [][\A e \in Emails : FindByEmail(e) # 0 =>
       \/ FindByEmail(e)' = FindByEmail(e)
       \/ ~durable /\ users' = <<>>]_sessionVars
=============================================================================
