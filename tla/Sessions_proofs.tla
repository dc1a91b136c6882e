--------------------------- MODULE Sessions_proofs ---------------------------
(***************************************************************************)
(* Proofs about Sessions, for any set of e-mails, any number of requests   *)
(* at work at one time, any lifetimes and any number of tokens.            *)
(***************************************************************************)
EXTENDS Sessions, FiniteSetTheorems, WellFoundedInduction, TLAPS

------------------------------------------------------------------------------
(* The inductive invariant *)

\* What a handler has read is still so: rows are only added.
HandlerOK(r) ==
  /\ r.at = "createUser" => r.email \in Emails
  /\ r.at \in {"findUser", "revoke", "create", "answer"} => r.user \in DOMAIN users
  /\ r.at = "compare" => r.family = 0 /\ r.user \in {0} \cup DOMAIN users
  /\ r.at \in {"findUser", "revoke", "answer"} => r.token \in 1..minted
  /\ r.at \in {"findUser", "revoke"} => tokens[r.token].st # "none"
  /\ r.at \in {"findUser", "revoke", "answer", "revokeReused", "revokeLeft"} =>
       r.family \in 1..minted
  /\ r.at = "create" => r.family \in 0..minted

HandlersOK == \A h \in Handlers : HandlerOK(handlers[h])

\* At most one token of the family works and at most one rotation is under
\* way: of that token, or, once it is revoked, of none.
One(f) ==
  /\ \A g, h \in Rotating(f) : g = h
  /\ \A t, u \in Live(f) : t = u
  /\ \A h \in Rotating(f), t \in Live(f) :
       handlers[h].at # "create" /\ t = handlers[h].token

OnePerFamily == \A f \in TokenIds : f \notin forked => One(f)

\* No family is closed that has not been opened, and no access token outlives
\* its lifetime.
Closed(f) ==
  /\ access[f] <= now + AccessTtl
  /\ deadline[f] # 0 => /\ f <= minted
                        /\ Live(f) = {} /\ Rotating(f) = {} /\ Answering(f) = {}
                        /\ access[f] <= deadline[f]

ClosedFamilies == \A f \in TokenIds : Closed(f)

SessionsInv == SessionsTypeOK /\ HandlersOK /\ OnePerFamily /\ ClosedFamilies

------------------------------------------------------------------------------
(* Rows of users *)

\* A set of positions has a first one: the least of the intervals that end in it.
LEMMA FirstHolder ==
  ASSUME users \in Seq(Emails), NEW e, Holders(e) # {}
  PROVE  \E u \in Holders(e) : \A v \in Holders(e) : u <= v
<1>. DEFINE S == DOMAIN users
            T == {1..u : u \in Holders(e)}
<1>1. /\ S = 1..Len(users) /\ Len(users) \in Nat
      /\ Holders(e) \subseteq S
  BY DEF Holders
<1>2. IsFiniteSet(S)
  BY <1>1, FS_Interval
<1>3. T \subseteq FiniteSubsetsOf(S) /\ T # {}
  <2>1. T \subseteq SUBSET S /\ T # {}
    BY <1>1
  <2>. QED
    BY <1>2, <2>1, FS_FiniteSubsetsOfFinite
<1>. HIDE DEF T
<1>4. PICK I \in T : \A J \in T : <<J, I>> \notin StrictSubsetOrdering(S)
  BY <1>3, FS_StrictSubsetOrderingWellFounded, WFMin, Zenon
<1>5. PICK u \in Holders(e) : I = 1..u
  BY DEF T
<1>6. ASSUME NEW v \in Holders(e)
      PROVE  u <= v
  <2>1. 1..v \in T /\ 1..v \subseteq S /\ I \subseteq S
    BY <1>1, <1>5 DEF T
  <2>2. <<1..v, I>> \notin StrictSubsetOrdering(S)
    BY <1>4, <2>1
  <2>3. ~(1..v \subseteq 1..u /\ 1..v # 1..u)
    BY <1>5, <2>1, <2>2 DEF StrictSubsetOrdering
  <2>. QED
    BY <1>1, <2>3
<1>. QED
  BY <1>6

\* findByEmail returns a row of the e-mail, the first one.
LEMMA FindByEmailFinds ==
  ASSUME users \in Seq(Emails), NEW e, Holders(e) # {}
  PROVE  /\ FindByEmail(e) \in Holders(e)
         /\ \A v \in Holders(e) : FindByEmail(e) <= v
BY FirstHolder DEF FindByEmail

LEMMA FindByEmailType ==
  ASSUME users \in Seq(Emails), NEW e
  PROVE  FindByEmail(e) \in {0} \cup DOMAIN users
<1>1. CASE Holders(e) = {}
  BY <1>1 DEF FindByEmail
<1>2. CASE Holders(e) # {}
  BY <1>2, FindByEmailFinds DEF Holders
<1>. QED
  BY <1>1, <1>2

------------------------------------------------------------------------------
(* Steps seen from one family *)

\* Fewer live tokens and fewer rotations do no harm.
LEMMA OneShrinks ==
  ASSUME NEW f, One(f), Live(f)' \subseteq Live(f),
         \A h \in Rotating(f)' :
           /\ h \in Rotating(f) /\ handlers'[h].token = handlers[h].token
           /\ handlers'[h].at = "create" => handlers[h].at = "create" \/ Live(f)' = {}
  PROVE  One(f)'
BY DEF One

\* The set of families that are closed, and what is known of them, stay.
LEMMA ClosedShrinks ==
  ASSUME NEW f \in TokenIds, Closed(f), deadline'[f] = deadline[f],
         Live(f)' \subseteq Live(f), Rotating(f)' \subseteq Rotating(f),
         Answering(f)' \subseteq Answering(f) \cup Rotating(f),
         access'[f] = access[f], access[f] \in Nat,
         minted \in Nat, minted' \in Nat, minted <= minted',
         now \in Nat, now' \in Nat, now <= now'
  PROVE  Closed(f)'
<1>1. access'[f] <= now' + AccessTtl
  BY SessionsAssumption DEF Closed
<1>2. ASSUME deadline'[f] # 0
      PROVE  /\ f <= minted' /\ Live(f)' = {} /\ Rotating(f)' = {} /\ Answering(f)' = {}
             /\ access'[f] <= deadline'[f]
  <2>1. /\ f <= minted /\ Live(f) = {} /\ Rotating(f) = {} /\ Answering(f) = {}
        /\ access[f] <= deadline[f]
    BY <1>2 DEF Closed
  <2>2. f <= minted'
    BY <2>1 DEF TokenIds
  <2>. QED
    BY <2>1, <2>2
<1>. QED
  BY <1>1, <1>2 DEF Closed

\* A handler's next state, which the others do not see.
LEMMA BecomesType ==
  ASSUME SessionsTypeOK, NEW h \in Handlers, NEW r \in HandlerState, Becomes(h, r)
  PROVE  /\ handlers' \in [Handlers -> HandlerState]
         /\ \A g \in Handlers : handlers'[g] = IF g = h THEN r ELSE handlers[g]
BY DEF Becomes, SessionsTypeOK

LEMMA IdleType ==
  /\ Idle \in HandlerState
  /\ Idle.at = "idle" /\ Idle.email = "none"
  /\ Idle.user = 0 /\ Idle.token = 0 /\ Idle.family = 0
BY SessionsAssumption DEF Idle, HandlerState, Awaits

\* A step of one handler that writes no row and reads no live token.
LEMMA HandlerMoves ==
  ASSUME SessionsInv, NEW h \in Handlers, NEW r \in HandlerState,
         HandlerOK(r), Becomes(h, r),
         UNCHANGED <<now, durable, users, tokens, minted, known, access, sessionHistory>>,
         \/ /\ r.at \notin {"findUser", "revoke", "answer"}
            /\ r.at = "create" => r.family = 0
         \/ /\ handlers[h].at = "findUser" /\ r.at = "revoke"
            /\ r.token = handlers[h].token /\ r.family = handlers[h].family
  PROVE  SessionsInv'
<1>1. /\ handlers' \in [Handlers -> HandlerState]
      /\ \A g \in Handlers : handlers'[g] = IF g = h THEN r ELSE handlers[g]
  BY BecomesType DEF SessionsInv
<1>2. UNCHANGED <<now, durable, users, tokens, minted, known, access, forked, deadline>>
  BY DEF sessionHistory
<1>3. HandlersOK'
  BY <1>1, <1>2 DEF SessionsInv, HandlersOK, HandlerOK
<1>4. SessionsTypeOK'
  BY <1>1, <1>2, <1>3 DEF SessionsInv, SessionsTypeOK, HandlersOK, HandlerOK
<1>5. ASSUME NEW f \in TokenIds
      PROVE  /\ Live(f)' = Live(f)
             /\ Answering(f)' \subseteq Answering(f)
             /\ \A g \in Rotating(f)' :
                  /\ g \in Rotating(f) /\ handlers'[g].token = handlers[g].token
                  /\ handlers'[g].at = "create" => handlers[g].at = "create"
  BY <1>1, <1>2 DEF Live, Rotating, Answering, TokenIds
<1>6. OnePerFamily'
  BY <1>2, <1>5, OneShrinks DEF SessionsInv, OnePerFamily
<1>7. ClosedFamilies'
  BY <1>2, <1>5, ClosedShrinks DEF SessionsInv, SessionsTypeOK, ClosedFamilies
<1>. QED
  BY <1>3, <1>4, <1>6, <1>7 DEF SessionsInv

------------------------------------------------------------------------------
(* The steps of a request, and the faults *)

\* Requests that begin, end or fail without touching a row.
LEMMA QuietSteps ==
  ASSUME SessionsInv, NEW h \in Handlers,
         \/ \E e \in Emails : RegisterFinds(h, e) \/ LoginFinds(h, e)
         \/ \E t \in known : LogoutFinds(h, t)
         \/ LoginCompares(h) \/ RefreshFindsUser(h) \/ Fails(h)
  PROVE  SessionsInv'
<1>1. handlers[h] \in HandlerState /\ HandlerOK(handlers[h]) /\ HandlerOK(Idle)
  BY IdleType DEF SessionsInv, SessionsTypeOK, HandlersOK, HandlerOK
<1>2. CASE Fails(h)
  BY <1>1, <1>2, IdleType, HandlerMoves DEF Fails
<1>3. ASSUME NEW e \in Emails, RegisterFinds(h, e)
      PROVE  SessionsInv'
  <2>. DEFINE r == [Idle EXCEPT !.at = "createUser", !.email = e]
  <2>1. r \in HandlerState /\ HandlerOK(r) /\ r.at = "createUser"
    BY IdleType DEF HandlerState, Awaits, HandlerOK
  <2>2. /\ Becomes(h, r)
        /\ UNCHANGED <<now, durable, users, tokens, minted, known, access, sessionHistory>>
    BY <1>3 DEF RegisterFinds
  <2>. HIDE DEF r
  <2>. QED
    BY <2>1, <2>2, HandlerMoves
<1>4. ASSUME NEW e \in Emails, LoginFinds(h, e)
      PROVE  SessionsInv'
  <2>. DEFINE r == [Idle EXCEPT !.at = "compare", !.user = FindByEmail(e)]
  <2>1. FindByEmail(e) \in {0} \cup DOMAIN users /\ FindByEmail(e) \in 0..MaxUsers
    BY FindByEmailType, SessionsAssumption DEF SessionsInv, SessionsTypeOK
  <2>2. r \in HandlerState /\ HandlerOK(r) /\ r.at = "compare"
    BY <2>1, IdleType DEF HandlerState, Awaits, HandlerOK
  <2>3. /\ Becomes(h, r)
        /\ UNCHANGED <<now, durable, users, tokens, minted, known, access, sessionHistory>>
    BY <1>4 DEF LoginFinds
  <2>. HIDE DEF r
  <2>. QED
    BY <2>2, <2>3, HandlerMoves
<1>5. ASSUME NEW t \in known, LogoutFinds(h, t)
      PROVE  SessionsInv'
  <2>. DEFINE r == [Idle EXCEPT !.at = "revokeLeft", !.family = tokens[t].family]
  <2>1. t \in TokenIds /\ tokens[t].st # "none"
    BY <1>5 DEF LogoutFinds, SessionsInv, SessionsTypeOK
  <2>2. tokens[t].family \in 1..minted /\ tokens[t].family \in 0..MaxTokens
    BY <2>1 DEF SessionsInv, SessionsTypeOK, TokenRow, TokenIds
  <2>3. r \in HandlerState /\ HandlerOK(r) /\ r.at = "revokeLeft"
    BY <2>2, IdleType DEF HandlerState, Awaits, HandlerOK
  <2>4. /\ Becomes(h, r)
        /\ UNCHANGED <<now, durable, users, tokens, minted, known, access, sessionHistory>>
    BY <1>5 DEF LogoutFinds
  <2>. HIDE DEF r
  <2>. QED
    BY <2>3, <2>4, HandlerMoves
<1>6. CASE LoginCompares(h)
  <2>. DEFINE r == [handlers[h] EXCEPT !.at = "create"]
  <2>1. handlers[h].at = "compare" /\ (Becomes(h, Idle) \/ (handlers[h].user # 0 /\ Becomes(h, r)))
    <3>1. PICK right \in BOOLEAN :
            Becomes(h, IF handlers[h].user # 0 /\ right THEN r ELSE Idle)
      BY <1>6 DEF LoginCompares
    <3>2. handlers[h].at = "compare"
      BY <1>6 DEF LoginCompares
    <3>. HIDE DEF r
    <3>3. CASE handlers[h].user # 0 /\ right
      BY <3>1, <3>2, <3>3
    <3>4. CASE ~(handlers[h].user # 0 /\ right)
      BY <3>1, <3>2, <3>4
    <3>. QED
      BY <3>3, <3>4
  <2>2. /\ r \in HandlerState /\ r.at = "create" /\ r.family = 0
        /\ r.user = handlers[h].user
    BY <1>1, <2>1 DEF HandlerState, Awaits, HandlerOK
  <2>3. handlers[h].user # 0 => HandlerOK(r)
    BY <1>1, <2>1, <2>2 DEF HandlerOK, SessionsInv, SessionsTypeOK
  <2>4. UNCHANGED <<now, durable, users, tokens, minted, known, access, sessionHistory>>
    BY <1>6 DEF LoginCompares
  <2>. HIDE DEF r
  <2>. QED
    BY <1>1, <2>1, <2>2, <2>3, <2>4, IdleType, HandlerMoves
<1>7. CASE RefreshFindsUser(h)
  <2>. DEFINE r == [handlers[h] EXCEPT !.at = "revoke"]
  <2>1. handlers[h].at = "findUser" /\ (Becomes(h, Idle) \/ Becomes(h, r))
    BY <1>7 DEF RefreshFindsUser
  <2>2. /\ r \in HandlerState /\ HandlerOK(r) /\ r.at = "revoke"
        /\ r.token = handlers[h].token /\ r.family = handlers[h].family
    BY <1>1, <2>1 DEF HandlerState, Awaits, HandlerOK
  <2>3. UNCHANGED <<now, durable, users, tokens, minted, known, access, sessionHistory>>
    BY <1>7 DEF RefreshFindsUser
  <2>. HIDE DEF r
  <2>. QED
    BY <1>1, <2>1, <2>2, <2>3, IdleType, HandlerMoves
<1>. QED
  BY <1>2, <1>3, <1>4, <1>5, <1>6, <1>7

\* A refresh that finds its token live: it is the only live one of a family
\* that is not forked, and the only rotation.
LEMMA RefreshFindsKeeps ==
  ASSUME SessionsInv, NEW h \in Handlers, NEW t \in known, RefreshFinds(h, t)
  PROVE  SessionsInv'
<1>1. /\ t \in TokenIds /\ handlers[h].at = "idle"
      /\ UNCHANGED <<now, durable, users, tokens, minted, known, access, deadline>>
  BY DEF RefreshFinds, SessionsInv, SessionsTypeOK
<1>2. ASSUME tokens[t].st # "none"
      PROVE  /\ tokens[t].family \in 1..minted /\ tokens[t].family \in TokenIds
             /\ tokens[t].family \in 0..MaxTokens
             /\ t \in 1..minted /\ t \in 0..MaxTokens
             /\ tokens[t].user \in DOMAIN users /\ tokens[t].user \in 0..MaxUsers
  <2>1. tokens[t] \in TokenRow /\ minted \in 0..MaxTokens
    BY <1>1 DEF SessionsInv, SessionsTypeOK
  <2>2. tokens[t].user \in DOMAIN users /\ tokens[t].family \in 1..t /\ t <= minted
    BY <1>1, <1>2 DEF SessionsInv, SessionsTypeOK
  <2>. QED
    BY <1>1, <2>1, <2>2, SessionsAssumption DEF TokenRow, TokenIds
<1>3. CASE tokens[t].st = "revoked"
  <2>. DEFINE r == [Idle EXCEPT !.at = "revokeReused", !.family = tokens[t].family]
  <2>1. r \in HandlerState /\ HandlerOK(r) /\ r.at = "revokeReused"
    BY <1>2, <1>3, IdleType DEF HandlerState, Awaits, HandlerOK
  <2>2. Becomes(h, r) /\ UNCHANGED forked
    BY <1>3 DEF RefreshFinds
  <2>. HIDE DEF r
  <2>. QED
    BY <1>1, <2>1, <2>2, HandlerMoves DEF sessionHistory
<1>4. CASE tokens[t].st = "live"
  <2>0. PICK f \in TokenIds : f = tokens[t].family
    BY <1>2, <1>4
  <2>. DEFINE r == [Idle EXCEPT !.at = "findUser", !.user = tokens[t].user,
                                !.token = t, !.family = f]
  <2>1. /\ r \in HandlerState /\ HandlerOK(r)
        /\ r.at = "findUser" /\ r.token = t /\ r.family = f
    BY <1>2, <1>4, <2>0, IdleType DEF HandlerState, Awaits, HandlerOK
  <2>2. /\ Becomes(h, r)
        /\ forked' = IF Rotating(f) = {} THEN forked ELSE forked \cup {f}
    BY <1>4, <2>0 DEF RefreshFinds
  <2>3. t \in Live(f)
    BY <1>1, <1>4, <2>0 DEF Live
  <2>. HIDE DEF r
  <2>4. /\ handlers' \in [Handlers -> HandlerState]
        /\ \A g \in Handlers : handlers'[g] = IF g = h THEN r ELSE handlers[g]
    BY <2>1, <2>2, BecomesType DEF SessionsInv
  <2>5. HandlersOK'
    BY <1>1, <2>1, <2>4 DEF SessionsInv, HandlersOK, HandlerOK
  <2>6. SessionsTypeOK'
    BY <1>1, <2>1, <2>2, <2>4, <2>5 DEF SessionsInv, SessionsTypeOK, HandlersOK, HandlerOK
  <2>7. ASSUME NEW x \in TokenIds, x # f
        PROVE  Live(x)' = Live(x) /\ Rotating(x)' = Rotating(x) /\ Answering(x)' = Answering(x)
    BY <1>1, <2>1, <2>4, <2>7 DEF Live, Rotating, Answering, TokenIds
  <2>8. /\ Live(f)' = Live(f)
        /\ Rotating(f)' = Rotating(f) \cup {h} /\ h \notin Rotating(f)
    BY <1>1, <2>1, <2>4 DEF Live, Rotating, TokenIds
  <2>9. ASSUME NEW x \in TokenIds, x \notin forked'
        PROVE  One(x)'
    <3>1. x \notin forked /\ One(x)
      BY <2>2, <2>9 DEF SessionsInv, OnePerFamily
    <3>2. CASE x = f
      <4>1. Rotating(x)' = {h}
        BY <2>2, <2>8, <2>9, <3>2
      <4>2. \A u \in Live(x) : u = t
        BY <2>3, <3>1, <3>2 DEF One
      <4>. QED
        BY <2>1, <2>4, <2>8, <3>1, <3>2, <4>1, <4>2 DEF One
    <3>3. CASE x # f
      <4>1. \A g \in Rotating(x)' : handlers'[g] = handlers[g]
        BY <2>1, <2>4, <3>3 DEF Rotating
      <4>. QED
        BY <2>7, <3>1, <3>3, <4>1, OneShrinks
    <3>. QED
      BY <3>2, <3>3
  <2>10. ASSUME NEW x \in TokenIds
         PROVE  Closed(x)'
    <3>1. Closed(x)
      BY DEF SessionsInv, ClosedFamilies
    <3>2. CASE x = f
      <4>1. deadline[x] = 0
        BY <2>3, <3>1, <3>2 DEF Closed
      <4>2. access[x] <= now + AccessTtl
        BY <3>1 DEF Closed
      <4>. QED
        BY <1>1, <4>1, <4>2 DEF Closed
    <3>3. CASE x # f
      <4>1. access[x] \in Nat /\ minted \in Nat /\ now \in Nat
        BY DEF SessionsInv, SessionsTypeOK
      <4>. QED
        BY <1>1, <2>7, <3>1, <3>3, <4>1, ClosedShrinks
    <3>. QED
      BY <3>2, <3>3
  <2>. QED
    BY <2>5, <2>6, <2>9, <2>10 DEF SessionsInv, OnePerFamily, ClosedFamilies
<1>. QED
  BY <1>3, <1>4 DEF RefreshFinds

\* The row of the token is revoked: none of its family works any more, or
\* nothing was left to revoke.
LEMMA RefreshRevokesKeeps ==
  ASSUME SessionsInv, NEW h \in Handlers, RefreshRevokes(h)
  PROVE  SessionsInv'
<1>. DEFINE t == handlers[h].token
            r == [handlers[h] EXCEPT !.at = "create"]
<1>1. /\ handlers[h].at = "revoke" /\ handlers[h] \in HandlerState /\ HandlerOK(handlers[h])
      /\ tokens' = [tokens EXCEPT ![t].st = "revoked"]
      /\ UNCHANGED <<now, durable, users, minted, known, access, forked, deadline>>
  BY DEF RefreshRevokes, RevokeOne, sessionHistory, SessionsInv, SessionsTypeOK, HandlersOK
<1>2. /\ r \in HandlerState /\ r.at = "create" /\ r.token = t
      /\ r.family = handlers[h].family /\ r.user = handlers[h].user
  BY <1>1 DEF HandlerState, Awaits
<1>3. Becomes(h, r)
  BY DEF RefreshRevokes
<1>4. t \in TokenIds /\ tokens[t] \in TokenRow /\ tokens[t].st # "none"
  BY <1>1, SessionsAssumption DEF SessionsInv, SessionsTypeOK, HandlerOK, TokenIds
<1>5. /\ tokens' \in [TokenIds -> TokenRow]
      /\ tokens'[t].st = "revoked" /\ tokens'[t].user = tokens[t].user
      /\ tokens'[t].family = tokens[t].family
      /\ \A u \in TokenIds \ {t} : tokens'[u] = tokens[u]
  BY <1>1, <1>4 DEF SessionsInv, SessionsTypeOK, TokenRow
<1>. HIDE DEF t, r
<1>6. /\ handlers' \in [Handlers -> HandlerState]
      /\ \A g \in Handlers : handlers'[g] = IF g = h THEN r ELSE handlers[g]
  BY <1>2, <1>3, BecomesType DEF SessionsInv
<1>7. HandlersOK'
  <2>1. ASSUME NEW g \in Handlers
        PROVE  HandlerOK(handlers[g])'
    <3>1. \A u \in TokenIds : tokens[u].st # "none" => tokens'[u].st # "none"
      BY <1>5
    <3>2. HandlerOK(handlers[g]) /\ 1..minted \subseteq TokenIds
      BY SessionsAssumption DEF SessionsInv, SessionsTypeOK, HandlersOK, TokenIds
    <3>3. CASE g = h
      BY <1>1, <1>2, <1>6, <3>3 DEF HandlerOK
    <3>4. CASE g # h
      BY <1>1, <1>6, <3>1, <3>2, <3>4 DEF HandlerOK
    <3>. QED
      BY <3>3, <3>4
  <2>. QED
    BY <2>1 DEF HandlersOK
<1>8. SessionsTypeOK'
  <2>1. \A u \in TokenIds : tokens'[u].st # "none" =>
          tokens'[u].user \in DOMAIN users /\ tokens'[u].family \in 1..u /\ u <= minted
    BY <1>4, <1>5 DEF SessionsInv, SessionsTypeOK
  <2>. QED
    BY <1>1, <1>5, <1>6, <1>7, <2>1 DEF SessionsInv, SessionsTypeOK, HandlersOK, HandlerOK
<1>9. ASSUME NEW f \in TokenIds
      PROVE  /\ Live(f)' = Live(f) \ {t}
             /\ Rotating(f)' = Rotating(f) /\ Answering(f)' = Answering(f)
             /\ Rotating(f) \subseteq Handlers
             /\ \A g \in Handlers : handlers'[g].token = handlers[g].token
             /\ \A g \in Handlers \ {h} : handlers'[g] = handlers[g]
  BY <1>1, <1>2, <1>5, <1>6 DEF Live, Rotating, Answering, TokenIds, t
<1>10. ASSUME NEW f \in TokenIds, f \notin forked'
       PROVE  One(f)'
  <2>1. One(f)
    BY <1>1, <1>10 DEF SessionsInv, OnePerFamily
  <2>2. h \in Rotating(f) => Live(f)' = {}
    BY <1>9, <2>1 DEF One, t
  <2>. QED
    BY <1>9, <2>1, <2>2, OneShrinks
<1>11. ASSUME NEW f \in TokenIds
       PROVE  Closed(f)'
  <2>1. Closed(f) /\ access[f] \in Nat /\ minted \in Nat /\ now \in Nat
    BY DEF SessionsInv, ClosedFamilies, SessionsTypeOK
  <2>. QED
    BY <1>1, <1>9, <2>1, ClosedShrinks
<1>. QED
  BY <1>7, <1>8, <1>10, <1>11 DEF SessionsInv, OnePerFamily, ClosedFamilies

\* A family is revoked, by a logout or because a revoked token came back.
LEMMA FamilyRevokedKeeps ==
  ASSUME SessionsInv, NEW h \in Handlers, KillsFamily(h) \/ LogoutRevokes(h)
  PROVE  SessionsInv'
<1>0. PICK x : x = handlers[h].family
  OBVIOUS
<1>1. /\ handlers[h].at \in {"revokeReused", "revokeLeft"} /\ HandlerOK(handlers[h])
      /\ Becomes(h, Idle) /\ RevokeFamily(x)
      /\ UNCHANGED <<now, durable, users, minted, known, access, forked>>
  BY <1>0 DEF KillsFamily, LogoutRevokes, SessionsInv, HandlersOK
<1>2. x \in TokenIds /\ x <= minted /\ minted \in Nat /\ now \in Nat
  BY <1>0, <1>1, SessionsAssumption DEF HandlerOK, SessionsInv, SessionsTypeOK, TokenIds
<1>3. /\ handlers' \in [Handlers -> HandlerState]
      /\ \A g \in Handlers : handlers'[g] = IF g = h THEN Idle ELSE handlers[g]
  BY <1>1, IdleType, BecomesType DEF SessionsInv
<1>4. /\ tokens' \in [TokenIds -> TokenRow]
      /\ \A t \in TokenIds :
           /\ tokens'[t].user = tokens[t].user /\ tokens'[t].family = tokens[t].family
           /\ tokens'[t].st = IF t \in Live(x) THEN "revoked" ELSE tokens[t].st
  BY <1>1 DEF RevokeFamily, SessionsInv, SessionsTypeOK, TokenRow
<1>5. \A t \in TokenIds : tokens'[t].st = "none" <=> tokens[t].st = "none"
  BY <1>4 DEF Live
<1>6. /\ deadline' \in [TokenIds -> Nat]
      /\ \A f \in TokenIds : deadline'[f] =
           IF f = x /\ Rotating(f) \cup Answering(f) = {} /\ deadline[f] = 0
             THEN now + AccessTtl ELSE deadline[f]
  BY <1>1, <1>2, SessionsAssumption DEF RevokeFamily, SessionsInv, SessionsTypeOK
<1>7. HandlersOK'
  <2>1. ASSUME NEW g \in Handlers
        PROVE  HandlerOK(handlers[g])'
    <3>1. HandlerOK(handlers[g]) /\ 1..minted \subseteq TokenIds
      BY SessionsAssumption DEF SessionsInv, SessionsTypeOK, HandlersOK, TokenIds
    <3>. QED
      BY <1>1, <1>3, <1>5, <3>1, IdleType DEF HandlerOK
  <2>. QED
    BY <2>1 DEF HandlersOK
<1>8. SessionsTypeOK'
  <2>1. \A u \in TokenIds : tokens'[u].st # "none" =>
          tokens'[u].user \in DOMAIN users /\ tokens'[u].family \in 1..u /\ u <= minted
    BY <1>4, <1>5 DEF SessionsInv, SessionsTypeOK
  <2>. QED
    BY <1>1, <1>3, <1>4, <1>6, <1>7, <2>1 DEF SessionsInv, SessionsTypeOK, HandlersOK, HandlerOK
<1>9. ASSUME NEW f \in TokenIds
      PROVE  /\ Live(f)' = IF f = x THEN {} ELSE Live(f)
             /\ Rotating(f)' = Rotating(f) /\ Answering(f)' = Answering(f)
             /\ \A g \in Rotating(f) : handlers'[g] = handlers[g]
  BY <1>1, <1>3, <1>4, IdleType DEF Live, Rotating, Answering
<1>10. ASSUME NEW f \in TokenIds, f \notin forked'
       PROVE  One(f)'
  <2>1. One(f)
    BY <1>1, <1>10 DEF SessionsInv, OnePerFamily
  <2>. QED
    BY <1>9, <2>1, OneShrinks
<1>11. ASSUME NEW f \in TokenIds
       PROVE  Closed(f)'
  <2>1. Closed(f) /\ access[f] \in Nat
    BY DEF SessionsInv, ClosedFamilies, SessionsTypeOK
  <2>2. CASE deadline'[f] = deadline[f]
    BY <1>1, <1>2, <1>9, <2>1, <2>2, ClosedShrinks
  <2>3. CASE deadline'[f] # deadline[f]
    <3>1. /\ f = x /\ Rotating(f) = {} /\ Answering(f) = {} /\ deadline'[f] = now + AccessTtl
      BY <1>6, <2>3
    <3>2. Live(f)' = {} /\ Rotating(f)' = {} /\ Answering(f)' = {}
      BY <1>9, <3>1
    <3>. QED
      BY <1>1, <1>2, <2>1, <3>1, <3>2 DEF Closed
  <2>. QED
    BY <2>2, <2>3
<1>. QED
  BY <1>7, <1>8, <1>10, <1>11 DEF SessionsInv, OnePerFamily, ClosedFamilies

\* A new row: the only live one of its family, unless the family is forked.
LEMMA IssuesKeeps ==
  ASSUME SessionsInv, NEW h \in Handlers, Issues(h)
  PROVE  SessionsInv'
<1>0. PICK t, x : /\ t = minted + 1
                  /\ x = IF handlers[h].family = 0 THEN t ELSE handlers[h].family
  OBVIOUS
<1>. DEFINE row == [st |-> "live", user |-> handlers[h].user, family |-> x,
                    expiresAt |-> now + RefreshTtl]
            r == [handlers[h] EXCEPT !.at = "answer", !.token = t, !.family = x]
<1>1. /\ handlers[h].at = "create" /\ handlers[h] \in HandlerState /\ HandlerOK(handlers[h])
      /\ minted < MaxTokens /\ minted' = t
      /\ tokens' = [tokens EXCEPT ![t] = row]
      /\ Becomes(h, r)
      /\ UNCHANGED <<now, durable, users, known, access, forked, deadline>>
  BY <1>0 DEF Issues, sessionHistory, SessionsInv, SessionsTypeOK, HandlersOK
<1>2. /\ minted \in Nat /\ now \in Nat /\ t \in TokenIds /\ t \in 0..MaxTokens
      /\ x \in TokenIds /\ x \in 0..MaxTokens /\ x <= t
      /\ x = t \/ (x = handlers[h].family /\ x \in 1..minted)
  <2>1. minted \in 0..MaxTokens /\ now \in Nat /\ MaxTokens \in Nat /\ TokenIds = 1..MaxTokens
    BY SessionsAssumption DEF SessionsInv, SessionsTypeOK, TokenIds
  <2>2. handlers[h].family = 0 \/ handlers[h].family \in 1..minted
    BY <1>1 DEF HandlerOK
  <2>. QED
    BY <1>0, <1>1, <2>1, <2>2
<1>3. /\ r \in HandlerState /\ r.at = "answer" /\ r.token = t /\ r.family = x
      /\ r.user = handlers[h].user
  BY <1>1, <1>2 DEF HandlerState, Awaits
<1>4. row \in TokenRow /\ row.user \in DOMAIN users
  BY <1>1, <1>2, SessionsAssumption DEF HandlerOK, HandlerState, TokenRow
<1>5. /\ tokens' \in [TokenIds -> TokenRow]
      /\ tokens'[t] = row
      /\ \A u \in TokenIds \ {t} : tokens'[u] = tokens[u]
  BY <1>1, <1>2, <1>4 DEF SessionsInv, SessionsTypeOK
<1>6. row.st = "live" /\ row.family = x
  OBVIOUS
<1>. HIDE DEF row, r
<1>7. /\ handlers' \in [Handlers -> HandlerState]
      /\ \A g \in Handlers : handlers'[g] = IF g = h THEN r ELSE handlers[g]
  BY <1>1, <1>3, BecomesType DEF SessionsInv
<1>8. HandlersOK'
  <2>1. ASSUME NEW g \in Handlers
        PROVE  HandlerOK(handlers[g])'
    <3>1. HandlerOK(handlers[g]) /\ 1..minted \subseteq TokenIds
      BY SessionsAssumption DEF SessionsInv, SessionsTypeOK, HandlersOK, TokenIds
    <3>2. /\ 1..minted \subseteq 1..minted' /\ 0..minted \subseteq 0..minted'
          /\ t \in 1..minted' /\ x \in 1..minted' /\ \A u \in 1..minted : u # t
      BY <1>0, <1>1, <1>2
    <3>3. CASE g = h
      BY <1>1, <1>3, <1>7, <3>2, <3>3 DEF HandlerOK
    <3>4. CASE g # h
      BY <1>1, <1>5, <1>7, <3>1, <3>2, <3>4 DEF HandlerOK
    <3>. QED
      BY <3>3, <3>4
  <2>. QED
    BY <2>1 DEF HandlersOK
<1>9. SessionsTypeOK'
  <2>1. ASSUME NEW u \in TokenIds, tokens'[u].st # "none"
        PROVE  tokens'[u].user \in DOMAIN users /\ tokens'[u].family \in 1..u /\ u <= minted'
    <3>1. CASE u = t
      BY <1>0, <1>1, <1>2, <1>4, <1>5, <1>6, <3>1 DEF TokenIds
    <3>2. CASE u # t
      BY <1>0, <1>1, <1>2, <1>5, <2>1, <3>2 DEF SessionsInv, SessionsTypeOK, TokenIds
    <3>. QED
      BY <3>1, <3>2
  <2>2. minted' \in 0..MaxTokens
    BY <1>1, <1>2
  <2>. QED
    BY <1>1, <1>5, <1>7, <1>8, <2>1, <2>2 DEF SessionsInv, SessionsTypeOK, HandlersOK, HandlerOK
<1>10. /\ \A u \in TokenIds : tokens[u].st # "none" => u # t
       /\ t \notin Live(x)
  BY <1>0, <1>2 DEF SessionsInv, SessionsTypeOK, TokenIds, Live
<1>11. ASSUME NEW f \in TokenIds
       PROVE  /\ Live(f)' = IF f = x THEN Live(f) \cup {t} ELSE Live(f)
              /\ Rotating(f)' = Rotating(f) \ {h}
              /\ Answering(f)' = IF f = x THEN Answering(f) \cup {h} ELSE Answering(f)
              /\ \A g \in Rotating(f)' : g \in Handlers /\ handlers'[g] = handlers[g]
  <2>1. Live(f)' = IF f = x THEN Live(f) \cup {t} ELSE Live(f)
    BY <1>2, <1>5, <1>6, <1>10 DEF Live
  <2>2. /\ Rotating(f)' = Rotating(f) \ {h}
        /\ \A g \in Rotating(f)' : g \in Handlers /\ handlers'[g] = handlers[g]
    BY <1>3, <1>7 DEF Rotating
  <2>3. Answering(f)' = IF f = x THEN Answering(f) \cup {h} ELSE Answering(f)
    BY <1>1, <1>3, <1>7 DEF Answering
  <2>. QED
    BY <2>1, <2>2, <2>3
<1>12. x = t => Live(x) = {} /\ Rotating(x) = {}
  BY <1>0, <1>2
  DEF SessionsInv, SessionsTypeOK, HandlersOK, HandlerOK, TokenIds, Live, Rotating
<1>13. x # t => h \in Rotating(x)
  BY <1>1, <1>2 DEF Rotating
<1>14. ASSUME NEW f \in TokenIds, f \notin forked'
       PROVE  One(f)'
  <2>1. One(f)
    BY <1>1, <1>14 DEF SessionsInv, OnePerFamily
  <2>2. CASE f = x
    <3>1. Live(f) = {} /\ Rotating(f) \subseteq {h}
      <4>1. CASE x = t
        BY <1>12, <2>2, <4>1
      <4>2. CASE x # t
        BY <1>1, <1>13, <2>1, <2>2, <4>2 DEF One
      <4>. QED
        BY <4>1, <4>2
    <3>2. Live(f)' = {t} /\ Rotating(f)' = {}
      BY <1>11, <2>2, <3>1
    <3>. QED
      BY <3>2 DEF One
  <2>3. CASE f # x
    BY <1>11, <2>1, <2>3, OneShrinks
  <2>. QED
    BY <2>2, <2>3
<1>15. ASSUME NEW f \in TokenIds
       PROVE  Closed(f)'
  <2>1. Closed(f) /\ access[f] \in Nat
    BY DEF SessionsInv, ClosedFamilies, SessionsTypeOK
  <2>2. CASE f = x
    <3>1. deadline[f] = 0
      BY <1>0, <1>2, <1>13, <2>1, <2>2 DEF Closed
    <3>2. access[f] <= now + AccessTtl
      BY <2>1 DEF Closed
    <3>. QED
      BY <1>1, <3>1, <3>2 DEF Closed
  <2>3. CASE f # x
    <3>1. minted' \in Nat /\ minted <= minted'
      BY <1>0, <1>1, <1>2
    <3>. QED
      BY <1>1, <1>2, <1>11, <2>1, <2>3, <3>1, ClosedShrinks
  <2>. QED
    BY <2>2, <2>3
<1>. QED
  BY <1>8, <1>9, <1>14, <1>15 DEF SessionsInv, OnePerFamily, ClosedFamilies

\* The pair goes out: the family was not closed while it was on its way.
LEMMA AnswersKeeps ==
  ASSUME SessionsInv, NEW h \in Handlers, Answers(h)
  PROVE  SessionsInv'
<1>0. PICK x : x = handlers[h].family
  OBVIOUS
<1>1. /\ handlers[h].at = "answer" /\ HandlerOK(handlers[h]) /\ Becomes(h, Idle)
      /\ access' = [access EXCEPT ![x] = now + AccessTtl]
      /\ known' = known \cup {handlers[h].token}
      /\ UNCHANGED <<now, durable, users, tokens, minted, forked, deadline>>
  BY <1>0 DEF Answers, sessionHistory, SessionsInv, HandlersOK
<1>2. /\ x \in TokenIds /\ handlers[h].token \in TokenIds
      /\ minted \in Nat /\ now \in Nat /\ now + AccessTtl \in Nat
  BY <1>0, <1>1, SessionsAssumption DEF HandlerOK, SessionsInv, SessionsTypeOK, TokenIds
<1>3. /\ handlers' \in [Handlers -> HandlerState]
      /\ \A g \in Handlers : handlers'[g] = IF g = h THEN Idle ELSE handlers[g]
  BY <1>1, IdleType, BecomesType DEF SessionsInv
<1>4. HandlersOK'
  BY <1>1, <1>3, IdleType DEF SessionsInv, HandlersOK, HandlerOK
<1>5. SessionsTypeOK'
  BY <1>1, <1>2, <1>3, <1>4 DEF SessionsInv, SessionsTypeOK, HandlersOK, HandlerOK
<1>6. ASSUME NEW f \in TokenIds
      PROVE  /\ Live(f)' = Live(f) /\ Rotating(f)' = Rotating(f)
             /\ Answering(f)' \subseteq Answering(f)
             /\ \A g \in Rotating(f) : handlers'[g] = handlers[g]
  BY <1>1, <1>3, IdleType DEF Live, Rotating, Answering
<1>7. ASSUME NEW f \in TokenIds, f \notin forked'
      PROVE  One(f)'
  <2>1. One(f)
    BY <1>1, <1>7 DEF SessionsInv, OnePerFamily
  <2>. QED
    BY <1>6, <2>1, OneShrinks
<1>8. ASSUME NEW f \in TokenIds
      PROVE  Closed(f)'
  <2>1. Closed(f) /\ access \in [TokenIds -> Nat]
    BY DEF SessionsInv, ClosedFamilies, SessionsTypeOK
  <2>2. CASE f = x
    <3>1. h \in Answering(f) /\ deadline[f] = 0
      BY <1>0, <1>1, <2>1, <2>2 DEF Closed, Answering
    <3>2. access'[f] = now + AccessTtl
      BY <1>1, <2>1, <2>2
    <3>. QED
      BY <1>1, <1>2, <3>1, <3>2 DEF Closed
  <2>3. CASE f # x
    BY <1>1, <1>2, <1>6, <2>1, <2>3, ClosedShrinks
  <2>. QED
    BY <2>2, <2>3
<1>. QED
  BY <1>4, <1>5, <1>7, <1>8 DEF SessionsInv, OnePerFamily, ClosedFamilies

\* Rows of users are added at the end.
LEMMA RegisterCreatesKeeps ==
  ASSUME SessionsInv, NEW h \in Handlers, RegisterCreates(h)
  PROVE  SessionsInv'
<1>1. /\ handlers[h].at = "createUser" /\ Becomes(h, Idle) /\ Len(users') <= MaxUsers
      /\ users' = users \/ users' = Append(users, handlers[h].email)
      /\ UNCHANGED <<now, durable, tokens, minted, known, access, forked, deadline>>
  BY DEF RegisterCreates, sessionHistory
<1>2. /\ users \in Seq(Emails) /\ handlers[h].email \in Emails
      /\ minted \in Nat /\ now \in Nat
  BY <1>1 DEF SessionsInv, SessionsTypeOK, HandlersOK, HandlerOK
<1>3. users' \in Seq(Emails) /\ DOMAIN users \subseteq DOMAIN users'
  <2>1. CASE users' = users
    BY <1>2, <2>1
  <2>2. CASE users' = Append(users, handlers[h].email)
    BY <1>2, <2>2
  <2>. QED
    BY <1>1, <2>1, <2>2
<1>4. /\ handlers' \in [Handlers -> HandlerState]
      /\ \A g \in Handlers : handlers'[g] = IF g = h THEN Idle ELSE handlers[g]
  BY <1>1, IdleType, BecomesType DEF SessionsInv
<1>5. HandlersOK'
  <2>1. ASSUME NEW g \in Handlers
        PROVE  HandlerOK(handlers[g])'
    <3>1. HandlerOK(handlers[g])
      BY DEF SessionsInv, HandlersOK
    <3>. QED
      BY <1>1, <1>3, <1>4, <3>1, IdleType DEF HandlerOK
  <2>. QED
    BY <2>1 DEF HandlersOK
<1>6. SessionsTypeOK'
  <2>1. \A t \in TokenIds : tokens'[t].st # "none" =>
          tokens'[t].user \in DOMAIN users' /\ tokens'[t].family \in 1..t /\ t <= minted'
    BY <1>1, <1>3 DEF SessionsInv, SessionsTypeOK
  <2>. QED
    BY <1>1, <1>3, <1>4, <1>5, <2>1 DEF SessionsInv, SessionsTypeOK, HandlersOK, HandlerOK
<1>7. ASSUME NEW f \in TokenIds
      PROVE  /\ Live(f)' = Live(f) /\ Rotating(f)' = Rotating(f)
             /\ Answering(f)' = Answering(f)
             /\ \A g \in Rotating(f) : handlers'[g] = handlers[g]
  BY <1>1, <1>4, IdleType DEF Live, Rotating, Answering
<1>8. ASSUME NEW f \in TokenIds, f \notin forked'
      PROVE  One(f)'
  <2>1. One(f)
    BY <1>1, <1>8 DEF SessionsInv, OnePerFamily
  <2>. QED
    BY <1>7, <2>1, OneShrinks
<1>9. ASSUME NEW f \in TokenIds
      PROVE  Closed(f)'
  <2>1. Closed(f) /\ access[f] \in Nat
    BY DEF SessionsInv, ClosedFamilies, SessionsTypeOK
  <2>. QED
    BY <1>1, <1>2, <1>7, <2>1, ClosedShrinks
<1>. QED
  BY <1>5, <1>6, <1>8, <1>9 DEF SessionsInv, OnePerFamily, ClosedFamilies

\* No handler survives its process, and no row in a map does.
LEMMA RestartKeeps ==
  ASSUME SessionsInv, Restart
  PROVE  SessionsInv'
<1>1. /\ handlers' = [h \in Handlers |-> Idle]
      /\ UNCHANGED <<now, durable, minted, known, access, forked, deadline>>
      /\ \/ UNCHANGED <<users, tokens>>
         \/ users' = <<>> /\ tokens' = [t \in TokenIds |-> NoRow]
  BY DEF Restart, sessionHistory
<1>2. minted \in Nat /\ now \in Nat
  BY DEF SessionsInv, SessionsTypeOK
<1>3. /\ handlers' \in [Handlers -> HandlerState]
      /\ \A h \in Handlers : handlers'[h] = Idle
  BY <1>1, IdleType
<1>4. HandlersOK'
  BY <1>3, IdleType DEF HandlersOK, HandlerOK
<1>5. SessionsTypeOK'
  <2>1. CASE UNCHANGED <<users, tokens>>
    BY <1>1, <1>3, <2>1, IdleType DEF SessionsInv, SessionsTypeOK
  <2>2. CASE users' = <<>> /\ tokens' = [t \in TokenIds |-> NoRow]
    <3>1. NoRow \in TokenRow /\ NoRow.st = "none"
      BY SessionsAssumption DEF NoRow, TokenRow
    <3>2. tokens' \in [TokenIds -> TokenRow] /\ \A t \in TokenIds : tokens'[t].st = "none"
      BY <2>2, <3>1
    <3>3. users' \in Seq(Emails) /\ Len(users') <= MaxUsers
      BY <2>2, SessionsAssumption
    <3>. QED
      BY <1>1, <1>3, <3>2, <3>3, IdleType DEF SessionsInv, SessionsTypeOK
  <2>. QED
    BY <1>1, <2>1, <2>2
<1>6. ASSUME NEW f \in TokenIds
      PROVE  Live(f)' \subseteq Live(f) /\ Rotating(f)' = {} /\ Answering(f)' = {}
  <2>1. Live(f)' \subseteq Live(f)
    BY <1>1 DEF Live, NoRow
  <2>. QED
    BY <1>3, <2>1, IdleType DEF Rotating, Answering
<1>7. ASSUME NEW f \in TokenIds, f \notin forked'
      PROVE  One(f)'
  <2>1. One(f)
    BY <1>1, <1>7 DEF SessionsInv, OnePerFamily
  <2>. QED
    BY <1>6, <2>1, OneShrinks
<1>8. ASSUME NEW f \in TokenIds
      PROVE  Closed(f)'
  <2>1. Closed(f) /\ access[f] \in Nat
    BY DEF SessionsInv, ClosedFamilies, SessionsTypeOK
  <2>. QED
    BY <1>1, <1>2, <1>6, <2>1, ClosedShrinks
<1>. QED
  BY <1>4, <1>5, <1>7, <1>8 DEF SessionsInv, OnePerFamily, ClosedFamilies

\* Time passes, or nothing happens.
LEMMA SessionTickKeeps ==
  ASSUME SessionsInv, SessionTick \/ UNCHANGED sessionVars
  PROVE  SessionsInv'
<1>1. /\ now \in Nat /\ now' \in Nat /\ now <= now' /\ minted \in Nat
      /\ UNCHANGED <<durable, users, tokens, minted, known, handlers, access, forked, deadline>>
  BY DEF SessionTick, Tick, sessionVars, sessionHistory, SessionsInv, SessionsTypeOK
<1>2. SessionsTypeOK' /\ HandlersOK'
  BY <1>1 DEF SessionsInv, SessionsTypeOK, HandlersOK, HandlerOK
<1>3. ASSUME NEW f \in TokenIds
      PROVE  /\ Live(f)' = Live(f) /\ Rotating(f)' = Rotating(f)
             /\ Answering(f)' = Answering(f)
             /\ \A g \in Rotating(f) : handlers'[g] = handlers[g]
  BY <1>1 DEF Live, Rotating, Answering
<1>4. OnePerFamily'
  BY <1>1, <1>3, OneShrinks DEF SessionsInv, OnePerFamily
<1>5. ASSUME NEW f \in TokenIds
      PROVE  Closed(f)'
  <2>1. Closed(f) /\ access[f] \in Nat
    BY DEF SessionsInv, ClosedFamilies, SessionsTypeOK
  <2>. QED
    BY <1>1, <1>3, <2>1, ClosedShrinks
<1>. QED
  BY <1>2, <1>4, <1>5 DEF SessionsInv, ClosedFamilies

------------------------------------------------------------------------------
(* Theorems *)

LEMMA SessionsInitially == InitSessions => SessionsInv
<1> SUFFICES ASSUME InitSessions PROVE SessionsInv
  OBVIOUS
<1>1. NoRow \in TokenRow /\ NoRow.st = "none"
  BY SessionsAssumption DEF NoRow, TokenRow
<1>2. SessionsTypeOK
  <2>1. users \in Seq(Emails) /\ Len(users) <= MaxUsers
    BY SessionsAssumption DEF InitSessions
  <2>. QED
    BY <1>1, <2>1, IdleType, SessionsAssumption DEF InitSessions, SessionsTypeOK
<1>3. HandlersOK
  BY IdleType DEF InitSessions, HandlersOK, HandlerOK
<1>4. \A f \in TokenIds : Live(f) = {} /\ Rotating(f) = {} /\ Answering(f) = {}
  BY <1>1, IdleType DEF InitSessions, Live, Rotating, Answering
<1>5. OnePerFamily
  BY <1>4 DEF OnePerFamily, One
<1>6. ClosedFamilies
  BY SessionsAssumption DEF InitSessions, ClosedFamilies, Closed
<1>. QED
  BY <1>2, <1>3, <1>5, <1>6 DEF SessionsInv

\* The inductive invariant holds in every state reached.
THEOREM SessionsInvariant == SpecSessions => []SessionsInv
<1>1. SessionsInv /\ [NextSessions]_sessionVars => SessionsInv'
  <2> SUFFICES ASSUME SessionsInv, [NextSessions]_sessionVars
               PROVE  SessionsInv'
    OBVIOUS
  <2>1. ASSUME NEW h \in Handlers,
               \/ \E e \in Emails : RegisterFinds(h, e) \/ LoginFinds(h, e)
               \/ \E t \in known : RefreshFinds(h, t) \/ LogoutFinds(h, t)
               \/ RegisterCreates(h) \/ LoginCompares(h)
               \/ RefreshFindsUser(h) \/ RefreshRevokes(h) \/ KillsFamily(h)
               \/ Issues(h) \/ Answers(h) \/ LogoutRevokes(h) \/ Fails(h)
        PROVE  SessionsInv'
    BY <2>1, QuietSteps, RefreshFindsKeeps, RefreshRevokesKeeps, FamilyRevokedKeeps,
       IssuesKeeps, AnswersKeeps, RegisterCreatesKeeps
  <2>. QED
    BY <2>1, RestartKeeps, SessionTickKeeps DEF NextSessions
<1>. QED
  BY <1>1, SessionsInitially, PTL DEF SpecSessions

\* Rows and handlers name accounts and families there are, whatever fails and
\* restarts.
THEOREM SessionsTypeCorrect == SpecSessions => []SessionsTypeOK
<1>1. SessionsInv => SessionsTypeOK
  BY DEF SessionsInv
<1>. QED
  BY <1>1, SessionsInvariant, PTL

\* A session has one token that works, unless two refreshes read a live token
\* of it before either revoked it (auth.service.ts:86-104).
THEOREM OneLiveToken == SpecSessions => []OneLive
<1>1. SessionsInv => OneLive
  <2> SUFFICES ASSUME SessionsInv, NEW f \in TokenIds, f \notin forked
               PROVE  Cardinality(Live(f)) <= 1
    BY DEF OneLive
  <2>1. \A t, u \in Live(f) : t = u
    BY DEF SessionsInv, OnePerFamily, One
  <2>2. CASE Live(f) = {}
    BY <2>2, FS_EmptySet
  <2>3. CASE Live(f) # {}
    <3>1. PICK t : Live(f) = {t}
      BY <2>1, <2>3
    <3>2. Cardinality(Live(f)) = 1
      BY <3>1, FS_Singleton, Zenon
    <3>. QED
      BY <3>2
  <2>. QED
    BY <2>2, <2>3
<1>. QED
  BY <1>1, SessionsInvariant, PTL

\* What a logout or a found reuse closed while no refresh was under way stays
\* closed, and the access tokens end in time (auth.service.ts:91-104, 108-113).
THEOREM ClosedForGood == SpecSessions => []ClosedStaysClosed
<1>1. SessionsInv => ClosedStaysClosed
  BY DEF SessionsInv, ClosedFamilies, Closed, ClosedStaysClosed
<1>. QED
  BY <1>1, SessionsInvariant, PTL

\* No session is closed by another (auth.service.ts:91-104, 108-113).
THEOREM NoOtherCloses == SpecSessions => NoFalseAlarm
<1>. DEFINE Mine(t) == \E h \in Handlers :
              \/ handlers[h].at = "revoke" /\ handlers[h].token = t
              \/ handlers[h].at \in {"revokeReused", "revokeLeft"}
                 /\ handlers[h].family = tokens[t].family
            Alarm == \A t \in TokenIds :
              tokens[t].st = "live" /\ tokens'[t].st = "revoked" => Mine(t)
<1>1. SessionsInv /\ [NextSessions]_sessionVars => [Alarm]_sessionVars
  <2> SUFFICES ASSUME SessionsInv, NextSessions, NEW t \in TokenIds,
                      tokens[t].st = "live", tokens'[t].st = "revoked"
               PROVE  Mine(t)
    BY DEF sessionVars
  <2>1. tokens' # tokens /\ tokens'[t] # NoRow
    BY DEF NoRow
  <2>2. CASE \E h \in Handlers : Issues(h)
    <3>1. PICK h \in Handlers : Issues(h)
      BY <2>2
    <3>2. tokens'[t].st \in {tokens[t].st, "live"}
      BY <3>1 DEF Issues, SessionsInv, SessionsTypeOK
    <3>. QED
      BY <3>2
  <2>3. CASE \E h \in Handlers : RefreshRevokes(h)
    <3>1. PICK h \in Handlers : RefreshRevokes(h)
      BY <2>3
    <3>2. tokens' = [tokens EXCEPT ![handlers[h].token].st = "revoked"]
      BY <3>1 DEF RefreshRevokes, RevokeOne
    <3>3. handlers[h].token = t /\ handlers[h].at = "revoke"
      BY <3>1, <3>2 DEF RefreshRevokes, SessionsInv, SessionsTypeOK
    <3>. QED
      BY <3>3
  <2>4. CASE \E h \in Handlers : KillsFamily(h) \/ LogoutRevokes(h)
    <3>1. PICK h \in Handlers : KillsFamily(h) \/ LogoutRevokes(h)
      BY <2>4
    <3>2. /\ handlers[h].at \in {"revokeReused", "revokeLeft"}
          /\ RevokeFamily(handlers[h].family)
      BY <3>1 DEF KillsFamily, LogoutRevokes
    <3>3. t \in Live(handlers[h].family)
      BY <3>2 DEF RevokeFamily
    <3>. QED
      BY <3>2, <3>3 DEF Live
  <2>5. CASE Restart
    BY <2>1, <2>5 DEF Restart
  <2>6. CASE UNCHANGED tokens
    BY <2>1, <2>6
  <2>. QED
    BY <2>2, <2>3, <2>4, <2>5, <2>6
    DEF NextSessions, RegisterFinds, LoginFinds, RefreshFinds, LogoutFinds, RegisterCreates,
        LoginCompares, RefreshFindsUser, Answers, Fails, SessionTick
<1>. QED
  BY <1>1, SessionsInvariant, PTL DEF SpecSessions, NoFalseAlarm

\* The first row of an e-mail stays the first: rows are added behind it
\* (auth.service.ts:55-64, in-memory-repositories.ts:16-31).
THEOREM LoginStable == SpecSessions => StableLogin
<1>. DEFINE Stays == \A e \in Emails : FindByEmail(e) # 0 =>
              \/ FindByEmail(e)' = FindByEmail(e)
              \/ ~durable /\ users' = <<>>
<1>1. SessionsInv /\ [NextSessions]_sessionVars => [Stays]_sessionVars
  <2> SUFFICES ASSUME SessionsInv, NextSessions, NEW e \in Emails, FindByEmail(e) # 0,
                      ~(~durable /\ users' = <<>>)
               PROVE  FindByEmail(e)' = FindByEmail(e)
    BY DEF sessionVars
  <2>1. CASE UNCHANGED users
    BY <2>1 DEF FindByEmail, Holders
  <2>2. CASE \E x : users' = Append(users, x)
    <3>1. PICK x : users' = Append(users, x)
      BY <2>2
    <3>2. users \in Seq(Emails)
      BY DEF SessionsInv, SessionsTypeOK
    <3>3. PICK u : u = FindByEmail(e)
      OBVIOUS
    <3>4. /\ u \in Holders(e) /\ \A v \in Holders(e) : u <= v
          /\ Holders(e) \subseteq 1..Len(users) /\ Len(users) \in Nat
      <4>1. Holders(e) # {}
        BY DEF FindByEmail
      <4>. QED
        BY <3>2, <3>3, <4>1, FindByEmailFinds DEF Holders
    <3>5. \A v \in Holders(e)' : v \in Holders(e) \/ v = Len(users) + 1
      BY <3>1, <3>2 DEF Holders
    <3>6. Holders(e) \subseteq Holders(e)'
      BY <3>1, <3>2 DEF Holders
    <3>7. u \in Holders(e)' /\ \A v \in Holders(e)' : u <= v /\ v \in Nat
      BY <3>4, <3>5, <3>6
    <3>8. FindByEmail(e)' = u
      BY <3>7 DEF FindByEmail
    <3>. QED
      BY <3>3, <3>8
  <2>3. CASE \E h \in Handlers : RegisterCreates(h)
    BY <2>1, <2>2, <2>3 DEF RegisterCreates
  <2>4. CASE Restart
    BY <2>1, <2>4 DEF Restart
  <2>. QED
    BY <2>1, <2>3, <2>4
    DEF NextSessions, RegisterFinds, LoginFinds, RefreshFinds, LogoutFinds, KillsFamily,
        LogoutRevokes, RefreshRevokes, Issues, LoginCompares, RefreshFindsUser, Answers, Fails,
        SessionTick
<1>. QED
  BY <1>1, SessionsInvariant, PTL DEF SpecSessions, StableLogin
=============================================================================
