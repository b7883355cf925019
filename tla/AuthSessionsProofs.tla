------------------------- MODULE AuthSessionsProofs -------------------------
(***************************************************************************)
(* Proofs about AuthSessions, for any number of requests, sessions and     *)
(* tokens.                                                                 *)
(***************************************************************************)
EXTENDS AuthSessions, TLAPS

\* The token a request generates was never issued before.
LEMMA FreshToken ==
    ASSUME Issued # Tokens
    PROVE  Fresh \in Tokens /\ owner[Fresh] = None
BY DEF Fresh, Issued

\* The steps of a request, one disjunct per action.
Step(r) ==
    \/ \E s \in Sessions : LoginCreate(r, s)
    \/ Reply(r)
    \/ \E h \in Tokens : RefreshFind(r, h)
    \/ RefreshFill(r) \/ RefreshCheck(r)
    \/ RotateRead(r) \/ Rotate(r) \/ RotateInvalidate(r)
    \/ ReuseFind(r) \/ ReuseFill(r)
    \/ FamilyRead(r) \/ FamilyUpdate(r) \/ FamilyInvalidate(r)
    \/ \E h \in Tokens, s \in Sessions : LogoutValidate(r, h, s)
    \/ LogoutAppend(r) \/ LogoutRevoke(r) \/ LogoutInvalidate(r)
    \/ \E h \in Tokens : LogoutAllRead(r, h)
    \/ LogoutAllUpdate(r)
    \/ \E s \in Sessions : LogoutAllVisit(r, s)
    \/ LogoutAllInvalidate(r)
    \/ Finish(r)

\* Every step is a handler's, an expiry, or leaves everything as it is.
LEMMA NextSteps ==
    ASSUME [Next]_vars
    PROVE  (\E r \in Requests : Step(r)) \/ (\E h \in Tokens : Expire(h)) \/ UNCHANGED vars
BY DEF Next, Step, Login, Refresh, Logout, LogoutAll

-----------------------------------------------------------------------------
(* Types.                                                                  *)

\* Deleting cache keys, or failing to, keeps the caches well typed.
LEMMA InvalidateTypes ==
    ASSUME StoreTypes, NEW K, NEW S, Invalidate(K, S)
    PROVE  /\ refreshCache' \in [Tokens -> {"none", "active", "revoked"}]
           /\ idCache' \subseteq Sessions
BY DEF StoreTypes, Invalidate, caches

\* A handler leaves the sessions, tokens and caches well typed.
LEMMA StoreTypesStep ==
    ASSUME TypeOK, Presented, FamilyReason, \A x \in Requests : LogoutBy(x), NEW r \in Requests, Step(r)
    PROVE  StoreTypes'
<1> USE DEF Goto, Idle, database, caches, issue, locals, history
<1> SUFFICES StoreTypes'
    OBVIOUS
<1>0. StoreTypes /\ RequestTypes
    BY DEF TypeOK
<1>1. ASSUME NEW s \in Sessions, LoginCreate(r, s) PROVE StoreTypes'
    BY <1>0, <1>1, FreshToken DEF LoginCreate, Generate, StoreTypes
<1>2. CASE Reply(r)
    BY <1>0, <1>2 DEF Reply, StoreTypes, RequestTypes, Presented, PresentedBy
<1>3. ASSUME NEW h \in Tokens, RefreshFind(r, h) PROVE StoreTypes'
    BY <1>0, <1>3 DEF RefreshFind, StoreTypes
<1>4. CASE RefreshFill(r)
  <2>1. tok[r] \in Tokens /\ copy[r] \in {"none", "active", "revoked"}
    BY <1>0, <1>4 DEF RefreshFill, Presented, PresentedBy, RequestTypes
  <2> QED
    BY <1>0, <1>4, <2>1 DEF RefreshFill, StoreTypes
<1>5. CASE RefreshCheck(r)
    BY <1>0, <1>5 DEF RefreshCheck, StoreTypes
<1>6. CASE RotateRead(r)
    BY <1>0, <1>6 DEF RotateRead, StoreTypes
<1>7. CASE Rotate(r)
  <2>1. tok[r] \in Tokens /\ owner[tok[r]] \in Sessions
    BY <1>0, <1>7 DEF Rotate, Presented, PresentedBy, RequestTypes, StoreTypes
  <2>2. CASE RotateMatches(owner[tok[r]], tok[r])
    BY <1>0, <1>7, <2>1, <2>2, FreshToken DEF Rotate, Generate, StoreTypes
  <2>3. CASE ~RotateMatches(owner[tok[r]], tok[r])
    BY <1>0, <1>7, <2>1, <2>3 DEF Rotate, StoreTypes
  <2> QED
    BY <2>2, <2>3
<1>8. CASE RotateInvalidate(r)
    BY <1>0, <1>8, InvalidateTypes DEF RotateInvalidate, StoreTypes
<1>9. CASE ReuseFind(r)
    BY <1>0, <1>9 DEF ReuseFind, StoreTypes
<1>10. CASE ReuseFill(r)
  <2>1. tok[r] \in Tokens /\ owner[tok[r]] \in Sessions
    BY <1>0, <1>10 DEF ReuseFill, Presented, PresentedBy, RequestTypes, StoreTypes
  <2> QED
    BY <1>0, <1>10, <2>1 DEF ReuseFill, StoreTypes
<1>11. CASE FamilyRead(r)
    BY <1>0, <1>11 DEF FamilyRead, StoreTypes
<1>12. CASE FamilyUpdate(r)
  <2>1. reason[r] \in Reasons
    BY <1>0, <1>12 DEF FamilyUpdate, FamilyReason, Reasons
  <2> QED
    BY <1>0, <1>12, <2>1 DEF FamilyUpdate, StoreTypes
<1>13. CASE FamilyInvalidate(r)
    BY <1>0, <1>13, InvalidateTypes DEF FamilyInvalidate, StoreTypes
<1>14. ASSUME NEW h \in Tokens, NEW s \in Sessions, LogoutValidate(r, h, s) PROVE StoreTypes'
    BY <1>0, <1>14 DEF LogoutValidate, StoreTypes
<1>15. CASE LogoutAppend(r)
  <2>1. tok[r] \in Tokens
    BY <1>0, <1>15 DEF LogoutAppend, Presented, PresentedBy, RequestTypes
  <2> QED
    BY <1>0, <1>15, <2>1 DEF LogoutAppend, StoreTypes
<1>16. CASE LogoutRevoke(r)
    BY <1>0, <1>16 DEF LogoutRevoke, StoreTypes, Reasons
<1>17. CASE LogoutInvalidate(r)
    BY <1>0, <1>17, InvalidateTypes DEF LogoutInvalidate, StoreTypes
<1>18. ASSUME NEW h \in Tokens, LogoutAllRead(r, h) PROVE StoreTypes'
    BY <1>0, <1>18 DEF LogoutAllRead, StoreTypes
<1>19. CASE LogoutAllUpdate(r)
    BY <1>0, <1>19 DEF LogoutAllUpdate, StoreTypes
<1>20. ASSUME NEW s \in Sessions, LogoutAllVisit(r, s) PROVE StoreTypes'
    BY <1>0, <1>20 DEF LogoutAllVisit, StoreTypes, Reasons
<1>21. CASE LogoutAllInvalidate(r)
    BY <1>0, <1>21, InvalidateTypes DEF LogoutAllInvalidate, StoreTypes
<1>22. CASE Finish(r)
    BY <1>0, <1>22 DEF Finish, StoreTypes
<1> QED
    BY <1>1, <1>2, <1>3, <1>4, <1>5, <1>6, <1>7, <1>8, <1>9, <1>10, <1>11, <1>12, <1>13,
       <1>14, <1>15, <1>16, <1>17, <1>18, <1>19, <1>20, <1>21, <1>22 DEF Step

\* The requests' local variables keep their types.
LEMMA RequestTypesStep ==
    ASSUME TypeOK, Presented, NEW r \in Requests, Step(r)
    PROVE  RequestTypes'
<1> USE DEF Goto, Idle, database, caches, issue, locals, history
<1>0. StoreTypes /\ RequestTypes
    BY DEF TypeOK
<1>1. ASSUME NEW s \in Sessions, LoginCreate(r, s) PROVE RequestTypes'
    BY <1>0, <1>1, FreshToken DEF LoginCreate, Generate, RequestTypes, Labels
<1>2. CASE Reply(r)
    BY <1>0, <1>2 DEF Reply, RequestTypes, Labels
<1>3. ASSUME NEW h \in Tokens, RefreshFind(r, h) PROVE RequestTypes'
    BY <1>0, <1>3 DEF RefreshFind, RequestTypes, Labels, Start, StoreTypes
<1>4. CASE RefreshFill(r)
    BY <1>0, <1>4 DEF RefreshFill, RequestTypes, Labels
<1>5. CASE RefreshCheck(r)
    BY <1>0, <1>5 DEF RefreshCheck, RequestTypes, Labels, Reasons
<1>6. CASE RotateRead(r)
    BY <1>0, <1>6 DEF RotateRead, RequestTypes, Labels
<1>7. CASE Rotate(r)
    BY <1>0, <1>7, FreshToken DEF Rotate, Generate, RequestTypes, Labels
<1>8. CASE RotateInvalidate(r)
    BY <1>0, <1>8 DEF RotateInvalidate, RequestTypes, Labels
<1>9. CASE ReuseFind(r)
    BY <1>0, <1>9 DEF ReuseFind, RequestTypes, Labels, Reasons
<1>10. CASE ReuseFill(r)
    BY <1>0, <1>10 DEF ReuseFill, RequestTypes, Labels, Reasons
<1>11. CASE FamilyRead(r)
  <2>1. owner[tok[r]] \in Sessions
    BY <1>0, <1>11 DEF FamilyRead, Presented, PresentedBy, RequestTypes, StoreTypes
  <2>2. (IF Active(owner[tok[r]]) THEN {hash[owner[tok[r]]]} ELSE {}) \in SUBSET Tokens
    BY <1>0, <2>1 DEF Active, Unrevoked, Exists, StoreTypes
  <2> QED
    BY <1>0, <1>11, <2>2 DEF FamilyRead, RequestTypes, Labels
<1>12. CASE FamilyUpdate(r)
    BY <1>0, <1>12 DEF FamilyUpdate, RequestTypes, Labels
<1>13. CASE FamilyInvalidate(r)
    BY <1>0, <1>13 DEF FamilyInvalidate, RequestTypes, Labels
<1>14. ASSUME NEW h \in Tokens, NEW s \in Sessions, LogoutValidate(r, h, s) PROVE RequestTypes'
    BY <1>0, <1>14 DEF LogoutValidate, RequestTypes, Labels
<1>15. CASE LogoutAppend(r)
    BY <1>0, <1>15 DEF LogoutAppend, RequestTypes, Labels
<1>16. CASE LogoutRevoke(r)
    BY <1>0, <1>16 DEF LogoutRevoke, RequestTypes, Labels
<1>17. CASE LogoutInvalidate(r)
    BY <1>0, <1>17 DEF LogoutInvalidate, RequestTypes, Labels
<1>18. ASSUME NEW h \in Tokens, LogoutAllRead(r, h) PROVE RequestTypes'
    BY <1>0, <1>18 DEF LogoutAllRead, RequestTypes, Labels, StoreTypes, Active, Unrevoked, Exists, SessionsOf
<1>19. CASE LogoutAllUpdate(r)
    BY <1>0, <1>19 DEF LogoutAllUpdate, RequestTypes, Labels, SessionsOf
<1>20. ASSUME NEW s \in Sessions, LogoutAllVisit(r, s) PROVE RequestTypes'
    BY <1>0, <1>20 DEF LogoutAllVisit, RequestTypes, Labels
<1>21. CASE LogoutAllInvalidate(r)
    BY <1>0, <1>21 DEF LogoutAllInvalidate, RequestTypes, Labels
<1>22. CASE Finish(r)
    BY <1>0, <1>22 DEF Finish, RequestTypes, Labels, Reset
<1> QED
    BY <1>1, <1>2, <1>3, <1>4, <1>5, <1>6, <1>7, <1>8, <1>9, <1>10, <1>11, <1>12, <1>13,
       <1>14, <1>15, <1>16, <1>17, <1>18, <1>19, <1>20, <1>21, <1>22 DEF Step

-----------------------------------------------------------------------------
(* What a step leaves alone.                                               *)

\* Nothing that the other requests remember has changed.
Others(r) ==
    \A x \in Requests \ {r} :
        /\ pc'[x] = pc[x] /\ tok'[x] = tok[x] /\ new'[x] = new[x]
        /\ target'[x] = target[x] /\ reason'[x] = reason[x] /\ todo'[x] = todo[x]
        /\ existing'[x] = existing[x]
        /\ x \in late' <=> x \in late

\* A request's step is its own: it changes no other request's memory.
LEMMA OthersStep ==
    ASSUME RequestTypes, NEW r \in Requests, Step(r)
    PROVE  Others(r)
<1> USE DEF Goto, Idle, database, caches, issue, locals, history, Others, RequestTypes
<1>1. ASSUME NEW s \in Sessions, LoginCreate(r, s) PROVE Others(r)
    BY <1>1 DEF LoginCreate, Generate
<1>2. CASE Reply(r)
    BY <1>2 DEF Reply
<1>3. ASSUME NEW h \in Tokens, RefreshFind(r, h) PROVE Others(r)
    BY <1>3 DEF RefreshFind, Start
<1>4. CASE RefreshFill(r)
    BY <1>4 DEF RefreshFill
<1>5. CASE RefreshCheck(r)
    BY <1>5 DEF RefreshCheck
<1>6. CASE RotateRead(r)
    BY <1>6 DEF RotateRead
<1>7. CASE Rotate(r)
    BY <1>7 DEF Rotate, Generate
<1>8. CASE RotateInvalidate(r)
    BY <1>8 DEF RotateInvalidate
<1>9. CASE ReuseFind(r)
    BY <1>9 DEF ReuseFind
<1>10. CASE ReuseFill(r)
    BY <1>10 DEF ReuseFill
<1>11. CASE FamilyRead(r)
    BY <1>11 DEF FamilyRead
<1>12. CASE FamilyUpdate(r)
    BY <1>12 DEF FamilyUpdate
<1>13. CASE FamilyInvalidate(r)
    BY <1>13 DEF FamilyInvalidate
<1>14. ASSUME NEW h \in Tokens, NEW s \in Sessions, LogoutValidate(r, h, s) PROVE Others(r)
    BY <1>14 DEF LogoutValidate
<1>15. CASE LogoutAppend(r)
    BY <1>15 DEF LogoutAppend
<1>16. CASE LogoutRevoke(r)
    BY <1>16 DEF LogoutRevoke
<1>17. CASE LogoutInvalidate(r)
    BY <1>17 DEF LogoutInvalidate
<1>18. ASSUME NEW h \in Tokens, LogoutAllRead(r, h) PROVE Others(r)
    BY <1>18 DEF LogoutAllRead
<1>19. CASE LogoutAllUpdate(r)
    BY <1>19 DEF LogoutAllUpdate
<1>20. ASSUME NEW s \in Sessions, LogoutAllVisit(r, s) PROVE Others(r)
    BY <1>20 DEF LogoutAllVisit
<1>21. CASE LogoutAllInvalidate(r)
    BY <1>21 DEF LogoutAllInvalidate
<1>22. CASE Finish(r)
    BY <1>22 DEF Finish, Reset
<1> QED
    BY Zenon, <1>1, <1>2, <1>3, <1>4, <1>5, <1>6, <1>7, <1>8, <1>9, <1>10, <1>11, <1>12, <1>13,
       <1>14, <1>15, <1>16, <1>17, <1>18, <1>19, <1>20, <1>21, <1>22 DEF Step

\* Only five actions write the sessions collection or issue a token.
LEMMA StoreFrame ==
    ASSUME NEW r \in Requests, Step(r)
    PROVE  \/ UNCHANGED <<hash, revoked, owner, from>>
           \/ \E s \in Sessions : LoginCreate(r, s)
           \/ Rotate(r)
           \/ FamilyUpdate(r)
           \/ LogoutRevoke(r)
           \/ \E s \in Sessions : LogoutAllVisit(r, s)
BY Zenon DEF Step, Reply, RefreshFind, RefreshFill, RefreshCheck, RotateRead, RotateInvalidate,
       ReuseFind, ReuseFill, FamilyRead, FamilyInvalidate, LogoutValidate, LogoutAppend,
       LogoutInvalidate, LogoutAllRead, LogoutAllUpdate, LogoutAllInvalidate, Finish,
       database, issue

\* Revocations and issued tokens are never taken back.
Growth ==
    /\ \A h \in Tokens : owner[h] # None => owner'[h] = owner[h]
    /\ \A h \in Tokens : from[h] # None => from'[h] = from[h]
    /\ \A s \in Sessions : revoked[s] # "no" => revoked'[s] # "no" /\ hash'[s] = hash[s]
    /\ \A s \in Sessions : Exists(s) => hash'[s] # None

\* Where the request that rotates, or revokes a family, finds its session.
LEMMA OwnSession ==
    ASSUME TypeOK, Presented, NEW r \in Requests, tok[r] # None
    PROVE  tok[r] \in Tokens /\ owner[tok[r]] \in Sessions
BY DEF TypeOK, StoreTypes, RequestTypes, Presented, PresentedBy

\* A handler only adds: tokens keep their owner and predecessor, sessions stay,
\* and a revoked session stays revoked.
LEMMA GrowthStep ==
    ASSUME TypeOK, Chains, Presented, FamilyReason, \A x \in Requests : LogoutBy(x),
           NEW r \in Requests, Step(r)
    PROVE  Growth
<1> USE DEF Growth, Exists
<1>0. StoreTypes /\ RequestTypes
    BY DEF TypeOK
<1>1. CASE UNCHANGED <<hash, revoked, owner, from>>
    BY <1>1
<1>2. ASSUME NEW s \in Sessions, LoginCreate(r, s) PROVE Growth
  <2>1. revoked[s] = "no" /\ hash[s] = None
    BY <1>2 DEF LoginCreate, Chains
  <2>2. Fresh \in Tokens /\ owner[Fresh] = None /\ from[Fresh] = None
    BY <1>2, FreshToken DEF LoginCreate, Generate, Chains
  <2> QED
    BY <1>0, <1>2, <2>1, <2>2, NoneAssumption DEF LoginCreate, Generate, StoreTypes
<1>3. CASE Rotate(r)
  <2>1. tok[r] \in Tokens /\ owner[tok[r]] \in Sessions
    BY <1>3, OwnSession DEF Rotate, Presented, PresentedBy
  <2>2. CASE RotateMatches(owner[tok[r]], tok[r])
    <3>1. Fresh \in Tokens /\ owner[Fresh] = None /\ from[Fresh] = None
      BY <1>3, <2>2, FreshToken DEF Rotate, Generate, Chains
    <3> QED
      BY <1>0, <1>3, <2>1, <2>2, <3>1, NoneAssumption
         DEF Rotate, Generate, RotateMatches, Unrevoked, StoreTypes
  <2>3. CASE ~RotateMatches(owner[tok[r]], tok[r])
    BY <1>3, <2>3 DEF Rotate, issue
  <2> QED
    BY <2>2, <2>3
<1>4. CASE FamilyUpdate(r)
  <2>1. reason[r] # "no"
    BY <1>0, <1>4 DEF FamilyUpdate, FamilyReason
  <2> QED
    BY <1>0, <1>4, <2>1 DEF FamilyUpdate, StoreTypes, issue
<1>5. CASE LogoutRevoke(r)
    BY <1>0, <1>5 DEF LogoutRevoke, StoreTypes, issue
<1>6. ASSUME NEW s \in Sessions, LogoutAllVisit(r, s) PROVE Growth
    BY <1>0, <1>6 DEF LogoutAllVisit, StoreTypes, issue
<1> QED
    BY <1>1, <1>2, <1>3, <1>4, <1>5, <1>6, StoreFrame

-----------------------------------------------------------------------------
(* The chain of tokens.                                                    *)

\* A token once exchanged is not exchanged again, and stays out of the
\* collection: the heart of rotation.
LEMMA RotateStep ==
    ASSUME TypeOK, Chains, SingleUse, NEW s \in Sessions, NEW h \in Tokens \cup {None},
           NEW f \in Tokens, owner[f] = None,
           h = hash[s], revoked[s] = "no",
           hash' = [hash EXCEPT ![s] = f],
           owner' = [owner EXCEPT ![f] = s],
           from' = [from EXCEPT ![f] = h],
           revoked' = revoked
    PROVE  Chains' /\ SingleUse'
<1> USE NoneAssumption DEF Exists, Spent
<1>0. StoreTypes
    BY DEF TypeOK
<1>1. from[f] = None
    BY DEF Chains
<1>2. \A x \in Sessions : hash[x] # f
    BY <1>0 DEF Chains, StoreTypes
<1>3. \A n \in Tokens : from[n] # f
    BY <1>0 DEF Chains, StoreTypes
<1>4. h # None => owner[h] = s /\ \A n \in Tokens : from[n] # h
    BY DEF Chains
<1>5. \A x \in Sessions : Exists(x)' => owner'[hash'[x]] = x
    BY <1>0, <1>2 DEF Chains, StoreTypes
<1>6. \A x \in Sessions : revoked'[x] # "no" => Exists(x)'
    BY <1>0 DEF Chains, StoreTypes
<1>7. ASSUME NEW g \in Tokens, owner'[g] # None
      PROVE  hash'[owner'[g]] = g \/ Spent(g)'
  <2>1. CASE g = f
    BY <1>0, <2>1 DEF StoreTypes
  <2>2. CASE g # f /\ g = h
    BY <1>0, <2>2 DEF StoreTypes
  <2>3. CASE g # f /\ g # h
    <3>1. owner[g] # None /\ owner'[g] = owner[g] /\ owner[g] \in Sessions
      BY <1>0, <1>7, <2>3 DEF StoreTypes
    <3>2. CASE Spent(g)
      <4>1. PICK n \in Tokens : from[n] = g
        BY <3>2
      <4>2. n # f
        BY <4>1, <1>1
      <4> QED
        BY <1>0, <4>1, <4>2 DEF StoreTypes
    <3>3. CASE hash[owner[g]] = g
      <4>1. owner[g] # s
        BY <3>3, <2>3
      <4> QED
        BY <1>0, <3>1, <3>3, <4>1 DEF StoreTypes
    <3> QED
      BY <3>1, <3>2, <3>3 DEF Chains
  <2> QED
    BY <2>1, <2>2, <2>3
<1>8. \A g \in Tokens : owner'[g] = None => from'[g] = None
    BY <1>0 DEF Chains, StoreTypes
<1>9. ASSUME NEW n \in Tokens, from'[n] # None
      PROVE  owner'[from'[n]] # None /\ \A x \in Sessions : hash'[x] # from'[n]
  <2>1. CASE n = f
    <3>1. from'[n] = h /\ h # None /\ h # f
      BY <1>0, <1>9, <2>1, <1>2 DEF StoreTypes
    <3>2. \A x \in Sessions : x # s => hash[x] # h
      BY <1>0, <1>4, <3>1 DEF Chains, StoreTypes
    <3> QED
      BY <1>0, <1>4, <3>1, <3>2 DEF StoreTypes
  <2>2. CASE n # f
    <3>1. from'[n] = from[n] /\ from[n] # f
      BY <1>0, <1>3, <2>2 DEF StoreTypes
    <3> QED
      BY <1>0, <1>9, <3>1 DEF Chains, StoreTypes
  <2> QED
    BY <2>1, <2>2
<1>10. SingleUse'
    BY <1>0, <1>1, <1>4 DEF SingleUse, StoreTypes
<1> QED
    BY <1>5, <1>6, <1>7, <1>8, <1>9, <1>10 DEF Chains

\* A rotation extends a session's chain at its end: no token is replaced twice.
LEMMA ChainStep ==
    ASSUME TypeOK, Chains, SingleUse, Presented, FamilyReason, \A x \in Requests : LogoutBy(x),
           \A x \in Requests : LogoutAllBy(x),
           NEW r \in Requests, Step(r)
    PROVE  Chains' /\ SingleUse'
<1>0. StoreTypes /\ RequestTypes
    BY DEF TypeOK
<1>1. CASE UNCHANGED <<hash, revoked, owner, from>>
    BY <1>1 DEF Chains, SingleUse, Exists, Spent
<1>2. ASSUME NEW s \in Sessions, LoginCreate(r, s) PROVE Chains' /\ SingleUse'
  <2>1. revoked[s] = "no" /\ hash[s] = None
    BY <1>2 DEF LoginCreate, Chains, Exists
  <2>2. Fresh \in Tokens /\ owner[Fresh] = None
    BY <1>2, FreshToken DEF LoginCreate, Generate
  <2> QED
    BY Zenon, <1>2, <2>1, <2>2, RotateStep DEF LoginCreate, Generate
<1>3. CASE Rotate(r)
  <2>1. tok[r] \in Tokens /\ owner[tok[r]] \in Sessions
    BY <1>3, OwnSession DEF Rotate, Presented, PresentedBy
  <2>2. CASE RotateMatches(owner[tok[r]], tok[r])
    <3>1. Fresh \in Tokens /\ owner[Fresh] = None
      BY <1>3, <2>2, FreshToken DEF Rotate, Generate
    <3> QED
      BY <1>3, <2>1, <2>2, <3>1, RotateStep
         DEF Rotate, Generate, RotateMatches, Unrevoked
  <2>3. CASE ~RotateMatches(owner[tok[r]], tok[r])
    BY Zenon, <1>3, <2>3 DEF Rotate, issue, Chains, SingleUse, Exists, Spent
  <2> QED
    BY <2>2, <2>3
<1>4. CASE UNCHANGED <<hash, owner, from>> /\
           \A s \in Sessions : revoked'[s] # "no" => revoked[s] # "no" \/ Exists(s)
    BY <1>4 DEF Chains, SingleUse, Exists, Spent
<1>5. CASE FamilyUpdate(r)
  <2>1. owner[tok[r]] \in Sessions
    BY <1>5, OwnSession DEF FamilyUpdate, Presented, PresentedBy
  <2> QED
    BY <1>0, <1>4, <1>5, <2>1 DEF FamilyUpdate, StoreTypes, issue, Unrevoked
<1>6. CASE LogoutRevoke(r)
  <2>1. target[r] \in Sessions
    BY <1>0, <1>6 DEF LogoutRevoke, LogoutBy, RequestTypes
  <2> QED
    BY <1>0, <1>4, <1>6, <2>1 DEF LogoutRevoke, StoreTypes, issue
<1>7. ASSUME NEW s \in Sessions, LogoutAllVisit(r, s) PROVE Chains' /\ SingleUse'
  <2>1. Exists(s)
    BY <1>7 DEF LogoutAllVisit, LogoutAllBy, SessionsOf
  <2> QED
    BY <1>0, <1>4, <1>7, <2>1 DEF LogoutAllVisit, StoreTypes, issue
<1> QED
    BY <1>1, <1>2, <1>3, <1>5, <1>6, <1>7, StoreFrame

-----------------------------------------------------------------------------
(* What each request knows.  A step of request r is shown to keep r's own  *)
(* part; the others' parts follow from OthersStep and Growth.              *)


\* Tokens in a request's hands stay issued ones.
LEMMA PresentedStep ==
    ASSUME TypeOK, Chains, Presented, FamilyReason, \A x \in Requests : LogoutBy(x),
           NEW r \in Requests, Step(r)
    PROVE  PresentedBy(r)'
<1> USE DEF Goto, Idle, database, caches, issue, locals, history
<1>0. StoreTypes /\ RequestTypes /\ PresentedBy(r) /\ \A h \in handed : owner[h] # None
    BY DEF TypeOK, Presented
<1>g. Growth
    BY GrowthStep
<1>1. ASSUME NEW s \in Sessions, LoginCreate(r, s) PROVE PresentedBy(r)'
  <2>1. Fresh \in Tokens /\ owner'[Fresh] = s
    BY <1>0, <1>1, FreshToken DEF LoginCreate, Generate, StoreTypes
  <2>2. new'[r] = Fresh /\ tok'[r] = tok[r] /\ pc'[r] = "reply"
    BY <1>0, <1>1 DEF LoginCreate, Generate, RequestTypes
  <2> QED
    BY <1>0, <1>g, <2>1, <2>2, NoneAssumption DEF PresentedBy, RequestTypes, Growth
<1>2. CASE Reply(r)
    BY <1>0, <1>g, <1>2 DEF Reply, PresentedBy, RequestTypes, Growth, StoreTypes
<1>3. ASSUME NEW h \in Tokens, RefreshFind(r, h) PROVE PresentedBy(r)'
  <2>1. tok'[r] = h /\ owner[h] # None /\ UNCHANGED <<owner, new>>
    BY Zenon, <1>0, <1>3 DEF RefreshFind, Start, RequestTypes
  <2>2. pc'[r] \notin {"rotateInvalidate", "reply"}
    BY Zenon, <1>0, <1>3 DEF RefreshFind, Start, RequestTypes
  <2> QED
    BY <1>0, <2>1, <2>2, NoneAssumption DEF PresentedBy
<1>4. CASE RefreshFill(r)
    BY <1>0, <1>g, <1>4 DEF RefreshFill, PresentedBy, RequestTypes, Growth, StoreTypes
<1>5. CASE RefreshCheck(r)
    BY <1>0, <1>g, <1>5 DEF RefreshCheck, PresentedBy, RequestTypes, Growth, StoreTypes
<1>6. CASE RotateRead(r)
    BY <1>0, <1>g, <1>6 DEF RotateRead, PresentedBy, RequestTypes, Growth, StoreTypes
<1>7. CASE Rotate(r)
  <2>1. tok[r] \in Tokens /\ owner[tok[r]] \in Sessions
    BY Zenon, <1>7, OwnSession DEF Rotate, PresentedBy, Presented
  <2>2. CASE RotateMatches(owner[tok[r]], tok[r])
    <3>1. Fresh \in Tokens /\ owner'[Fresh] = owner[tok[r]]
      BY Zenon, <1>0, <1>7, <2>2, FreshToken DEF Rotate, Generate, StoreTypes
    <3>2. new'[r] = Fresh /\ tok'[r] = tok[r] /\ pc'[r] = "rotateInvalidate"
      BY <1>0, <1>7, <2>2 DEF Rotate, Generate, RequestTypes
    <3> QED
      BY <1>0, <1>g, <2>1, <3>1, <3>2, NoneAssumption DEF PresentedBy, RequestTypes, Growth
  <2>3. CASE ~RotateMatches(owner[tok[r]], tok[r])
    BY <1>0, <1>7, <2>3 DEF Rotate, PresentedBy, RequestTypes
  <2> QED
    BY <2>2, <2>3
<1>8. CASE RotateInvalidate(r)
    BY <1>0, <1>g, <1>8 DEF RotateInvalidate, PresentedBy, RequestTypes, Growth, StoreTypes
<1>9. CASE ReuseFind(r)
    BY <1>0, <1>g, <1>9 DEF ReuseFind, PresentedBy, RequestTypes, Growth, StoreTypes
<1>10. CASE ReuseFill(r)
    BY <1>0, <1>g, <1>10 DEF ReuseFill, PresentedBy, RequestTypes, Growth, StoreTypes
<1>11. CASE FamilyRead(r)
    BY <1>0, <1>g, <1>11 DEF FamilyRead, PresentedBy, RequestTypes, Growth, StoreTypes
<1>12. CASE FamilyUpdate(r)
    BY <1>0, <1>g, <1>12 DEF FamilyUpdate, PresentedBy, RequestTypes, Growth, StoreTypes
<1>13. CASE FamilyInvalidate(r)
    BY <1>0, <1>g, <1>13 DEF FamilyInvalidate, PresentedBy, RequestTypes, Growth, StoreTypes
<1>14. ASSUME NEW h \in Tokens, NEW s \in Sessions, LogoutValidate(r, h, s) PROVE PresentedBy(r)'
  <2>1. tok'[r] = h /\ owner[h] # None /\ UNCHANGED <<owner, new>>
    BY Zenon, <1>0, <1>14 DEF LogoutValidate, RequestTypes
  <2>2. pc'[r] \notin {"rotateInvalidate", "reply"}
    BY Zenon, <1>0, <1>14 DEF LogoutValidate, RequestTypes
  <2> QED
    BY <1>0, <2>1, <2>2, NoneAssumption DEF PresentedBy
<1>15. CASE LogoutAppend(r)
    BY <1>0, <1>g, <1>15 DEF LogoutAppend, PresentedBy, RequestTypes, Growth, StoreTypes
<1>16. CASE LogoutRevoke(r)
    BY <1>0, <1>g, <1>16 DEF LogoutRevoke, PresentedBy, RequestTypes, Growth, StoreTypes
<1>17. CASE LogoutInvalidate(r)
    BY <1>0, <1>g, <1>17 DEF LogoutInvalidate, PresentedBy, RequestTypes, Growth, StoreTypes
<1>18. ASSUME NEW h \in Tokens, LogoutAllRead(r, h) PROVE PresentedBy(r)'
  <2>1. tok'[r] = h /\ owner[h] # None /\ UNCHANGED <<owner, new>>
    BY Zenon, <1>0, <1>18 DEF LogoutAllRead, RequestTypes
  <2>2. pc'[r] \notin {"rotateInvalidate", "reply"}
    BY <1>0, <1>18 DEF LogoutAllRead, RequestTypes
  <2> QED
    BY <1>0, <2>1, <2>2, NoneAssumption DEF PresentedBy
<1>19. CASE LogoutAllUpdate(r)
    BY <1>0, <1>g, <1>19 DEF LogoutAllUpdate, PresentedBy, RequestTypes, Growth, StoreTypes
<1>20. ASSUME NEW s \in Sessions, LogoutAllVisit(r, s) PROVE PresentedBy(r)'
    BY <1>0, <1>g, <1>20 DEF LogoutAllVisit, PresentedBy, RequestTypes, Growth, StoreTypes
<1>21. CASE LogoutAllInvalidate(r)
    BY <1>0, <1>g, <1>21 DEF LogoutAllInvalidate, PresentedBy, RequestTypes, Growth, StoreTypes
<1>22. CASE Finish(r)
    BY <1>0, <1>g, <1>22 DEF Finish, Reset, PresentedBy, RequestTypes, Growth, StoreTypes
<1> QED
    BY <1>1, <1>2, <1>3, <1>4, <1>5, <1>6, <1>7, <1>8, <1>9, <1>10, <1>11, <1>12, <1>13,
       <1>14, <1>15, <1>16, <1>17, <1>18, <1>19, <1>20, <1>21, <1>22 DEF Step

\* A request that began after the revocation does not get to rotate.
LEMMA LateStep ==
    ASSUME TypeOK, Chains, Presented, FamilyReason, \A x \in Requests : LogoutBy(x),
           \A x \in Requests : LateBy(x),
           NEW r \in Requests, Step(r)
    PROVE  LateBy(r)'
<1> USE DEF Goto, Idle, database, caches, issue, locals, history
<1>0. StoreTypes /\ RequestTypes /\ PresentedBy(r) /\ \A h \in handed : owner[h] # None
    BY DEF TypeOK, Presented
<1>g. Growth
    BY GrowthStep
<1>t1. LateBy(r) /\ tok[r] \in Tokens \cup {None}
    BY <1>0 DEF RequestTypes
<1>t2. tok[r] # None => owner'[tok[r]] = owner[tok[r]] /\ owner[tok[r]] \in Sessions
    BY Zenon, <1>0, <1>g, OwnSession DEF Growth, PresentedBy, RequestTypes
<1>t3. ASSUME late' = late, tok'[r] = tok[r],
             pc'[r] \in {"fill", "check", "rotateRead", "rotate", "reuse", "reuseFill",
                        "famRead", "famUpdate", "famInvalidate", "denied"} \/ r \notin late
      PROVE  LateBy(r)'
    BY Zenon, <1>g, <1>t1, <1>t2, <1>t3 DEF LateBy, Growth
<1>1. ASSUME NEW s \in Sessions, LoginCreate(r, s) PROVE LateBy(r)'
  <2>1. r \notin late /\ late' = late
    BY <1>t1, <1>1 DEF LoginCreate, LateBy
  <2> QED
    BY <2>1 DEF LateBy
<1>2. CASE Reply(r)
    BY <1>0, <1>t1, <1>t3, <1>2 DEF Reply, RequestTypes, LateBy
<1>3. ASSUME NEW h \in Tokens, RefreshFind(r, h) PROVE LateBy(r)'
  <2>1. tok'[r] = h /\ owner[h] \in Sessions /\ UNCHANGED <<owner, revoked>>
    BY <1>0, <1>3 DEF RefreshFind, Start, RequestTypes, StoreTypes
  <2>2. r \in late' => revoked[owner[h]] # "no" \/ r \in late
    BY Zenon, <1>3 DEF RefreshFind, Start
  <2>3. r \notin late
    BY Zenon, <1>t1, <1>3 DEF RefreshFind, Start, LateBy
  <2>4. pc'[r] \in {"fill", "check", "denied"}
    BY Zenon, <1>0, <1>3 DEF RefreshFind, Start, RequestTypes
  <2> QED
    BY <2>1, <2>2, <2>3, <2>4, NoneAssumption DEF LateBy
<1>4. CASE RefreshFill(r)
    BY Zenon, <1>0, <1>t1, <1>t3, <1>4 DEF RefreshFill, RequestTypes, LateBy
<1>5. CASE RefreshCheck(r)
    BY Zenon, <1>0, <1>t1, <1>t3, <1>5 DEF RefreshCheck, RequestTypes, LateBy
<1>6. CASE RotateRead(r)
    BY Zenon, <1>0, <1>t1, <1>t3, <1>6 DEF RotateRead, RequestTypes, LateBy
<1>7. CASE Rotate(r)
  <2>1. tok[r] \in Tokens /\ owner[tok[r]] \in Sessions
    BY Zenon, <1>7, OwnSession DEF Rotate, PresentedBy, Presented
  <2>2. CASE RotateMatches(owner[tok[r]], tok[r])
    <3>1. r \notin late
      BY <1>t1, <2>2 DEF RotateMatches, Unrevoked, LateBy
    <3>2. late' = late
      BY <1>7 DEF Rotate
    <3> QED
      BY Zenon, <3>1, <3>2 DEF LateBy
  <2>3. CASE ~RotateMatches(owner[tok[r]], tok[r])
    <3>1. late' = late /\ tok'[r] = tok[r] /\ pc'[r] = "reuse"
      BY Zenon, <1>0, <1>7, <2>3 DEF Rotate, RequestTypes
    <3> QED
      BY <3>1, <1>t3
  <2> QED
    BY <2>2, <2>3
<1>8. CASE RotateInvalidate(r)
    BY Zenon, <1>0, <1>t1, <1>t3, <1>8 DEF RotateInvalidate, RequestTypes, LateBy
<1>9. CASE ReuseFind(r)
    BY Zenon, <1>0, <1>t1, <1>t3, <1>9 DEF ReuseFind, RequestTypes, LateBy
<1>10. CASE ReuseFill(r)
    BY <1>0, <1>t1, <1>t3, <1>10 DEF ReuseFill, RequestTypes, LateBy
<1>11. CASE FamilyRead(r)
    BY <1>0, <1>t1, <1>t3, <1>11 DEF FamilyRead, RequestTypes, LateBy
<1>12. CASE FamilyUpdate(r)
    BY <1>0, <1>t1, <1>t3, <1>12 DEF FamilyUpdate, RequestTypes, LateBy
<1>13. CASE FamilyInvalidate(r)
    BY <1>0, <1>t1, <1>t3, <1>13 DEF FamilyInvalidate, RequestTypes, LateBy
<1>14. ASSUME NEW h \in Tokens, NEW s \in Sessions, LogoutValidate(r, h, s) PROVE LateBy(r)'
  <2>1. r \notin late /\ late' = late
    BY <1>t1, <1>14 DEF LogoutValidate, LateBy
  <2> QED
    BY <2>1 DEF LateBy
<1>15. CASE LogoutAppend(r)
    BY <1>0, <1>t1, <1>t3, <1>15 DEF LogoutAppend, RequestTypes, LateBy
<1>16. CASE LogoutRevoke(r)
    BY <1>0, <1>t1, <1>t3, <1>16 DEF LogoutRevoke, RequestTypes, LateBy
<1>17. CASE LogoutInvalidate(r)
    BY <1>0, <1>t1, <1>t3, <1>17 DEF LogoutInvalidate, RequestTypes, LateBy
<1>18. ASSUME NEW h \in Tokens, LogoutAllRead(r, h) PROVE LateBy(r)'
  <2>1. r \notin late /\ late' = late
    BY <1>t1, <1>18 DEF LogoutAllRead, LateBy
  <2> QED
    BY <2>1 DEF LateBy
<1>19. CASE LogoutAllUpdate(r)
    BY <1>0, <1>t1, <1>t3, <1>19 DEF LogoutAllUpdate, RequestTypes, LateBy
<1>20. ASSUME NEW s \in Sessions, LogoutAllVisit(r, s) PROVE LateBy(r)'
    BY <1>0, <1>t1, <1>t3, <1>20 DEF LogoutAllVisit, RequestTypes, LateBy
<1>21. CASE LogoutAllInvalidate(r)
    BY <1>0, <1>t1, <1>t3, <1>21 DEF LogoutAllInvalidate, RequestTypes, LateBy
<1>22. CASE Finish(r)
    BY Zenon, <1>22 DEF Finish, Reset, LateBy
<1> QED
    BY <1>1, <1>2, <1>3, <1>4, <1>5, <1>6, <1>7, <1>8, <1>9, <1>10, <1>11, <1>12, <1>13,
       <1>14, <1>15, <1>16, <1>17, <1>18, <1>19, <1>20, <1>21, <1>22 DEF Step

\* Evidence is never lost.
LEMMA EvidenceGrows ==
    ASSUME TypeOK, Growth, NEW h \in Tokens, NEW s \in Sessions
    PROVE  (Spent(h) => Spent(h)') /\ (Rotated(s) => Rotated(s)')
<1> USE NoneAssumption
<1>0. StoreTypes
    BY DEF TypeOK
<1>1. ASSUME NEW g \in Tokens, Spent(g) PROVE Spent(g)'
  <2>1. PICK n \in Tokens : from[n] = g
    BY <1>1 DEF Spent
  <2> QED
    BY <2>1 DEF Growth, Spent
<1>2. ASSUME Rotated(s) PROVE Rotated(s)'
  <2>1. PICK g \in Tokens : owner[g] = s /\ Spent(g)
    BY <1>2 DEF Rotated
  <2>2. owner'[g] = s
    BY <2>1 DEF Growth
  <2> QED
    BY <1>1, <2>1, <2>2 DEF Rotated
<1> QED
    BY <1>1, <1>2

\* A suspicion rests on a token that was exchanged before.
LEMMA SuspectStep ==
    ASSUME TypeOK, Chains, Presented, FamilyReason, \A x \in Requests : LogoutBy(x),
           \A x \in Requests : SuspectsBy(x), \A s \in idCache : Rotated(s),
           NEW r \in Requests, Step(r)
    PROVE  SuspectsBy(r)'
<1> USE DEF Goto, Idle, database, caches, issue, locals, history
<1>0. StoreTypes /\ RequestTypes /\ PresentedBy(r) /\ \A h \in handed : owner[h] # None
    BY DEF TypeOK, Presented
<1>g. Growth
    BY GrowthStep
<1>t. tok[r] # None => /\ tok[r] \in Tokens
                       /\ owner'[tok[r]] = owner[tok[r]] /\ owner[tok[r]] \in Sessions
    BY <1>0, <1>g, OwnSession DEF Growth, PresentedBy, RequestTypes
<1>u. tok[r] # None => hash[owner[tok[r]]] = tok[r] \/ Spent(tok[r])
    BY Zenon, <1>t, NoneAssumption DEF Chains
<1>v. SuspectsBy(r)
    OBVIOUS
<1>q. ASSUME pc'[r] \notin {"reuse", "reuseFill", "famRead", "famUpdate"}
      PROVE  SuspectsBy(r)'
    BY Zenon, <1>q DEF SuspectsBy
<1>1. ASSUME NEW s \in Sessions, LoginCreate(r, s) PROVE SuspectsBy(r)'
    BY <1>0, <1>q, <1>1 DEF LoginCreate, RequestTypes
<1>2. CASE Reply(r)
    BY <1>0, <1>q, <1>2 DEF Reply, RequestTypes
<1>3. ASSUME NEW h \in Tokens, RefreshFind(r, h) PROVE SuspectsBy(r)'
    BY Zenon, <1>0, <1>q, <1>3 DEF RefreshFind, Start, RequestTypes
<1>4. CASE RefreshFill(r)
    BY <1>0, <1>q, <1>4 DEF RefreshFill, RequestTypes
<1>5. CASE RefreshCheck(r)
  <2>1. pc'[r] = "denied" \/ pc'[r] = "rotateRead"
        \/ (pc'[r] = "famRead" /\ reason'[r] = "refresh_ip_anomaly")
    BY <1>0, <1>5 DEF RefreshCheck, RequestTypes
  <2> QED
    BY <2>1 DEF SuspectsBy
<1>6. CASE RotateRead(r)
  <2>1. tok[r] # None /\ UNCHANGED <<tok, owner, from, hash, revoked, expired>>
    BY <1>0, <1>6 DEF RotateRead, PresentedBy
  <2>2. pc'[r] = "rotate" \/ (pc'[r] = "reuse" /\ ~Active(owner[tok[r]]))
    BY Zenon, <1>0, <1>6 DEF RotateRead, RequestTypes
  <2>3. ~Active(owner[tok[r]]) =>
           Spent(tok[r]) \/ tok[r] \in expired \/ revoked[owner[tok[r]]] # "no"
    BY Zenon, <2>1, <1>t, <1>u, NoneAssumption DEF Active, Unrevoked, Exists
  <2> QED
    BY Zenon, <2>1, <2>2, <2>3 DEF SuspectsBy, Spent
<1>7. CASE Rotate(r)
  <2>1. tok[r] # None
    BY Zenon, <1>0, <1>7 DEF Rotate, PresentedBy
  <2>2. CASE RotateMatches(owner[tok[r]], tok[r])
    BY Zenon, <1>0, <1>7, <1>q, <2>2 DEF Rotate, RequestTypes
  <2>3. CASE ~RotateMatches(owner[tok[r]], tok[r])
    <3>1. pc'[r] = "reuse" /\ UNCHANGED <<tok, owner, from, hash, revoked, expired>>
      BY Zenon, <1>0, <1>7, <2>3 DEF Rotate, RequestTypes
    <3>2. Spent(tok[r]) \/ revoked[owner[tok[r]]] # "no"
      BY Zenon, <2>1, <2>3, <1>t, <1>u, NoneAssumption DEF RotateMatches, Unrevoked, Exists
    <3> QED
      BY Zenon, <3>1, <3>2 DEF SuspectsBy, Spent
  <2> QED
    BY <2>2, <2>3
<1>8. CASE RotateInvalidate(r)
    BY Zenon, <1>0, <1>q, <1>8 DEF RotateInvalidate, RequestTypes
<1>9. CASE ReuseFind(r)
  <2>1. tok[r] # None /\ UNCHANGED <<tok, owner, from, hash, revoked, expired>>
    BY <1>0, <1>9 DEF ReuseFind, PresentedBy
  <2>2. \/ pc'[r] = "famRead" /\ owner[tok[r]] \in idCache
        \/ pc'[r] = "reuseFill" /\ Active(owner[tok[r]])
        \/ pc'[r] = "denied"
    BY Zenon, <1>0, <1>9 DEF ReuseFind, RequestTypes
  <2>3. Spent(tok[r]) \/ tok[r] \in expired \/ revoked[owner[tok[r]]] # "no"
    BY <1>v, <1>9 DEF ReuseFind, SuspectsBy
  <2>4. Active(owner[tok[r]]) => Rotated(owner[tok[r]])
    BY Zenon, <2>1, <2>3, <1>t, <1>u DEF Active, Unrevoked, Rotated
  <2>5. owner[tok[r]] \in idCache => Rotated(owner[tok[r]])
    OBVIOUS
  <2>6. Rotated(owner[tok[r]]) => Rotated(owner[tok[r]])'
    BY <2>1 DEF Rotated, Spent
  <2> QED
    BY Zenon, <2>1, <2>2, <2>4, <2>5, <2>6 DEF SuspectsBy
<1>10. CASE ReuseFill(r)
  <2>1. UNCHANGED <<tok, owner, from>> /\ pc'[r] \in {"famRead", "famUpdate"}
    BY Zenon, <1>0, <1>10 DEF ReuseFill, RequestTypes
  <2>2. reason'[r] = "refresh_reuse_suspected" => Rotated(owner[tok[r]])
    BY <1>v, <1>10 DEF ReuseFill, SuspectsBy
  <2>3. Rotated(owner[tok[r]]) => Rotated(owner[tok[r]])'
    BY <2>1 DEF Rotated, Spent
  <2> QED
    BY Zenon, <2>1, <2>2, <2>3 DEF SuspectsBy
<1>11. CASE FamilyRead(r)
  <2>1. UNCHANGED <<tok, owner, from>> /\ pc'[r] \in {"famRead", "famUpdate"}
    BY Zenon, <1>0, <1>11 DEF FamilyRead, RequestTypes
  <2>2. reason'[r] = "refresh_reuse_suspected" => Rotated(owner[tok[r]])
    BY Zenon, <1>v, <1>11 DEF FamilyRead, SuspectsBy
  <2>3. Rotated(owner[tok[r]]) => Rotated(owner[tok[r]])'
    BY <2>1 DEF Rotated, Spent
  <2> QED
    BY Zenon, <2>1, <2>2, <2>3 DEF SuspectsBy
<1>12. CASE FamilyUpdate(r)
    BY Zenon, <1>0, <1>q, <1>12 DEF FamilyUpdate, RequestTypes
<1>13. CASE FamilyInvalidate(r)
    BY Zenon, <1>0, <1>q, <1>13 DEF FamilyInvalidate, RequestTypes
<1>14. ASSUME NEW h \in Tokens, NEW s \in Sessions, LogoutValidate(r, h, s) PROVE SuspectsBy(r)'
    BY Zenon, <1>0, <1>q, <1>14 DEF LogoutValidate, RequestTypes
<1>15. CASE LogoutAppend(r)
    BY <1>0, <1>q, <1>15 DEF LogoutAppend, RequestTypes
<1>16. CASE LogoutRevoke(r)
    BY <1>0, <1>q, <1>16 DEF LogoutRevoke, RequestTypes
<1>17. CASE LogoutInvalidate(r)
    BY <1>0, <1>q, <1>17 DEF LogoutInvalidate, RequestTypes
<1>18. ASSUME NEW h \in Tokens, LogoutAllRead(r, h) PROVE SuspectsBy(r)'
    BY Zenon, <1>0, <1>q, <1>18 DEF LogoutAllRead, RequestTypes
<1>19. CASE LogoutAllUpdate(r)
    BY Zenon, <1>0, <1>q, <1>19 DEF LogoutAllUpdate, RequestTypes
<1>20. ASSUME NEW s \in Sessions, LogoutAllVisit(r, s) PROVE SuspectsBy(r)'
    BY Zenon, <1>0, <1>q, <1>20 DEF LogoutAllVisit, RequestTypes
<1>21. CASE LogoutAllInvalidate(r)
    BY Zenon, <1>0, <1>q, <1>21 DEF LogoutAllInvalidate, RequestTypes
<1>22. CASE Finish(r)
    BY <1>0, <1>q, <1>22 DEF Finish, Reset, RequestTypes
<1> QED
    BY <1>1, <1>2, <1>3, <1>4, <1>5, <1>6, <1>7, <1>8, <1>9, <1>10, <1>11, <1>12, <1>13,
       <1>14, <1>15, <1>16, <1>17, <1>18, <1>19, <1>20, <1>21, <1>22 DEF Step

\* A family is revoked for one of two reasons.
LEMMA FamilyReasonStep ==
    ASSUME TypeOK, FamilyReason, NEW r \in Requests, Step(r)
    PROVE  pc'[r] \in {"famRead", "famUpdate"} =>
               reason'[r] \in {"refresh_reuse_suspected", "refresh_ip_anomaly"}
<1> USE DEF Goto, Idle, database, caches, issue, locals, history
<1>0. RequestTypes
    BY DEF TypeOK
<1>1. ASSUME NEW s \in Sessions, LoginCreate(r, s) 
      PROVE  pc'[r] \in {"famRead", "famUpdate"} =>
               reason'[r] \in {"refresh_reuse_suspected", "refresh_ip_anomaly"}
    BY <1>0, <1>1 DEF LoginCreate, Generate, RequestTypes, FamilyReason
<1>2. CASE Reply(r)
    BY <1>0, <1>2 DEF Reply, RequestTypes, FamilyReason
<1>3. ASSUME NEW h \in Tokens, RefreshFind(r, h) 
      PROVE  pc'[r] \in {"famRead", "famUpdate"} =>
               reason'[r] \in {"refresh_reuse_suspected", "refresh_ip_anomaly"}
    BY Zenon, <1>0, <1>3 DEF RefreshFind, Start, RequestTypes, FamilyReason
<1>4. CASE RefreshFill(r)
    BY <1>0, <1>4 DEF RefreshFill, RequestTypes, FamilyReason
<1>5. CASE RefreshCheck(r)
    BY <1>0, <1>5 DEF RefreshCheck, RequestTypes, FamilyReason
<1>6. CASE RotateRead(r)
    BY <1>0, <1>6 DEF RotateRead, RequestTypes, FamilyReason
<1>7. CASE Rotate(r)
    BY <1>0, <1>7 DEF Rotate, Generate, RequestTypes, FamilyReason
<1>8. CASE RotateInvalidate(r)
    BY <1>0, <1>8 DEF RotateInvalidate, RequestTypes, FamilyReason
<1>9. CASE ReuseFind(r)
    BY <1>0, <1>9 DEF ReuseFind, RequestTypes, FamilyReason
<1>10. CASE ReuseFill(r)
    BY <1>0, <1>10 DEF ReuseFill, RequestTypes, FamilyReason
<1>11. CASE FamilyRead(r)
    BY <1>0, <1>11 DEF FamilyRead, RequestTypes, FamilyReason
<1>12. CASE FamilyUpdate(r)
    BY <1>0, <1>12 DEF FamilyUpdate, RequestTypes, FamilyReason
<1>13. CASE FamilyInvalidate(r)
    BY Zenon, <1>0, <1>13 DEF FamilyInvalidate, RequestTypes, FamilyReason
<1>14. ASSUME NEW h \in Tokens, NEW s \in Sessions, LogoutValidate(r, h, s) 
      PROVE  pc'[r] \in {"famRead", "famUpdate"} =>
               reason'[r] \in {"refresh_reuse_suspected", "refresh_ip_anomaly"}
    BY <1>0, <1>14 DEF LogoutValidate, RequestTypes, FamilyReason
<1>15. CASE LogoutAppend(r)
    BY <1>0, <1>15 DEF LogoutAppend, RequestTypes, FamilyReason
<1>16. CASE LogoutRevoke(r)
    BY <1>0, <1>16 DEF LogoutRevoke, RequestTypes, FamilyReason
<1>17. CASE LogoutInvalidate(r)
    BY <1>0, <1>17 DEF LogoutInvalidate, RequestTypes, FamilyReason
<1>18. ASSUME NEW h \in Tokens, LogoutAllRead(r, h) 
      PROVE  pc'[r] \in {"famRead", "famUpdate"} =>
               reason'[r] \in {"refresh_reuse_suspected", "refresh_ip_anomaly"}
    BY Zenon, <1>0, <1>18 DEF LogoutAllRead, RequestTypes, FamilyReason
<1>19. CASE LogoutAllUpdate(r)
    BY Zenon, <1>0, <1>19 DEF LogoutAllUpdate, RequestTypes, FamilyReason
<1>20. ASSUME NEW s \in Sessions, LogoutAllVisit(r, s) 
      PROVE  pc'[r] \in {"famRead", "famUpdate"} =>
               reason'[r] \in {"refresh_reuse_suspected", "refresh_ip_anomaly"}
    BY <1>0, <1>20 DEF LogoutAllVisit, RequestTypes, FamilyReason
<1>21. CASE LogoutAllInvalidate(r)
    BY <1>0, <1>21 DEF LogoutAllInvalidate, RequestTypes, FamilyReason
<1>22. CASE Finish(r)
    BY <1>0, <1>22 DEF Finish, Reset, RequestTypes, FamilyReason
<1> QED
    BY Zenon, <1>1, <1>2, <1>3, <1>4, <1>5, <1>6, <1>7, <1>8, <1>9, <1>10, <1>11, <1>12, <1>13,
       <1>14, <1>15, <1>16, <1>17, <1>18, <1>19, <1>20, <1>21, <1>22 DEF Step

\* session:id holds only sessions that were refreshed, and "reuse" is only said
\* of those.
LEMMA ReuseStep ==
    ASSUME TypeOK, Growth, Presented, \A x \in Requests : SuspectsBy(x),
           \A s \in idCache : Rotated(s), ReuseEvidence, NEW r \in Requests, Step(r)
    PROVE  (\A s \in idCache' : Rotated(s)') /\ ReuseEvidence'
<1> USE DEF database, caches, issue, locals, history
<1>0. StoreTypes /\ RequestTypes /\ PresentedBy(r)
    BY DEF TypeOK, Presented
<1>1. idCache' \subseteq idCache \/ ReuseFill(r)
    BY Zenon DEF Step, LoginCreate, Reply, RefreshFind, RefreshFill, RefreshCheck, RotateRead,
           Rotate, RotateInvalidate, ReuseFind, FamilyRead, FamilyUpdate, FamilyInvalidate,
           LogoutValidate, LogoutAppend, LogoutRevoke, LogoutInvalidate, LogoutAllRead,
           LogoutAllUpdate, LogoutAllVisit, LogoutAllInvalidate, Finish, Invalidate
<1>2. \A s \in idCache' : Rotated(s)
  <2>1. CASE ReuseFill(r)
    <3>1. idCache' \subseteq idCache \cup {owner[tok[r]]}
      BY <2>1 DEF ReuseFill
    <3>2. SuspectsBy(r) /\ pc[r] = "reuseFill"
      BY <2>1 DEF ReuseFill
    <3>3. Rotated(owner[tok[r]])
      BY <3>2 DEF SuspectsBy
    <3> QED
      BY <3>1, <3>3
  <2>2. CASE idCache' \subseteq idCache
    BY <2>2
  <2> QED
    BY <1>1, <2>1, <2>2
<1>3. \A s \in Sessions : revoked'[s] = "refresh_reuse_suspected" => Rotated(s)
  <2>1. CASE revoked' = revoked
    BY <2>1 DEF ReuseEvidence
  <2>2. CASE FamilyUpdate(r)
    <3>1. reason[r] = "refresh_reuse_suspected" => Rotated(owner[tok[r]])
      BY Zenon, <2>2 DEF FamilyUpdate, SuspectsBy
    <3> QED
      BY Zenon, <1>0, <2>2, <3>1 DEF FamilyUpdate, ReuseEvidence, StoreTypes
  <2>3. CASE LogoutRevoke(r)
    BY Zenon, <1>0, <2>3 DEF LogoutRevoke, ReuseEvidence, StoreTypes
  <2>4. ASSUME NEW s \in Sessions, LogoutAllVisit(r, s)
        PROVE  \A x \in Sessions : revoked'[x] = "refresh_reuse_suspected" => Rotated(x)
    BY Zenon, <1>0, <2>4 DEF LogoutAllVisit, ReuseEvidence, StoreTypes
  <2>5. revoked' = revoked \/ FamilyUpdate(r) \/ LogoutRevoke(r)
        \/ \E s \in Sessions : LogoutAllVisit(r, s)
    BY Zenon, StoreFrame DEF LoginCreate, Rotate
  <2> QED
    BY <2>1, <2>2, <2>3, <2>4, <2>5
<1>4. idCache' \subseteq Sessions
    BY Zenon, <1>0, <1>1, OwnSession DEF StoreTypes, ReuseFill, PresentedBy
<1>5. \A s \in Sessions : Rotated(s) => Rotated(s)'
  <2> SUFFICES ASSUME NEW s \in Sessions, Rotated(s) PROVE Rotated(s)'
    OBVIOUS
  <2>1. PICK g \in Tokens : owner[g] = s /\ Spent(g)
    BY DEF Rotated
  <2> QED
    BY <2>1, EvidenceGrows
<1> QED
    BY <1>2, <1>3, <1>4, <1>5 DEF ReuseEvidence

\* An access token, once revoked, stays revoked; expiry is left to Expire.
LEMMA RevokedTokensGrow ==
    ASSUME NEW r \in Requests, Step(r)
    PROVE  revokedTokens \subseteq revokedTokens' /\ expired' = expired
BY Zenon DEF Step, LoginCreate, Reply, RefreshFind, RefreshFill, RefreshCheck, RotateRead, Rotate,
       RotateInvalidate, ReuseFind, ReuseFill, FamilyRead, FamilyUpdate, FamilyInvalidate,
       LogoutValidate, LogoutAppend, LogoutRevoke, LogoutInvalidate, LogoutAllRead,
       LogoutAllUpdate, LogoutAllVisit, LogoutAllInvalidate, Finish, database

\* Logout reports success only after both revocations.
LEMMA LogoutStep ==
    ASSUME TypeOK, Chains, Presented, FamilyReason, \A x \in Requests : LogoutBy(x),
           NEW r \in Requests, Step(r)
    PROVE  LogoutBy(r)'
<1> USE DEF Goto, Idle, database, caches, issue, locals, history
<1>0. StoreTypes /\ RequestTypes /\ PresentedBy(r) /\ \A h \in handed : owner[h] # None
    BY DEF TypeOK, Presented
<1>g. Growth
    BY GrowthStep
<1>l. LogoutBy(r)
    OBVIOUS
<1>m. revokedTokens \subseteq revokedTokens'
    BY RevokedTokensGrow
<1>n. target[r] # None => target[r] \in Sessions
    BY <1>0 DEF RequestTypes
<1>p. target[r] # None /\ revoked[target[r]] # "no" => revoked'[target[r]] # "no"
    BY Zenon, <1>g, <1>n DEF Growth
<1>1. ASSUME NEW s \in Sessions, LoginCreate(r, s) PROVE LogoutBy(r)'
    BY Zenon, <1>0, <1>l, <1>m, <1>n, <1>p, <1>1, NoneAssumption DEF LoginCreate, Generate, RequestTypes, LogoutBy
<1>2. CASE Reply(r)
    BY Zenon, <1>0, <1>l, <1>m, <1>n, <1>p, <1>2, NoneAssumption DEF Reply, RequestTypes, LogoutBy
<1>3. ASSUME NEW h \in Tokens, RefreshFind(r, h) PROVE LogoutBy(r)'
    BY Zenon, <1>0, <1>l, <1>m, <1>n, <1>p, <1>3, NoneAssumption DEF RefreshFind, Start, RequestTypes, LogoutBy
<1>4. CASE RefreshFill(r)
    BY Zenon, <1>0, <1>l, <1>m, <1>n, <1>p, <1>4, NoneAssumption DEF RefreshFill, RequestTypes, LogoutBy
<1>5. CASE RefreshCheck(r)
    BY Zenon, <1>0, <1>l, <1>m, <1>n, <1>p, <1>5, NoneAssumption DEF RefreshCheck, RequestTypes, LogoutBy
<1>6. CASE RotateRead(r)
    BY Zenon, <1>0, <1>l, <1>m, <1>n, <1>p, <1>6, NoneAssumption DEF RotateRead, RequestTypes, LogoutBy
<1>7. CASE Rotate(r)
    BY <1>0, <1>l, <1>m, <1>n, <1>p, <1>7, NoneAssumption DEF Rotate, Generate, RequestTypes, LogoutBy
<1>8. CASE RotateInvalidate(r)
    BY Zenon, <1>0, <1>l, <1>m, <1>n, <1>p, <1>8, NoneAssumption DEF RotateInvalidate, RequestTypes, LogoutBy
<1>9. CASE ReuseFind(r)
    BY Zenon, <1>0, <1>l, <1>m, <1>n, <1>p, <1>9, NoneAssumption DEF ReuseFind, RequestTypes, LogoutBy
<1>10. CASE ReuseFill(r)
    BY Zenon, <1>0, <1>l, <1>m, <1>n, <1>p, <1>10, NoneAssumption DEF ReuseFill, RequestTypes, LogoutBy
<1>11. CASE FamilyRead(r)
    BY Zenon, <1>0, <1>l, <1>m, <1>n, <1>p, <1>11, NoneAssumption DEF FamilyRead, RequestTypes, LogoutBy
<1>12. CASE FamilyUpdate(r)
    BY Zenon, <1>0, <1>l, <1>m, <1>n, <1>p, <1>12, NoneAssumption DEF FamilyUpdate, RequestTypes, LogoutBy
<1>13. CASE FamilyInvalidate(r)
    BY Zenon, <1>0, <1>l, <1>m, <1>n, <1>p, <1>13, NoneAssumption DEF FamilyInvalidate, RequestTypes, LogoutBy
<1>14. ASSUME NEW h \in Tokens, NEW s \in Sessions, LogoutValidate(r, h, s) PROVE LogoutBy(r)'
    BY Zenon, <1>0, <1>l, <1>m, <1>n, <1>p, <1>14, NoneAssumption DEF LogoutValidate, RequestTypes, LogoutBy
<1>15. CASE LogoutAppend(r)
  <2>1. UNCHANGED <<tok, target>> /\ tok[r] \in revokedTokens' /\ target[r] # None
    BY Zenon, <1>l, <1>15 DEF LogoutAppend, LogoutBy
  <2>2. pc'[r] \in {"logoutRevoke", "denied"}
    BY <1>0, <1>15 DEF LogoutAppend, RequestTypes
  <2> QED
    BY Zenon, <2>1, <2>2 DEF LogoutBy
<1>16. CASE LogoutRevoke(r)
  <2>1. target[r] \in Sessions /\ tok[r] \in revokedTokens /\ UNCHANGED <<tok, target>>
    BY <1>l, <1>n, <1>16 DEF LogoutRevoke, LogoutBy
  <2>2. pc'[r] = "denied" \/ (pc'[r] = "logoutInvalidate" /\ revoked'[target[r]] = "logout")
    BY <1>0, <1>16, <2>1 DEF LogoutRevoke, RequestTypes, StoreTypes
  <2> QED
    BY Zenon, <1>m, <2>1, <2>2 DEF LogoutBy
<1>17. CASE LogoutInvalidate(r)
    BY Zenon, <1>0, <1>l, <1>m, <1>n, <1>p, <1>17, NoneAssumption DEF LogoutInvalidate, RequestTypes, LogoutBy
<1>18. ASSUME NEW h \in Tokens, LogoutAllRead(r, h) PROVE LogoutBy(r)'
    BY Zenon, <1>0, <1>l, <1>m, <1>n, <1>p, <1>18, NoneAssumption DEF LogoutAllRead, RequestTypes, LogoutBy
<1>19. CASE LogoutAllUpdate(r)
    BY Zenon, <1>0, <1>l, <1>m, <1>n, <1>p, <1>19, NoneAssumption DEF LogoutAllUpdate, RequestTypes, LogoutBy
<1>20. ASSUME NEW s \in Sessions, LogoutAllVisit(r, s) PROVE LogoutBy(r)'
    BY Zenon, <1>0, <1>l, <1>m, <1>n, <1>p, <1>20, NoneAssumption DEF LogoutAllVisit, RequestTypes, LogoutBy
<1>21. CASE LogoutAllInvalidate(r)
    BY Zenon, <1>0, <1>l, <1>m, <1>n, <1>p, <1>21, NoneAssumption DEF LogoutAllInvalidate, RequestTypes, LogoutBy
<1>22. CASE Finish(r)
    BY Zenon, <1>0, <1>l, <1>m, <1>n, <1>p, <1>22, NoneAssumption DEF Finish, Reset, RequestTypes, LogoutBy
<1> QED
    BY <1>1, <1>2, <1>3, <1>4, <1>5, <1>6, <1>7, <1>8, <1>9, <1>10, <1>11, <1>12, <1>13,
       <1>14, <1>15, <1>16, <1>17, <1>18, <1>19, <1>20, <1>21, <1>22 DEF Step

\* LogoutAll reports success only when no session it knew is left.
LEMMA LogoutAllStep ==
    ASSUME TypeOK, Chains, Presented, FamilyReason, \A x \in Requests : LogoutBy(x),
           \A x \in Requests : LogoutAllBy(x),
           NEW r \in Requests, Step(r)
    PROVE  LogoutAllBy(r)'
<1> USE DEF Goto, Idle, database, caches, issue, locals, history
<1>0. StoreTypes /\ RequestTypes /\ PresentedBy(r) /\ \A h \in handed : owner[h] # None
    BY DEF TypeOK, Presented
<1>g. Growth
    BY GrowthStep
<1>l. LogoutAllBy(r)
    OBVIOUS
<1>e. existing[r] \subseteq Sessions /\ todo[r] \subseteq Sessions
    BY <1>0 DEF RequestTypes
<1>k. ASSUME existing'[r] = existing[r], todo'[r] = todo[r],
             pc'[r] \notin {"allUpdate", "allVisit"},
             pc'[r] = "denied" \/ existing[r] = {}
      PROVE  LogoutAllBy(r)'
    BY Zenon, <1>g, <1>l, <1>e, <1>k DEF LogoutAllBy, Growth, Exists
<1>1. ASSUME NEW s \in Sessions, LoginCreate(r, s) PROVE LogoutAllBy(r)'
  <2>1. existing[r] = {} /\ existing'[r] = existing[r] /\ todo'[r] = todo[r]
    BY Zenon, <1>l, <1>1 DEF LoginCreate, Generate, LogoutAllBy
  <2>2. pc'[r] \notin {"allUpdate", "allVisit"}
    BY Zenon, <1>0, <1>1 DEF LoginCreate, Generate, RequestTypes
  <2> QED
    BY <1>k, <2>1, <2>2
<1>2. CASE Reply(r)
  <2>1. existing[r] = {} /\ existing'[r] = existing[r] /\ todo'[r] = todo[r]
    BY <1>l, <1>2 DEF Reply, LogoutAllBy
  <2>2. pc'[r] \notin {"allUpdate", "allVisit"}
    BY Zenon, <1>0, <1>2 DEF Reply, RequestTypes
  <2> QED
    BY Zenon, <1>k, <2>1, <2>2
<1>3. ASSUME NEW h \in Tokens, RefreshFind(r, h) PROVE LogoutAllBy(r)'
  <2>1. existing[r] = {} /\ existing'[r] = existing[r] /\ todo'[r] = todo[r]
    BY Zenon, <1>l, <1>3 DEF RefreshFind, Start, LogoutAllBy
  <2>2. pc'[r] \notin {"allUpdate", "allVisit"}
    BY Zenon, <1>0, <1>3 DEF RefreshFind, Start, RequestTypes
  <2> QED
    BY <1>k, <2>1, <2>2
<1>4. CASE RefreshFill(r)
  <2>1. existing[r] = {} /\ existing'[r] = existing[r] /\ todo'[r] = todo[r]
    BY <1>l, <1>4 DEF RefreshFill, LogoutAllBy
  <2>2. pc'[r] \notin {"allUpdate", "allVisit"}
    BY <1>0, <1>4 DEF RefreshFill, RequestTypes
  <2> QED
    BY <1>k, <2>1, <2>2
<1>5. CASE RefreshCheck(r)
  <2>1. existing[r] = {} /\ existing'[r] = existing[r] /\ todo'[r] = todo[r]
    BY <1>l, <1>5 DEF RefreshCheck, LogoutAllBy
  <2>2. pc'[r] \notin {"allUpdate", "allVisit"}
    BY <1>0, <1>5 DEF RefreshCheck, RequestTypes
  <2> QED
    BY <1>k, <2>1, <2>2
<1>6. CASE RotateRead(r)
  <2>1. existing[r] = {} /\ existing'[r] = existing[r] /\ todo'[r] = todo[r]
    BY <1>l, <1>6 DEF RotateRead, LogoutAllBy
  <2>2. pc'[r] \notin {"allUpdate", "allVisit"}
    BY Zenon, <1>0, <1>6 DEF RotateRead, RequestTypes
  <2> QED
    BY <1>k, <2>1, <2>2
<1>7. CASE Rotate(r)
  <2>1. existing[r] = {} /\ existing'[r] = existing[r] /\ todo'[r] = todo[r]
    BY <1>l, <1>7 DEF Rotate, Generate, LogoutAllBy
  <2>2. pc'[r] \notin {"allUpdate", "allVisit"}
    BY <1>0, <1>7 DEF Rotate, Generate, RequestTypes
  <2> QED
    BY <1>k, <2>1, <2>2
<1>8. CASE RotateInvalidate(r)
  <2>1. existing[r] = {} /\ existing'[r] = existing[r] /\ todo'[r] = todo[r]
    BY Zenon, <1>l, <1>8 DEF RotateInvalidate, LogoutAllBy
  <2>2. pc'[r] \notin {"allUpdate", "allVisit"}
    BY Zenon, <1>0, <1>8 DEF RotateInvalidate, RequestTypes
  <2> QED
    BY <1>k, <2>1, <2>2
<1>9. CASE ReuseFind(r)
  <2>1. existing[r] = {} /\ existing'[r] = existing[r] /\ todo'[r] = todo[r]
    BY Zenon, <1>l, <1>9 DEF ReuseFind, LogoutAllBy
  <2>2. pc'[r] \notin {"allUpdate", "allVisit"}
    BY Zenon, <1>0, <1>9 DEF ReuseFind, RequestTypes
  <2> QED
    BY <1>k, <2>1, <2>2
<1>10. CASE ReuseFill(r)
  <2>1. existing[r] = {} /\ existing'[r] = existing[r] /\ todo'[r] = todo[r]
    BY Zenon, <1>l, <1>10 DEF ReuseFill, LogoutAllBy
  <2>2. pc'[r] \notin {"allUpdate", "allVisit"}
    BY Zenon, <1>0, <1>10 DEF ReuseFill, RequestTypes
  <2> QED
    BY <1>k, <2>1, <2>2
<1>11. CASE FamilyRead(r)
  <2>1. existing[r] = {} /\ existing'[r] = existing[r] /\ todo'[r] = todo[r]
    BY Zenon, <1>l, <1>11 DEF FamilyRead, LogoutAllBy
  <2>2. pc'[r] \notin {"allUpdate", "allVisit"}
    BY Zenon, <1>0, <1>11 DEF FamilyRead, RequestTypes
  <2> QED
    BY <1>k, <2>1, <2>2
<1>12. CASE FamilyUpdate(r)
  <2>1. existing[r] = {} /\ existing'[r] = existing[r] /\ todo'[r] = todo[r]
    BY Zenon, <1>l, <1>12 DEF FamilyUpdate, LogoutAllBy
  <2>2. pc'[r] \notin {"allUpdate", "allVisit"}
    BY Zenon, <1>0, <1>12 DEF FamilyUpdate, RequestTypes
  <2> QED
    BY <1>k, <2>1, <2>2
<1>13. CASE FamilyInvalidate(r)
  <2>1. existing[r] = {} /\ existing'[r] = existing[r] /\ todo'[r] = todo[r]
    BY Zenon, <1>l, <1>13 DEF FamilyInvalidate, LogoutAllBy
  <2>2. pc'[r] \notin {"allUpdate", "allVisit"}
    BY Zenon, <1>0, <1>13 DEF FamilyInvalidate, RequestTypes
  <2> QED
    BY <1>k, <2>1, <2>2
<1>14. ASSUME NEW h \in Tokens, NEW s \in Sessions, LogoutValidate(r, h, s) PROVE LogoutAllBy(r)'
  <2>1. existing[r] = {} /\ existing'[r] = existing[r] /\ todo'[r] = todo[r]
    BY Zenon, <1>l, <1>14 DEF LogoutValidate, LogoutAllBy
  <2>2. pc'[r] \notin {"allUpdate", "allVisit"}
    BY Zenon, <1>0, <1>14 DEF LogoutValidate, RequestTypes
  <2> QED
    BY Zenon, <1>k, <2>1, <2>2
<1>15. CASE LogoutAppend(r)
  <2>1. existing[r] = {} /\ existing'[r] = existing[r] /\ todo'[r] = todo[r]
    BY Zenon, <1>l, <1>15 DEF LogoutAppend, LogoutAllBy
  <2>2. pc'[r] \notin {"allUpdate", "allVisit"}
    BY <1>0, <1>15 DEF LogoutAppend, RequestTypes
  <2> QED
    BY <1>k, <2>1, <2>2
<1>16. CASE LogoutRevoke(r)
  <2>1. existing[r] = {} /\ existing'[r] = existing[r] /\ todo'[r] = todo[r]
    BY Zenon, <1>l, <1>16 DEF LogoutRevoke, LogoutAllBy
  <2>2. pc'[r] \notin {"allUpdate", "allVisit"}
    BY <1>0, <1>16 DEF LogoutRevoke, RequestTypes
  <2> QED
    BY <1>k, <2>1, <2>2
<1>17. CASE LogoutInvalidate(r)
  <2>1. existing[r] = {} /\ existing'[r] = existing[r] /\ todo'[r] = todo[r]
    BY Zenon, <1>l, <1>17 DEF LogoutInvalidate, LogoutAllBy
  <2>2. pc'[r] \notin {"allUpdate", "allVisit"}
    BY <1>0, <1>17 DEF LogoutInvalidate, RequestTypes
  <2> QED
    BY <1>k, <2>1, <2>2
<1>18. ASSUME NEW h \in Tokens, LogoutAllRead(r, h) PROVE LogoutAllBy(r)'
  <2>1. existing'[r] = SessionsOf(UserOf[owner[h]]) /\ todo'[r] = todo[r] /\ tok'[r] = h
        /\ pc'[r] = "allUpdate" /\ UNCHANGED <<hash, owner>>
    BY Zenon, <1>0, <1>18 DEF LogoutAllRead, RequestTypes
  <2> QED
    BY Zenon, <1>l, <2>1 DEF LogoutAllBy, SessionsOf, Exists
<1>19. CASE LogoutAllUpdate(r)
  <2>1. todo'[r] = {s \in SessionsOf(UserOf[owner[tok[r]]]) : revoked[s] = "no"}
        /\ pc'[r] = "allVisit" /\ UNCHANGED <<hash, revoked, existing>>
    BY Zenon, <1>0, <1>19 DEF LogoutAllUpdate, RequestTypes
  <2>2. existing[r] \subseteq SessionsOf(UserOf[owner[tok[r]]])
    BY Zenon, <1>l, <1>19 DEF LogoutAllBy, LogoutAllUpdate
  <2> QED
    BY <2>1, <2>2 DEF LogoutAllBy, SessionsOf, Exists
<1>20. ASSUME NEW s \in Sessions, LogoutAllVisit(r, s) PROVE LogoutAllBy(r)'
  <2>1. todo'[r] = todo[r] \ {s} /\ pc'[r] = "allVisit" /\ pc[r] = "allVisit"
        /\ UNCHANGED <<hash, existing>>
    BY Zenon, <1>0, <1>20 DEF LogoutAllVisit, RequestTypes
  <2>2. revoked'[s] # "no" /\ \A x \in Sessions : revoked[x] # "no" => revoked'[x] # "no"
    BY Zenon, <1>0, <1>20 DEF LogoutAllVisit, StoreTypes
  <2> QED
    BY Zenon, <1>l, <1>e, <2>1, <2>2 DEF LogoutAllBy, Exists
<1>21. CASE LogoutAllInvalidate(r)
  <2>1. todo[r] = {} /\ pc'[r] \in {"ok", "denied"} /\ pc[r] = "allVisit"
        /\ UNCHANGED <<hash, revoked, existing, todo>>
    BY Zenon, <1>0, <1>21 DEF LogoutAllInvalidate, RequestTypes
  <2> QED
    BY Zenon, <1>l, <2>1 DEF LogoutAllBy, Exists
<1>22. CASE Finish(r)
  <2>1. todo'[r] = {} /\ existing'[r] = {} /\ pc'[r] = "idle"
    BY <1>0, <1>22 DEF Finish, Reset, RequestTypes
  <2> QED
    BY <2>1 DEF LogoutAllBy
<1> QED
    BY <1>1, <1>2, <1>3, <1>4, <1>5, <1>6, <1>7, <1>8, <1>9, <1>10, <1>11, <1>12, <1>13,
       <1>14, <1>15, <1>16, <1>17, <1>18, <1>19, <1>20, <1>21, <1>22 DEF Step

-----------------------------------------------------------------------------
(* The other requests, and the passing of time.                            *)

\* What a request knows survives the steps of the others.
LEMMA OthersKeep ==
    ASSUME TypeOK, Chains, Presented, Growth, NEW r \in Requests, Others(r),
           NEW x \in Requests \ {r},
           expired \subseteq expired', revokedTokens \subseteq revokedTokens',
           LateBy(x), SuspectsBy(x), LogoutBy(x), LogoutAllBy(x)
    PROVE  PresentedBy(x)' /\ LateBy(x)' /\ SuspectsBy(x)' /\ LogoutBy(x)' /\ LogoutAllBy(x)'
<1>0. StoreTypes /\ RequestTypes /\ PresentedBy(x)
    BY DEF TypeOK, Presented
<1>1. tok[x] # None => /\ tok[x] \in Tokens
                       /\ owner'[tok[x]] = owner[tok[x]] /\ owner[tok[x]] \in Sessions
    BY Zenon, <1>0, OwnSession DEF Growth, PresentedBy, RequestTypes
<1>2. new[x] # None => owner'[new[x]] = owner[new[x]]
    BY Zenon, <1>0 DEF Growth, PresentedBy, RequestTypes
<1>3. PresentedBy(x)'
    BY Zenon, <1>0, <1>1, <1>2 DEF PresentedBy, Others
<1>4. LateBy(x)'
  <2>1. pc'[x] = pc[x] /\ tok'[x] = tok[x] /\ new'[x] = new[x] /\ (x \in late' <=> x \in late)
    BY Zenon DEF Others
  <2>2. tok[x] # None /\ revoked[owner[tok[x]]] # "no" => revoked'[owner'[tok[x]]] # "no"
    BY Zenon, <1>1 DEF Growth
  <2> QED
    BY Zenon, <2>1, <2>2 DEF LateBy
<1>5. SuspectsBy(x)'
  <2>1. pc'[x] = pc[x] /\ tok'[x] = tok[x] /\ reason'[x] = reason[x]
    BY DEF Others
  <2>2. CASE tok[x] = None
    BY Zenon, <1>0, <2>1, <2>2 DEF PresentedBy, SuspectsBy
  <2>3. CASE tok[x] # None
    <3>1. PICK h \in Tokens, s \in Sessions : h = tok[x] /\ s = owner[tok[x]]
      BY Zenon, <1>1, <2>3
    <3>2. (Spent(h) => Spent(h)') /\ (Rotated(s) => Rotated(s)')
      BY EvidenceGrows
    <3>3. tok'[x] = h /\ owner'[tok'[x]] = s /\ (revoked[s] # "no" => revoked'[s] # "no")
      BY Zenon, <1>1, <2>1, <2>3, <3>1 DEF Growth
    <3>4. Spent(tok[x]) => Spent(tok[x])'
      BY Zenon, <3>1, <3>2, <3>3 DEF Spent
    <3>5. Rotated(owner[tok[x]]) => Rotated(owner[tok[x]])'
      BY Zenon, <3>1, <3>2, <3>3 DEF Rotated, Spent
    <3> QED
      BY Zenon, <2>1, <3>1, <3>3, <3>4, <3>5 DEF SuspectsBy
  <2> QED
    BY <2>2, <2>3
<1>6. LogoutBy(x)'
  <2>1. target[x] # None => target[x] \in Sessions
    BY <1>0 DEF RequestTypes
  <2> QED
    BY Zenon, <2>1 DEF LogoutBy, Others, Growth
<1>7. LogoutAllBy(x)'
  <2>1. existing[x] \subseteq Sessions /\ todo[x] \subseteq Sessions
    BY <1>0 DEF RequestTypes
  <2>2. pc[x] = "allUpdate" => owner'[tok'[x]] = owner[tok[x]]
    BY <1>0, <1>1 DEF PresentedBy, Others
  <2>3. pc'[x] = pc[x] /\ existing'[x] = existing[x] /\ todo'[x] = todo[x]
    BY Zenon DEF Others
  <2> QED
    BY Zenon, <2>1, <2>2, <2>3 DEF LogoutAllBy, Growth, Exists, SessionsOf
<1> QED
    BY <1>3, <1>4, <1>5, <1>6, <1>7

-----------------------------------------------------------------------------
(* The invariant and the theorems.                                         *)

\* The invariant holds before the first request.
LEMMA InvInit ==
    ASSUME Init
    PROVE  IInv
<1> USE NoneAssumption DEF Init
<1>1. TypeOK
    BY DEF TypeOK, StoreTypes, RequestTypes, Labels
<1>2. Chains /\ SingleUse
    BY DEF Chains, SingleUse, Exists
<1>3. Presented
    BY DEF Presented, PresentedBy
<1>4. \A r \in Requests : LateBy(r) /\ SuspectsBy(r) /\ LogoutBy(r) /\ LogoutAllBy(r)
    BY DEF LateBy, SuspectsBy, LogoutBy, LogoutAllBy
<1>5. FamilyReason /\ ReuseEvidence /\ \A s \in idCache : Rotated(s)
    BY DEF FamilyReason, ReuseEvidence
<1> QED
    BY <1>1, <1>2, <1>3, <1>4, <1>5 DEF IInv

\* A step of a request keeps the invariant and takes nothing back.
LEMMA RequestStep ==
    ASSUME IInv, NEW r \in Requests, Step(r)
    PROVE  IInv' /\ Growth
<1> USE DEF IInv
<1>1. Growth
    BY GrowthStep
<1>2. TypeOK'
    BY StoreTypesStep, RequestTypesStep DEF TypeOK
<1>3. Chains' /\ SingleUse'
    BY ChainStep
<1>4. (\A s \in idCache' : Rotated(s)') /\ ReuseEvidence'
    BY <1>1, ReuseStep
<1>5. PresentedBy(r)' /\ LateBy(r)' /\ SuspectsBy(r)' /\ LogoutBy(r)' /\ LogoutAllBy(r)'
    BY PresentedStep, LateStep, SuspectStep, LogoutStep, LogoutAllStep
<1>6. Others(r)
    BY OthersStep DEF TypeOK
<1>7. expired \subseteq expired' /\ revokedTokens \subseteq revokedTokens'
    BY RevokedTokensGrow
<1>8. \A x \in Requests \ {r} :
        PresentedBy(x)' /\ LateBy(x)' /\ SuspectsBy(x)' /\ LogoutBy(x)' /\ LogoutAllBy(x)'
  <2> SUFFICES ASSUME NEW x \in Requests \ {r}
               PROVE  /\ PresentedBy(x)' /\ LateBy(x)' /\ SuspectsBy(x)'
                      /\ LogoutBy(x)' /\ LogoutAllBy(x)'
    OBVIOUS
  <2>1. LateBy(x) /\ SuspectsBy(x) /\ LogoutBy(x) /\ LogoutAllBy(x)
    OBVIOUS
  <2> QED
    BY <1>1, <1>6, <1>7, <2>1, OthersKeep
<1>9. \A h \in handed' : owner'[h] # None
  <2>0. StoreTypes /\ RequestTypes /\ PresentedBy(r) /\ \A h \in handed : owner[h] # None
    BY DEF TypeOK, Presented
  <2>1. handed' = handed \/ Reply(r)
    BY Zenon DEF Step, LoginCreate, RefreshFind, RefreshFill, RefreshCheck, RotateRead, Rotate,
           RotateInvalidate, ReuseFind, ReuseFill, FamilyRead, FamilyUpdate,
           FamilyInvalidate, LogoutValidate, LogoutAppend, LogoutRevoke, LogoutInvalidate,
           LogoutAllRead, LogoutAllUpdate, LogoutAllVisit, LogoutAllInvalidate, Finish
  <2>2. CASE Reply(r)
    BY Zenon, <2>0, <2>2 DEF Reply, PresentedBy, issue
  <2>3. CASE handed' = handed
    BY Zenon, <1>1, <2>0, <2>3 DEF Growth, StoreTypes
  <2> QED
    BY <2>1, <2>2, <2>3
<1>10. FamilyReason'
    BY Zenon, <1>6, FamilyReasonStep DEF FamilyReason, Others
<1>11. Presented'
    BY Zenon, <1>5, <1>8, <1>9 DEF Presented
<1> QED
    BY <1>1, <1>2, <1>3, <1>4, <1>5, <1>8, <1>10, <1>11

\* Time only adds to the expired tokens.
LEMMA ExpireStep ==
    ASSUME IInv, NEW h \in Tokens, Expire(h)
    PROVE  IInv' /\ Growth
<1> USE DEF Expire, database, caches, issue, locals, history
<1>0. TypeOK /\ Chains /\ SingleUse /\ Presented
    BY DEF IInv
<1>1. TypeOK'
    BY <1>0 DEF TypeOK, StoreTypes, RequestTypes
<1>2. Chains' /\ SingleUse' /\ Presented'
    BY <1>0 DEF Chains, SingleUse, Presented, PresentedBy, Exists, Spent
<1>3. ASSUME NEW r \in Requests PROVE SuspectsBy(r)'
  <2>1. SuspectsBy(r)
    BY DEF IInv
  <2> QED
    BY Zenon, <2>1 DEF SuspectsBy, Spent, Rotated
<1>4. ASSUME NEW r \in Requests PROVE LateBy(r)' /\ LogoutBy(r)' /\ LogoutAllBy(r)'
  <2>1. LateBy(r) /\ LogoutBy(r) /\ LogoutAllBy(r)
    BY DEF IInv
  <2>2. LateBy(r)'
    BY <2>1 DEF LateBy
  <2>3. LogoutBy(r)'
    BY Zenon, <2>1 DEF LogoutBy, Exists
  <2>4. LogoutAllBy(r)'
    BY Zenon, <2>1 DEF LogoutAllBy, SessionsOf, Exists
  <2> QED
    BY <2>2, <2>3, <2>4
<1>5. FamilyReason' /\ ReuseEvidence' /\ \A s \in idCache' : Rotated(s)'
  <2>1. FamilyReason /\ ReuseEvidence /\ \A s \in idCache : Rotated(s)
    BY DEF IInv
  <2>2. FamilyReason'
    BY <2>1 DEF FamilyReason
  <2>3. ReuseEvidence'
    BY <2>1 DEF ReuseEvidence, Rotated, Spent
  <2>4. \A s \in idCache' : Rotated(s)'
    BY <2>1 DEF Rotated, Spent
  <2> QED
    BY <2>2, <2>3, <2>4
<1>6. Growth
    BY DEF Growth, Exists
<1> QED
    BY <1>1, <1>2, <1>3, <1>4, <1>5, <1>6 DEF IInv

\* The invariant survives a step that changes nothing.
LEMMA StutterStep ==
    ASSUME IInv, UNCHANGED vars
    PROVE  IInv' /\ Growth
<1> USE DEF vars
<1>0. TypeOK /\ Chains /\ SingleUse /\ Presented
    BY DEF IInv
<1>1. TypeOK'
    BY <1>0 DEF TypeOK, StoreTypes, RequestTypes
<1>2. Chains' /\ SingleUse' /\ Presented'
    BY <1>0 DEF Chains, SingleUse, Presented, PresentedBy, Exists, Spent
<1>3. ASSUME NEW r \in Requests PROVE SuspectsBy(r)'
  <2>1. SuspectsBy(r)
    BY DEF IInv
  <2> QED
    BY <2>1 DEF SuspectsBy, Spent, Rotated
<1>4. ASSUME NEW r \in Requests PROVE LateBy(r)' /\ LogoutBy(r)' /\ LogoutAllBy(r)'
  <2>1. LateBy(r) /\ LogoutBy(r) /\ LogoutAllBy(r)
    BY DEF IInv
  <2>2. LateBy(r)'
    BY <2>1 DEF LateBy
  <2>3. LogoutBy(r)'
    BY Zenon, <2>1 DEF LogoutBy, Exists
  <2>4. LogoutAllBy(r)'
    BY Zenon, <2>1 DEF LogoutAllBy, SessionsOf, Exists
  <2> QED
    BY <2>2, <2>3, <2>4
<1>5. FamilyReason' /\ ReuseEvidence' /\ \A s \in idCache' : Rotated(s)'
  <2>1. FamilyReason /\ ReuseEvidence /\ \A s \in idCache : Rotated(s)
    BY DEF IInv
  <2>2. FamilyReason'
    BY <2>1 DEF FamilyReason
  <2>3. ReuseEvidence'
    BY <2>1 DEF ReuseEvidence, Rotated, Spent
  <2>4. \A s \in idCache' : Rotated(s)'
    BY <2>1 DEF Rotated, Spent
  <2> QED
    BY <2>2, <2>3, <2>4
<1>6. Growth
    BY DEF Growth, Exists
<1> QED
    BY <1>1, <1>2, <1>3, <1>4, <1>5, <1>6 DEF IInv

\* The invariant is inductive, and every step only adds.
LEMMA InvStep ==
    ASSUME IInv, [Next]_vars
    PROVE  IInv' /\ Growth
BY NextSteps, RequestStep, ExpireStep, StutterStep

\* The inductive invariant: the chains of tokens in the collection, and what
\* every request in flight may still assume.
THEOREM Invariance == Spec => []IInv
<1>1. Init => IInv
    BY InvInit
<1>2. IInv /\ [Next]_vars => IInv'
    BY InvStep
<1> QED
    BY <1>1, <1>2, PTL DEF Spec

\* Every variable keeps its type.
THEOREM TypeCorrect == Spec => []TypeOK
<1>1. IInv => TypeOK
    BY DEF IInv
<1> QED
    BY <1>1, Invariance, PTL

\* RotateRefreshToken exchanges a refresh token at most once.
THEOREM RotationIsSingleUse == Spec => []SingleUse
<1>1. IInv => SingleUse
    BY DEF IInv
<1> QED
    BY <1>1, Invariance, PTL

\* A revoked session is never revived, nor given another token.
THEOREM RevocationIsFinal == Spec => RevokedForever
<1>1. IInv /\ [Next]_vars =>
        [\A s \in Sessions : revoked[s] # "no" =>
            revoked'[s] # "no" /\ hash'[s] = hash[s]]_vars
    BY InvStep DEF Growth
<1> QED
    BY <1>1, Invariance, PTL DEF Spec, RevokedForever

\* A refresh that starts after the revocation gets no tokens, stale caches or not.
THEOREM RevocationStopsRefresh == Spec => []NoRefreshAfterRevocation
<1>1. IInv => NoRefreshAfterRevocation
    BY Zenon DEF IInv, TypeOK, RequestTypes, LateBy, NoRefreshAfterRevocation
<1> QED
    BY <1>1, Invariance, PTL

\* Reuse is suspected only of sessions that were refreshed before.
THEOREM SuspicionHasEvidence == Spec => []ReuseEvidence
<1>1. IInv => ReuseEvidence
    BY DEF IInv
<1> QED
    BY <1>1, Invariance, PTL

\* A successful Logout has revoked the access token and the session.
THEOREM LogoutEffect == Spec => []LogoutTakesEffect
<1>1. IInv => LogoutTakesEffect
    BY DEF IInv, LogoutBy, LogoutTakesEffect
<1> QED
    BY <1>1, Invariance, PTL

\* A successful LogoutAll leaves none of the user's sessions active.
THEOREM LogoutAllEffect == Spec => []LogoutAllComplete
<1>1. IInv => LogoutAllComplete
    BY DEF IInv, LogoutAllBy, LogoutAllComplete
<1> QED
    BY <1>1, Invariance, PTL

-----------------------------------------------------------------------------
(* The handlers implement the session store.                               *)

\* What writes neither the collection nor the issued tokens is no step of the
\* store.
LEMMA StoreWaits ==
    ASSUME UNCHANGED <<hash, revoked, owner, from>>
    PROVE  UNCHANGED Store!vars
BY DEF Store!vars, Standing, Exists, Issued, SpentTokens, Spent

\* A token is issued in the step that makes it its session's current one, and
\* the token it replaces is spent.
LEMMA StoreIssues ==
    ASSUME TypeOK, Chains, NEW s \in Sessions, Issued # Tokens,
           NEW h \in Tokens \cup {None},
           hash' = [hash EXCEPT ![s] = Fresh],
           owner' = [owner EXCEPT ![Fresh] = s],
           from' = [from EXCEPT ![Fresh] = h]
    PROVE  /\ Fresh \in Tokens
           /\ Store!Issue(s, Fresh)
           /\ SpentTokens' = SpentTokens \cup ({h} \ {None})
<1> USE NoneAssumption
<1>0. StoreTypes
    BY DEF TypeOK
<1>1. Fresh \in Tokens /\ owner[Fresh] = None /\ from[Fresh] = None
    BY FreshToken DEF Chains
<1>2. Fresh \notin Issued /\ Issued' = Issued \cup {Fresh}
    BY <1>0, <1>1 DEF Issued, StoreTypes
<1>3. ASSUME NEW g \in Tokens PROVE Spent(g)' <=> Spent(g) \/ g = h
  <2>1. Spent(g) => Spent(g)'
    BY <1>0, <1>1 DEF Spent, StoreTypes
  <2>2. g = h => Spent(g)'
    BY <1>0, <1>1 DEF Spent, StoreTypes
  <2>3. Spent(g)' => Spent(g) \/ g = h
    BY <1>0, <1>1 DEF Spent, StoreTypes
  <2> QED
    BY <2>1, <2>2, <2>3
<1>4. SpentTokens' = SpentTokens \cup ({h} \ {None})
    BY <1>3 DEF SpentTokens
<1> QED
    BY <1>1, <1>2, <1>4 DEF Store!Issue

\* A revocation is one step on one session.
LEMMA StoreRevokes ==
    ASSUME StoreTypes, NEW s \in Sessions, Unrevoked(s), NEW why \in Reasons,
           revoked' = [revoked EXCEPT ![s] = why], UNCHANGED <<hash, owner, from>>
    PROVE  Store!Revoke(s)
<1>1. Standing(s) = "active" /\ Standing(s)' = "revoked"
    BY DEF Standing, Unrevoked, Exists, StoreTypes, Reasons
<1>2. \A x \in Sessions : x # s => Standing(x)' = Standing(x)
    BY DEF Standing, Exists, StoreTypes
<1>3. [x \in Sessions |-> Standing(x)]' =
        [[x \in Sessions |-> Standing(x)] EXCEPT ![s] = "revoked"]
    BY Zenon, <1>1, <1>2
<1>4. UNCHANGED <<Issued, SpentTokens>>
    BY DEF Issued, SpentTokens, Spent
<1> QED
    BY <1>1, <1>3, <1>4 DEF Store!Revoke

\* The update of RotateRefreshToken is the exchange.
LEMMA StoreExchanges ==
    ASSUME IInv, NEW r \in Requests, Rotate(r)
    PROVE  [Store!Next]_(Store!vars)
<1>0. TypeOK /\ StoreTypes /\ Chains
    BY DEF IInv, TypeOK
<1>1. tok[r] \in Tokens /\ owner[tok[r]] \in Sessions
    BY OwnSession DEF IInv, Rotate, Presented, PresentedBy
<1> DEFINE s == owner[tok[r]]
<1>2. CASE RotateMatches(s, tok[r])
  <2>1. /\ Issued # Tokens /\ UNCHANGED revoked
        /\ hash' = [hash EXCEPT ![s] = Fresh]
        /\ owner' = [owner EXCEPT ![Fresh] = s]
        /\ from' = [from EXCEPT ![Fresh] = tok[r]]
    BY <1>2 DEF Rotate, Generate
  <2>2. hash[s] = tok[r] /\ Standing(s) = "active"
    BY <1>2 DEF RotateMatches, Unrevoked, Standing
  <2>3. /\ Fresh \in Tokens /\ Store!Issue(s, Fresh)
        /\ SpentTokens' = SpentTokens \cup {hash[s]}
    BY Zenon, <1>0, <1>1, <2>1, <2>2, StoreIssues, NoneAssumption
  <2>4. hash[s] \notin SpentTokens
    BY <1>0, <1>1, <2>2, NoneAssumption DEF SpentTokens, Spent, Chains
  <2>5. \A x \in Sessions : Standing(x)' = Standing(x)
    BY <1>0, <1>1, <2>1, <2>2, <2>3, NoneAssumption DEF Standing, Exists, StoreTypes
  <2>6. Store!Exchange(s, Fresh)
    BY <1>1, <2>2, <2>3, <2>4, <2>5 DEF Store!Exchange
  <2> QED
    BY <1>1, <2>3, <2>6 DEF Store!Next
<1>3. CASE ~RotateMatches(s, tok[r])
  <2>1. UNCHANGED <<hash, revoked, owner, from>>
    BY <1>3 DEF Rotate, issue
  <2> QED
    BY <2>1, StoreWaits
<1> QED
    BY <1>2, <1>3

\* Every step of the service is a step of the store, or none.
LEMMA StoreStep ==
    ASSUME IInv, [Next]_vars
    PROVE  [Store!Next]_(Store!vars)
<1>0. TypeOK /\ StoreTypes /\ RequestTypes /\ Chains
    BY DEF IInv, TypeOK
<1>1. CASE UNCHANGED <<hash, revoked, owner, from>>
    BY <1>1, StoreWaits
<1>2. ASSUME NEW r \in Requests, NEW s \in Sessions, LoginCreate(r, s)
      PROVE  [Store!Next]_(Store!vars)
  <2>1. /\ Issued # Tokens /\ UNCHANGED revoked /\ ~Exists(s)
        /\ hash' = [hash EXCEPT ![s] = Fresh]
        /\ owner' = [owner EXCEPT ![Fresh] = s]
        /\ from' = [from EXCEPT ![Fresh] = None]
    BY <1>2 DEF LoginCreate, Generate
  <2>2. Fresh \in Tokens /\ Store!Issue(s, Fresh) /\ UNCHANGED SpentTokens
    BY Zenon, <1>0, <2>1, StoreIssues
  <2>3. Standing(s) = "absent" /\ Standing(s)' = "active"
    BY <1>0, <2>1, <2>2, NoneAssumption DEF Standing, Exists, Chains, StoreTypes
  <2>4. \A x \in Sessions : x # s => Standing(x)' = Standing(x)
    BY <1>0, <2>1 DEF Standing, Exists, StoreTypes
  <2>5. [x \in Sessions |-> Standing(x)]' =
          [[x \in Sessions |-> Standing(x)] EXCEPT ![s] = "active"]
    BY Zenon, <2>3, <2>4
  <2>6. Store!Open(s, Fresh)
    BY <2>2, <2>3, <2>5 DEF Store!Open
  <2> QED
    BY <2>2, <2>6 DEF Store!Next
<1>3. ASSUME NEW r \in Requests, FamilyUpdate(r) PROVE [Store!Next]_(Store!vars)
  <2> DEFINE s == owner[tok[r]]
  <2>1. s \in Sessions /\ reason[r] \in Reasons
    BY <1>0, <1>3, OwnSession
       DEF IInv, FamilyUpdate, Presented, PresentedBy, FamilyReason, Reasons
  <2>2. CASE Unrevoked(s)
    BY <1>0, <1>3, <2>1, <2>2, StoreRevokes DEF FamilyUpdate, issue, Store!Next
  <2>3. CASE ~Unrevoked(s)
    BY <1>3, <2>3, StoreWaits DEF FamilyUpdate, issue
  <2> QED
    BY <2>2, <2>3
<1>4. ASSUME NEW r \in Requests, LogoutRevoke(r) PROVE [Store!Next]_(Store!vars)
  <2>1. target[r] \in Sessions
    BY <1>0, <1>4 DEF IInv, LogoutRevoke, LogoutBy, RequestTypes
  <2>2. CASE Unrevoked(target[r])
    <3>1. Exists(target[r]) /\ "logout" \in Reasons
      BY <2>2 DEF Unrevoked, Reasons
    <3> QED
      BY <1>0, <1>4, <2>1, <2>2, <3>1, StoreRevokes DEF LogoutRevoke, issue, Store!Next
  <2>3. CASE ~Unrevoked(target[r])
    <3>1. \A x \in Sessions : Standing(x)' = Standing(x)
      BY <1>0, <1>4, <2>1, <2>3 DEF LogoutRevoke, Standing, Unrevoked, Exists, StoreTypes
    <3>2. UNCHANGED <<hash, Issued, SpentTokens>>
      BY <1>4 DEF LogoutRevoke, issue, Issued, SpentTokens, Spent
    <3> QED
      BY <3>1, <3>2 DEF Store!vars
  <2> QED
    BY <2>2, <2>3
<1>5. ASSUME NEW r \in Requests, NEW s \in Sessions, LogoutAllVisit(r, s)
      PROVE  [Store!Next]_(Store!vars)
  <2>1. Exists(s) /\ "logout_all" \in Reasons
    BY <1>5 DEF IInv, LogoutAllVisit, LogoutAllBy, SessionsOf, Reasons
  <2>2. CASE revoked[s] = "no"
    BY <1>0, <1>5, <2>1, <2>2, StoreRevokes DEF LogoutAllVisit, Unrevoked, issue, Store!Next
  <2>3. CASE revoked[s] # "no"
    BY <1>5, <2>3, StoreWaits DEF LogoutAllVisit, issue
  <2> QED
    BY <2>2, <2>3
<1>6. ASSUME NEW h \in Tokens, Expire(h) PROVE [Store!Next]_(Store!vars)
    BY <1>1, <1>6 DEF Expire, database, issue
<1>7. CASE UNCHANGED vars
    BY <1>1, <1>7 DEF vars
<1>8. ASSUME NEW r \in Requests, Step(r) PROVE [Store!Next]_(Store!vars)
    BY Zenon, <1>1, <1>2, <1>3, <1>4, <1>5, <1>8, StoreExchanges, StoreFrame
<1> QED
    BY <1>6, <1>7, <1>8, NextSteps

\* However many requests interleave, and whatever Redis caches, the service acts
\* on each session as if every operation were one step on one table.
THEOREM IsSessionStore == Spec => ImplementsStore
<1>1. Init => Store!Init
  <2> SUFFICES ASSUME Init PROVE Store!Init
    OBVIOUS
  <2>1. \A s \in Sessions : Standing(s) = "absent"
    BY DEF Init, Standing, Exists
  <2>2. Issued = {} /\ SpentTokens = {}
    BY NoneAssumption DEF Init, Issued, SpentTokens, Spent
  <2> QED
    BY <2>1, <2>2 DEF Init, Store!Init
<1>2. IInv /\ [Next]_vars => [Store!Next]_(Store!vars)
    BY StoreStep
<1> QED
    BY <1>1, <1>2, Invariance, PTL DEF Spec, ImplementsStore, Store!Spec
=============================================================================
