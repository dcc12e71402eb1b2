--------------------------- MODULE SessionsProofs ---------------------------
(***************************************************************************)
(* Safety of Sessions for every number of tokens, sessions and requests.   *)
(***************************************************************************)
EXTENDS Sessions, TLAPS

\* A row has a session from the moment it is minted.
MintedHasSession ==
    \A t \in Tokens : rowState[t] = "unminted" <=> rowSession[t] = NoSession

\* Clients, and therefore requests, hold minted tokens only.
HeldTokensMinted ==
    /\ \A t \in issued : rowState[t] # "unminted"
    /\ \A p \in Procs : pc[p] \in {"replay", "check", "insert", "mark"}
                          => tok[p] \in issued

\* What a request about to supersede its token has minted: a row of the same
\* session, unknown to every client, still unrevoked unless the session ended.
Replacement(p) ==
    /\ new[p] \in Tokens \ issued
    /\ rowState[new[p]] # "unminted"
    /\ rowSession[new[p]] = rowSession[tok[p]]
    /\ rowState[new[p]] = "live" \/ rowSession[tok[p]] \in ended

ReplacementsReady ==
    /\ \A p \in Procs : pc[p] = "mark" => Replacement(p)
    /\ \A p, q \in Procs : pc[p] = "mark" /\ pc[q] = "mark" /\ p # q
                             => new[p] # new[q]

\* Only sessions with rows are ended, and a row that lost its life without
\* being superseded belongs to an ended session.
EndedIsRecorded ==
    /\ \A s \in ended : \E t \in Tokens : rowState[t] # "unminted" /\ rowSession[t] = s
    /\ \A t \in Tokens :
         \/ rowState[t] = "deleted"
         \/ rowState[t] = "revoked" /\ rotatedAt[t] = NoTime
         => rowSession[t] \in ended

\* FOR SHARE protects the session between the liveness check and the insert.
CheckedStillLive ==
    \A p \in Procs : pc[p] = "insert" => \/ rowSession[tok[p]] \notin ended
                                         \/ rowSession[tok[p]] \in raced

Safety == /\ OnlyRevocationEnds
          /\ EndedStaysEnded
          /\ IssuedTokenWorks
          /\ RevokedMeansOver

IInv == /\ TypeOK
        /\ MintedHasSession
        /\ HeldTokensMinted
        /\ ReplacementsReady
        /\ EndedIsRecorded
        /\ CheckedStillLive
        /\ Safety

\* What every step but the rotation's own two does to the requests: none gets
\* to "mark", and one that gets to "insert" has just seen its session live.
RequestsKept ==
    /\ \A p \in Procs : pc'[p] \in {"replay", "check", "insert", "mark"}
                          => tok'[p] \in issued
    /\ \A p \in Procs : pc'[p] = "mark"
                          => pc[p] = "mark" /\ tok'[p] = tok[p] /\ new'[p] = new[p]
    /\ \A p \in Procs : pc'[p] = "insert"
                          => /\ tok'[p] = tok[p]
                             /\ pc[p] = "insert" \/ LiveSession(rowSession[tok[p]])

-----------------------------------------------------------------------------
(* Type correctness.                                                       *)

\* Revoking rows keeps the table and the set of ended sessions well typed.
LEMMA RevokeRowsType ==
    ASSUME TypeOK, NEW S \in SUBSET SessionIds, RevokeRows(S)
    PROVE  rowState' \in [Tokens -> RowStates] /\ ended' \subseteq SessionIds
BY DEF TypeOK, RevokeRows, RowStates

\* The session of a minted row is a session id, so what a revoking statement
\* names is a set of session ids.
LEMMA StartedType == TypeOK /\ MintedHasSession => Started \subseteq SessionIds
BY DEF TypeOK, MintedHasSession, Started

\* Every step of every request keeps the state well typed.
LEMMA TypeStep ==
    ASSUME TypeOK, MintedHasSession, HeldTokensMinted, ReplacementsReady,
           [Next]_vars
    PROVE  TypeOK'
<1> USE SessionsAssumption DEF TypeOK, RowStates, Labels, Verdicts, NoAnswer
<1>1. ASSUME NEW p \in Procs,
             LoginChecked(p) \/ CheckLive(p) \/ ResetUser2fa(p)
      PROVE  TypeOK'
  BY <1>1 DEF LoginChecked, CheckLive, ResetUser2fa, GoTo, rows
<1>2. ASSUME NEW p \in Procs, EvictFails(p) PROVE TypeOK'
  BY <1>2 DEF EvictFails, GoTo, rows
<1>3. ASSUME NEW p \in Procs, DisableUser(p) PROVE TypeOK'
  BY <1>3 DEF DisableUser, GoTo, rows
<1>4. ASSUME NEW p \in Procs, EvictOldestSessions(p) PROVE TypeOK'
  BY <1>4 DEF EvictOldestSessions, RevokeRows, LiveSessions, GoTo
<1>5. ASSUME NEW p \in Procs, NEW t \in Tokens, NEW s \in SessionIds,
             CreateSession(p, t, s)
      PROVE  TypeOK'
  BY <1>5 DEF CreateSession, InsertRow, Finish
<1>6. ASSUME NEW p \in Procs, NEW t \in Tokens, NEW res \in Verdicts,
             RefreshRefused(p, t, res)
      PROVE  TypeOK'
  BY <1>6 DEF RefreshRefused, rows, request
<1>7. ASSUME NEW p \in Procs, NEW t \in Tokens, RefreshLive(p, t) PROVE TypeOK'
  BY <1>7 DEF RefreshLive, RefreshBegin, rows
<1>8. ASSUME NEW p \in Procs, NEW t \in Tokens, RefreshGrace(p, t) PROVE TypeOK'
  BY <1>8 DEF RefreshGrace, RefreshBegin, rows
<1>9. ASSUME NEW p \in Procs, NEW t \in Tokens, RefreshReplay(p, t) PROVE TypeOK'
  BY <1>9 DEF RefreshReplay, RefreshBegin, rows
<1>10. ASSUME NEW p \in Procs, NEW t \in Tokens, InsertInLive(p, t) PROVE TypeOK'
  <2>1. /\ tok[p] \in Tokens
        /\ rowSession[tok[p]] \in SessionIds
    BY <1>10 DEF InsertInLive, HeldTokensMinted, MintedHasSession
  <2>2. CASE rotate[p]
    BY <1>10, <2>1, <2>2 DEF InsertInLive, InsertRow
  <2>3. CASE ~rotate[p]
    <3>1. /\ Finish(p)
          /\ issued' = issued \cup {t}
          /\ answer' = [res |-> "ok", ses |-> rowSession[tok[p]]]
      BY <1>10, <2>3 DEF InsertInLive
    <3>2. answer' \in [res : Verdicts \cup {"none"}, ses : SessionIds \cup {NoSession}]
      BY <2>1, <3>1
    <3>3. (pc' \in [Procs -> Labels] /\ tok' \in [Procs -> Tokens \cup {NoToken}])
      BY <3>1 DEF Finish
    <3>4. /\ new' \in [Procs -> Tokens \cup {NoToken}]
          /\ rotate' \in [Procs -> BOOLEAN]
      BY <3>1 DEF Finish
    <3> QED BY <1>10, <2>1, <3>1, <3>2, <3>3, <3>4 DEF InsertInLive, InsertRow
  <2> QED BY <2>2, <2>3
<1>11. ASSUME NEW p \in Procs, ReplayRevoke(p) PROVE TypeOK'
  <2>1. rowSession[tok[p]] \in SessionIds
    BY <1>11 DEF ReplayRevoke, HeldTokensMinted, MintedHasSession
  <2> QED BY <1>11, <2>1 DEF ReplayRevoke, RevokeRows, Finish, rows
<1>12. ASSUME NEW p \in Procs, CheckEnded(p) PROVE TypeOK'
  BY <1>12 DEF CheckEnded, HeldTokensMinted, Finish, rows
<1>13. ASSUME NEW p \in Procs, MarkRotated(p) PROVE TypeOK'
  BY <1>13 DEF MarkRotated, HeldTokensMinted, ReplacementsReady, Replacement, Finish
<1>14. ASSUME NEW p \in Procs, DeleteForUser(p) PROVE TypeOK'
  <2>1. \A q \in Procs : pc[q] = "insert" => rowSession[tok[q]] \in SessionIds
    BY DEF HeldTokensMinted, MintedHasSession
  <2> QED BY <1>14, <2>1, StartedType DEF DeleteForUser, Finish
<1>15. ASSUME NEW s \in SessionIds, RevokeSession(s) PROVE TypeOK'
  BY <1>15 DEF RevokeSession, RevokeRows, request
<1>16. ASSUME NEW t \in Tokens, Logout(t) PROVE TypeOK'
  BY <1>16, <1>15 DEF Logout, HeldTokensMinted, MintedHasSession
<1>17. ASSUME NEW keep \in SessionIds,
              RevokeSessionsExcept(keep) \/ RevokeAllForUser
       PROVE  TypeOK'
  BY <1>17, StartedType DEF RevokeSessionsExcept, RevokeAllForUser, RevokeRows, request
<1>18. ASSUME RevokeAllForUser PROVE TypeOK'
  BY <1>18, StartedType DEF RevokeAllForUser, RevokeRows, request
<1>19. CASE EnableUser
  BY <1>19 DEF EnableUser, rows, request
<1>20. CASE Tick
  BY <1>20 DEF Tick, rows, request
<1>21. ASSUME NEW p \in Procs, Fail(p) PROVE TypeOK'
  BY <1>21 DEF Fail, Finish, rows
<1>22. CASE UNCHANGED vars
  BY <1>22 DEF vars, rows, request
<1> QED
  BY SMTT(60), <1>1, <1>2, <1>3, <1>4, <1>5, <1>6, <1>7, <1>8, <1>9, <1>10, <1>11,
     <1>12, <1>13, <1>14, <1>15, <1>16, <1>17, <1>18, <1>19, <1>20, <1>21,
     <1>22 DEF Next

-----------------------------------------------------------------------------
(* The steps, by what they do to the table.                                *)

\* A step that leaves the table, the clients and the history of ends alone.
LEMMA QuietStep ==
    ASSUME IInv, TypeOK', UNCHANGED <<rows, issued, ended, raced>>,
           RequestsKept, RevokedMeansOver'
    PROVE  IInv'
<1> USE DEF IInv, Safety, rows, RequestsKept
<1>1. (MintedHasSession /\ HeldTokensMinted /\ EndedIsRecorded)'
  BY DEF MintedHasSession, HeldTokensMinted, EndedIsRecorded
<1>2. ReplacementsReady'
  BY DEF ReplacementsReady, Replacement
<1>3. CheckedStillLive'
  <2>1. \A s \in SessionIds : LiveSession(s) => s \notin ended \/ s \in raced
    BY DEF EndedStaysEnded, Unrevoked, LiveSession
  <2>2. \A p \in Procs : pc'[p] = "insert" => rowSession[tok[p]] \in SessionIds
    BY DEF TypeOK, HeldTokensMinted, MintedHasSession
  <2> QED BY <2>1, <2>2 DEF CheckedStillLive
<1>4. (OnlyRevocationEnds /\ EndedStaysEnded /\ IssuedTokenWorks)'
  BY DEF OnlyRevocationEnds, EndedStaysEnded, IssuedTokenWorks, Started, Unrevoked
<1> QED BY <1>1, <1>2, <1>3, <1>4

\* A step that revokes the rows of sessions S, none of them between another
\* request's check and its insert because FOR SHARE is not held.
LEMMA RevokeStep ==
    ASSUME IInv, TypeOK', NEW S \in SUBSET Started, RevokeRows(S),
           UNCHANGED <<issued, raced>>, RequestsKept, RevokedMeansOver',
           \A p \in Procs : pc'[p] # "insert"
    PROVE  IInv'
<1> USE DEF IInv, Safety, RevokeRows, RequestsKept
<1>1. (MintedHasSession /\ HeldTokensMinted)'
  BY DEF TypeOK, RowStates, MintedHasSession, HeldTokensMinted
<1>2. ReplacementsReady'
  BY DEF TypeOK, ReplacementsReady, Replacement
<1>3. EndedIsRecorded'
  BY DEF TypeOK, EndedIsRecorded, Started
<1>4. CheckedStillLive'
  BY DEF CheckedStillLive
<1>5. OnlyRevocationEnds'
  BY DEF TypeOK, OnlyRevocationEnds, Started, Unrevoked
<1>6. EndedStaysEnded'
  BY DEF TypeOK, EndedStaysEnded, Unrevoked
<1>7. IssuedTokenWorks'
  BY DEF TypeOK, IssuedTokenWorks
<1> QED BY <1>1, <1>2, <1>3, <1>4, <1>5, <1>6, <1>7

\* A login starts a session no row belonged to.
LEMMA CreateStep ==
    ASSUME IInv, TypeOK', NEW p \in Procs, NEW t \in Tokens, NEW s \in SessionIds,
           CreateSession(p, t, s)
    PROVE  IInv'
<1> USE SessionsAssumption DEF IInv, Safety, TypeOK, MintedHasSession,
        HeldTokensMinted, EndedIsRecorded, NoAnswer, CreateSession, InsertRow, Finish, Started
<1>1. MintedHasSession'
  BY DEF MintedHasSession
<1>2. HeldTokensMinted'
  BY DEF HeldTokensMinted
<1>3. ReplacementsReady'
  BY DEF ReplacementsReady, Replacement
<1>4. EndedIsRecorded'
  BY DEF EndedIsRecorded
<1>5. CheckedStillLive'
  BY DEF CheckedStillLive
<1>6. OnlyRevocationEnds'
  BY DEF OnlyRevocationEnds, Started, Unrevoked
<1>7. EndedStaysEnded'
  BY DEF EndedStaysEnded, Unrevoked
<1>8. IssuedTokenWorks'
  BY DEF IssuedTokenWorks
<1>9. RevokedMeansOver'
  BY DEF RevokedMeansOver, LiveSession
<1> QED BY <1>1, <1>2, <1>3, <1>4, <1>5, <1>6, <1>7, <1>8, <1>9

\* The refresh inserts the replacement into a session that is still live, or
\* that DeleteForUser purged behind the check.
LEMMA InsertStep ==
    ASSUME IInv, TypeOK', NEW p \in Procs, NEW t \in Tokens, InsertInLive(p, t)
    PROVE  IInv'
<1> USE SessionsAssumption DEF IInv, Safety, TypeOK, MintedHasSession,
        HeldTokensMinted, EndedIsRecorded, NoAnswer, InsertInLive, InsertRow, Finish
<1>1. MintedHasSession'
  BY DEF MintedHasSession
<1>2. HeldTokensMinted'
  BY DEF HeldTokensMinted
<1>3. ReplacementsReady'
  BY SMTT(60) DEF ReplacementsReady, Replacement
<1>4. EndedIsRecorded'
  BY DEF EndedIsRecorded
<1>5. CheckedStillLive'
  BY DEF CheckedStillLive
<1>6. OnlyRevocationEnds'
  BY DEF OnlyRevocationEnds, Started, Unrevoked
<1>7. EndedStaysEnded'
  BY DEF EndedStaysEnded, CheckedStillLive, Unrevoked
<1>8. IssuedTokenWorks'
  BY DEF IssuedTokenWorks
<1>9. RevokedMeansOver'
  BY DEF RevokedMeansOver, LiveSession
<1> QED BY <1>1, <1>2, <1>3, <1>4, <1>5, <1>6, <1>7, <1>8, <1>9

\* Superseding the presented token leaves the replacement, so the session
\* keeps an unrevoked row.
LEMMA MarkStep ==
    ASSUME IInv, TypeOK', NEW p \in Procs, MarkRotated(p)
    PROVE  IInv'
<1> USE SessionsAssumption DEF IInv, Safety, TypeOK, MintedHasSession,
        HeldTokensMinted, EndedIsRecorded, NoAnswer, MarkRotated, Finish
<1>0. /\ tok[p] \in Tokens /\ rowState[tok[p]] # "unminted" /\ tok[p] \in issued
      /\ Replacement(p) /\ new[p] # tok[p]
      /\ rotatedAt'[tok[p]] # NoTime
      /\ \A t \in Tokens \ {tok[p]} : /\ rowState'[t] = rowState[t]
                                      /\ rotatedAt'[t] = rotatedAt[t]
      /\ rowState'[tok[p]] = "revoked"
  BY DEF ReplacementsReady, Replacement, NoTime
<1>1. MintedHasSession'
  BY <1>0 DEF MintedHasSession
<1>2. HeldTokensMinted'
  BY <1>0 DEF HeldTokensMinted, Replacement
<1>3. ReplacementsReady'
  BY <1>0 DEF ReplacementsReady, Replacement
<1>4. EndedIsRecorded'
  BY <1>0 DEF EndedIsRecorded
<1>5. CheckedStillLive'
  BY <1>0 DEF CheckedStillLive
<1>6. OnlyRevocationEnds'
  BY <1>0 DEF OnlyRevocationEnds, Replacement, Started, Unrevoked
<1>7. EndedStaysEnded'
  BY <1>0 DEF EndedStaysEnded, Unrevoked
<1>8. IssuedTokenWorks'
  BY <1>0 DEF IssuedTokenWorks, Replacement
<1>9. RevokedMeansOver'
  BY <1>0 DEF RevokedMeansOver, LiveSession
<1> QED BY <1>1, <1>2, <1>3, <1>4, <1>5, <1>6, <1>7, <1>8, <1>9

\* DeleteForUser ends every session, and records the ones it raced.
LEMMA PurgeStep ==
    ASSUME IInv, TypeOK', NEW p \in Procs, DeleteForUser(p)
    PROVE  IInv'
<1> USE SessionsAssumption DEF IInv, Safety, TypeOK, MintedHasSession,
        HeldTokensMinted, EndedIsRecorded, NoAnswer, DeleteForUser, Finish, Started
<1>1. MintedHasSession'
  BY DEF MintedHasSession
<1>2. HeldTokensMinted'
  BY DEF HeldTokensMinted
<1>3. ReplacementsReady'
  BY DEF ReplacementsReady, Replacement
<1>4. EndedIsRecorded'
  BY DEF EndedIsRecorded
<1>5. CheckedStillLive'
  BY DEF CheckedStillLive
<1>6. OnlyRevocationEnds'
  BY DEF OnlyRevocationEnds, Started, Unrevoked
<1>7. EndedStaysEnded'
  BY DEF EndedStaysEnded, Unrevoked
<1>8. IssuedTokenWorks'
  BY DEF IssuedTokenWorks
<1>9. RevokedMeansOver'
  BY DEF RevokedMeansOver, LiveSession
<1> QED BY <1>1, <1>2, <1>3, <1>4, <1>5, <1>6, <1>7, <1>8, <1>9

-----------------------------------------------------------------------------
(* The inductive invariant.                                                *)

\* A session some statement ended has no live row, the raced ones excepted.
LEMMA EndedNotLive ==
    ASSUME IInv, NEW s \in ended, s \notin raced
    PROVE  ~LiveSession(s)
BY DEF IInv, Safety, EndedStaysEnded, LiveSession, Unrevoked

\* An empty database satisfies the invariant.
LEMMA InitInv == Init => IInv
<1> SUFFICES ASSUME Init PROVE IInv
  OBVIOUS
<1> USE SessionsAssumption DEF Init, NoAnswer
<1>1. TypeOK
  BY DEF TypeOK, RowStates, Labels, Verdicts, NoTime
<1>2. MintedHasSession /\ HeldTokensMinted /\ EndedIsRecorded /\ CheckedStillLive
  BY DEF MintedHasSession, HeldTokensMinted, EndedIsRecorded, CheckedStillLive
<1>3. ReplacementsReady
  BY DEF ReplacementsReady
<1>4. Safety
  BY DEF Safety, OnlyRevocationEnds, EndedStaysEnded, IssuedTokenWorks,
         RevokedMeansOver, Started
<1> QED BY <1>1, <1>2, <1>3, <1>4 DEF IInv

\* Every step of every request preserves the invariant.
LEMMA NextInv == IInv /\ [Next]_vars => IInv'
<1> SUFFICES ASSUME IInv, [Next]_vars PROVE IInv'
  OBVIOUS
<1>1. TypeOK'
  BY TypeStep DEF IInv
<1>2. Started \subseteq SessionIds
  BY StartedType DEF IInv
<1>3. ASSUME NEW p \in Procs,
             LoginChecked(p) \/ EvictFails(p) \/ CheckLive(p) \/ DisableUser(p)
               \/ ResetUser2fa(p) \/ Fail(p)
      PROVE  IInv'
  <2> USE <1>3 DEF LoginChecked, EvictFails, CheckLive, DisableUser,
          ResetUser2fa, Fail, GoTo, Finish, NoAnswer
  <2>1. RequestsKept
    BY DEF IInv, TypeOK, HeldTokensMinted, RequestsKept
  <2>2. RevokedMeansOver'
    BY DEF RevokedMeansOver
  <2> QED BY <1>1, <2>1, <2>2, QuietStep
<1>4. ASSUME NEW p \in Procs, NEW t \in Tokens, NEW res \in Verdicts,
             RefreshRefused(p, t, res)
      PROVE  IInv'
  <2> USE <1>4 DEF RefreshRefused, request, rows
  <2>1. RequestsKept
    BY DEF IInv, HeldTokensMinted, RequestsKept
  <2>2. RevokedMeansOver'
    BY EndedNotLive DEF IInv, EndedIsRecorded, RevokedMeansOver, LiveSession
  <2> QED BY <1>1, <2>1, <2>2, QuietStep
<1>5. ASSUME NEW p \in Procs, NEW t \in Tokens,
             RefreshLive(p, t) \/ RefreshGrace(p, t) \/ RefreshReplay(p, t)
      PROVE  IInv'
  <2> USE <1>5 DEF RefreshLive, RefreshGrace, RefreshReplay, RefreshBegin, NoAnswer
  <2>1. RequestsKept
    BY DEF IInv, TypeOK, HeldTokensMinted, RequestsKept
  <2>2. RevokedMeansOver'
    BY DEF RevokedMeansOver
  <2> QED BY <1>1, <2>1, <2>2, QuietStep
<1>6. ASSUME NEW p \in Procs, CheckEnded(p) PROVE IInv'
  <2> USE <1>6 DEF CheckEnded, Finish, rows
  <2>1. RequestsKept
    BY DEF IInv, TypeOK, HeldTokensMinted, RequestsKept
  <2>2. RevokedMeansOver'
    BY DEF RevokedMeansOver, LiveSession
  <2> QED BY <1>1, <2>1, <2>2, QuietStep
<1>7. CASE EnableUser \/ Tick
  <2> USE <1>7 DEF EnableUser, Tick, request, NoAnswer
  <2>1. RequestsKept
    BY DEF IInv, HeldTokensMinted, RequestsKept
  <2>2. RevokedMeansOver'
    BY DEF RevokedMeansOver
  <2> QED BY <1>1, <2>1, <2>2, QuietStep
<1>8. CASE UNCHANGED vars
  <2> USE <1>8 DEF vars, rows, request
  <2>1. RequestsKept
    BY DEF IInv, HeldTokensMinted, RequestsKept
  <2>2. RevokedMeansOver'
    BY DEF IInv, Safety, RevokedMeansOver, LiveSession
  <2> QED BY <1>1, <2>1, <2>2, QuietStep
<1>9. ASSUME NEW S \in SUBSET Started, RevokeRows(S), answer' = NoAnswer,
             UNCHANGED <<request, issued, raced>>
      PROVE  IInv'
  <2>1. RequestsKept /\ \A p \in Procs : pc'[p] # "insert"
    BY <1>9 DEF IInv, HeldTokensMinted, RequestsKept, request, RevokeRows, ShareHeld
  <2>2. RevokedMeansOver'
    BY <1>9 DEF RevokedMeansOver, NoAnswer
  <2> QED BY <1>1, <1>9, <2>1, <2>2, RevokeStep
<1>10. ASSUME NEW s \in SessionIds, RevokeSession(s) PROVE IInv'
  <2>1. {s} \subseteq Started
    BY <1>10 DEF RevokeSession, Unrevoked, Started
  <2> QED BY <1>9, <1>10, <2>1 DEF RevokeSession
<1>11. ASSUME NEW t \in Tokens, Logout(t) PROVE IInv'
  BY <1>10, <1>11 DEF Logout, IInv, TypeOK, HeldTokensMinted, MintedHasSession
<1>12. ASSUME NEW keep \in SessionIds, RevokeSessionsExcept(keep) PROVE IInv'
  BY <1>9, <1>12 DEF RevokeSessionsExcept
<1>13. CASE RevokeAllForUser
  BY <1>9, <1>13 DEF RevokeAllForUser
<1>14. ASSUME NEW p \in Procs, EvictOldestSessions(p) PROVE IInv'
  <2>1. PICK K \in MostRecent(MaxPerUser - 1) : RevokeRows(LiveSessions \ K)
    BY <1>14 DEF EvictOldestSessions
  <2>2. LiveSessions \ K \subseteq Started
    BY DEF LiveSessions, LiveSession, Started
  <2>3. RequestsKept /\ \A q \in Procs : pc'[q] # "insert"
    BY <1>14, <2>1 DEF EvictOldestSessions, GoTo, IInv, TypeOK, HeldTokensMinted,
       RequestsKept, RevokeRows, ShareHeld
  <2>4. RevokedMeansOver' /\ UNCHANGED <<issued, raced>>
    BY <1>14 DEF EvictOldestSessions, RevokedMeansOver, NoAnswer
  <2> QED BY <1>1, <2>1, <2>2, <2>3, <2>4, RevokeStep
<1>15. ASSUME NEW p \in Procs, ReplayRevoke(p) PROVE IInv'
  <2>1. {rowSession[tok[p]]} \subseteq Started
    BY <1>15 DEF ReplayRevoke, IInv, TypeOK, HeldTokensMinted, Started
  <2>2. RequestsKept
    BY <1>15 DEF ReplayRevoke, Finish, IInv, TypeOK, HeldTokensMinted, RequestsKept
  <2>3. RevokedMeansOver' /\ UNCHANGED <<issued, raced>>
    BY <1>15 DEF ReplayRevoke, RevokedMeansOver
  <2>4. CASE RevokeRows({rowSession[tok[p]]})
    <3>1. \A q \in Procs : pc'[q] # "insert"
      BY <1>15, <2>4 DEF ReplayRevoke, Finish, IInv, TypeOK, RevokeRows, ShareHeld
    <3> QED BY <1>1, <2>1, <2>2, <2>3, <2>4, <3>1, RevokeStep
  <2>5. CASE UNCHANGED <<rows, ended>>
    BY <1>1, <2>2, <2>3, <2>5, QuietStep
  <2> QED BY <1>15, <2>4, <2>5 DEF ReplayRevoke
<1> QED
  BY <1>1, <1>3, <1>4, <1>5, <1>6, <1>7, <1>8, <1>10, <1>11, <1>12, <1>13, <1>14,
     <1>15, CreateStep, InsertStep, MarkStep, PurgeStep DEF Next

-----------------------------------------------------------------------------
(* The theorems.                                                           *)

\* The inductive invariant holds in every reachable state.
THEOREM Invariance == Spec => []IInv
BY InitInv, NextInv, PTL DEF Spec

\* The database, the requests and the answers are always well typed.
THEOREM TypeCorrect == Spec => []TypeOK
<1>1. IInv => TypeOK
  BY DEF IInv
<1> QED BY <1>1, Invariance, PTL

\* RefreshToken inserts the replacement before it supersedes: whatever requests
\* interleave or die, only a revoking statement ends a session.
THEOREM RotationNeverEnds == Spec => []OnlyRevocationEnds
<1>1. IInv => OnlyRevocationEnds
  BY DEF IInv, Safety
<1> QED BY <1>1, Invariance, PTL

\* CreateInLiveSession and withUserLock: an ended session is never renewed,
\* unless DeleteForUser deleted its rows inside another request's transaction.
THEOREM RevocationIsFinal == Spec => []EndedStaysEnded
<1>1. IInv => EndedStaysEnded
  BY DEF IInv, Safety
<1> QED BY <1>1, Invariance, PTL

\* Concurrent rotations of one token leave every client a working token.
THEOREM IssuedTokensWork == Spec => []IssuedTokenWorks
<1>1. IInv => IssuedTokenWorks
  BY DEF IInv, Safety
<1> QED BY <1>1, Invariance, PTL

\* RefreshToken answers ErrTokenRevoked only for a session that is over.
THEOREM RevokedIsHonest == Spec => []RevokedMeansOver
<1>1. IInv => RevokedMeansOver
  BY DEF IInv, Safety
<1> QED BY <1>1, Invariance, PTL
=============================================================================
