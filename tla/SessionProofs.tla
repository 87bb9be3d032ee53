--------------------------- MODULE SessionProofs ---------------------------
(***************************************************************************)
(* Proofs about AuthSessions, for any number of users, of concurrent       *)
(* requests and of sessions, and for clients that present any token; and   *)
(* about BrowserSession on top of it, for any number of tabs unless a      *)
(* theorem says otherwise.                                                 *)
(***************************************************************************)
EXTENDS BrowserSession, TLAPS

(* What a request knows when it commits: the row it is about to write is   *)
(* there, and so is the user it writes for.                                *)
CallsKnow ==
    \A s \in Slots : call[s] # None =>
       /\ call[s].token \in 0..Len(session)
       /\ call[s].op \in {"login", "signup", "reset"} => call[s].user \in Users
       /\ call[s].step \in {"rotating", "replayed", "revoking"} => call[s].token # 0
       /\ call[s].step \in {"issuing", "registering", "resetting"} =>
             call[s].user \in Users

(* replaced_by_session_id names a session issued in exchange for its row.  *)
LinksDescend ==
    \A t \in DOMAIN session : session[t].replacedBy # 0 =>
       /\ session[t].replacedBy \in DOMAIN session
       /\ session[session[t].replacedBy].parent = t

AuthInv == AuthTypeOK /\ CallsKnow /\ LinksDescend

LEMMA InitAuthInv == AuthInit => AuthInv
<1> SUFFICES ASSUME AuthInit PROVE AuthInv
  OBVIOUS
<1>1. session \in Seq(Rows) /\ Len(session) <= MaxSessions /\ LinksDescend
  <2>1. CASE session = <<>>
    BY <2>1, AuthAssumption DEF LinksDescend
  <2>2. CASE session # <<>>
    <3>1. PICK u \in account : session = <<FreshRow(u, 0)>>
      BY <2>2 DEF AuthInit
    <3>2. u \in Users
      BY DEF AuthInit
    <3>3. FreshRow(u, 0) \in Rows
      BY <3>2, AuthAssumption DEF FreshRow, Rows
    <3>4. Len(session) = 1 /\ session \in Seq(Rows) /\ session[1] = FreshRow(u, 0)
      BY <3>1, <3>3
    <3> QED BY <3>4, AuthAssumption DEF LinksDescend, FreshRow
  <2> QED BY <2>1, <2>2
<1>2. AuthTypeOK
  BY <1>1 DEF AuthInit, AuthTypeOK
<1>3. CallsKnow
  BY DEF AuthInit, CallsKnow
<1> QED BY <1>1, <1>2, <1>3 DEF AuthInv

(* A call that moves to a later step, when the rows stay or grow.          *)
LEMMA AnswerKeepsCalls ==
  ASSUME AuthInv, NEW s \in Slots, call[s] # None, NEW step \in Steps,
         Answer(s, step), Len(session') = Len(session),
         step \in {"rotating", "replayed", "revoking"} => call[s].token # 0,
         step \in {"issuing", "registering", "resetting"} => call[s].user \in Users
  PROVE  call' \in [Slots -> Calls \cup {None}] /\ CallsKnow'
<1>1. call[s] \in Calls
  BY DEF AuthInv, AuthTypeOK
<1>2. [call[s] EXCEPT !.step = step] \in Calls
  BY <1>1 DEF Calls
<1>3. call' = [call EXCEPT ![s] = [call[s] EXCEPT !.step = step]]
  BY DEF Answer, AuthInv, AuthTypeOK
<1>4. call' \in [Slots -> Calls \cup {None}]
  BY <1>2, <1>3 DEF AuthInv, AuthTypeOK
<1>5. CallsKnow'
  <2> SUFFICES ASSUME NEW r \in Slots, call'[r] # None
               PROVE  /\ call'[r].token \in 0..Len(session)
                      /\ call'[r].op \in {"login", "signup", "reset"} => call'[r].user \in Users
                      /\ call'[r].step \in {"rotating", "replayed", "revoking"} => call'[r].token # 0
                      /\ call'[r].step \in {"issuing", "registering", "resetting"} =>
                            call'[r].user \in Users
    BY DEF CallsKnow
  <2>1. CASE r = s
    <3>1. call'[r] = [call[s] EXCEPT !.step = step]
      BY <2>1, <1>3 DEF AuthInv, AuthTypeOK
    <3>2. call'[r].token = call[s].token /\ call'[r].user = call[s].user
          /\ call'[r].op = call[s].op /\ call'[r].step = step
      BY <3>1, <1>1 DEF Calls
    <3> QED BY <3>2 DEF AuthInv, CallsKnow
  <2>2. CASE r # s
    BY <2>2, <1>3 DEF AuthInv, AuthTypeOK, CallsKnow
  <2> QED BY <2>1, <2>2
<1> QED BY <1>4, <1>5

(* A call that is answered with a session the commit has just added.       *)
LEMMA IssuedKeepsCalls ==
  ASSUME AuthInv, NEW s \in Slots, call[s] # None,
         AnswerIssued(s), Len(session) < MaxSessions,
         Len(session') = Len(session) + 1
  PROVE  call' \in [Slots -> Calls \cup {None}] /\ CallsKnow'
<1> DEFINE c == [call[s] EXCEPT !.step = "issued", !.token = Len(session) + 1]
<1>0. Len(session) \in Nat
  BY DEF AuthInv, AuthTypeOK
<1>1. call[s] \in Calls
  BY DEF AuthInv, AuthTypeOK
<1>a. Len(session) + 1 \in 0..MaxSessions
  BY <1>0, AuthAssumption
<1>2. c \in Calls
  <2>1. ASSUME NEW k \in 0..MaxSessions
        PROVE  [call[s] EXCEPT !.step = "issued", !.token = k] \in Calls
    BY <1>1 DEF Calls, Steps
  <2> QED BY <1>a, <2>1
<1>3. call' = [call EXCEPT ![s] = c]
  BY DEF AnswerIssued, AuthInv, AuthTypeOK
<1>4. call' \in [Slots -> Calls \cup {None}]
  BY <1>2, <1>3 DEF AuthInv, AuthTypeOK
<1>5. CallsKnow'
  <2> SUFFICES ASSUME NEW r \in Slots, call'[r] # None
               PROVE  /\ call'[r].token \in 0..(Len(session) + 1)
                      /\ call'[r].op \in {"login", "signup", "reset"} => call'[r].user \in Users
                      /\ call'[r].step \in {"rotating", "replayed", "revoking"} => call'[r].token # 0
                      /\ call'[r].step \in {"issuing", "registering", "resetting"} =>
                            call'[r].user \in Users
    BY DEF CallsKnow
  <2>1. CASE r = s
    <3>1. call'[r] = c
      BY <2>1, <1>3 DEF AuthInv, AuthTypeOK
    <3>2. call'[r].token = Len(session) + 1 /\ call'[r].user = call[s].user
          /\ call'[r].op = call[s].op /\ call'[r].step = "issued"
      BY <3>1, <1>1 DEF Calls
    <3> QED BY <3>2, <1>0 DEF AuthInv, CallsKnow
  <2>2. CASE r # s
    <3>1. call'[r] = call[r]
      BY <2>2, <1>3 DEF AuthInv, AuthTypeOK
    <3>2. call[r].token \in 0..(Len(session) + 1)
      BY <3>1, <1>0 DEF AuthInv, CallsKnow
    <3> QED BY <3>1, <3>2 DEF AuthInv, CallsKnow
  <2> QED BY <2>1, <2>2
<1> QED BY <1>4, <1>5

(* Revoking rows changes no link.                                          *)
LEMMA RevokeKeepsRows ==
  ASSUME AuthInv, NEW S, Revoke(S)
  PROVE  /\ session' \in Seq(Rows) /\ Len(session') = Len(session)
         /\ LinksDescend'
<1>0. session \in Seq(Rows) /\ Len(session) \in Nat /\ DOMAIN session = 1..Len(session)
  BY DEF AuthInv, AuthTypeOK
<1>1. \A t \in DOMAIN session :
         session'[t] = IF t \in S THEN [session[t] EXCEPT !.revoked = TRUE] ELSE session[t]
  BY DEF Revoke
<1>2. \A t \in DOMAIN session : /\ session'[t] \in Rows
                                /\ session'[t].replacedBy = session[t].replacedBy
                                /\ session'[t].parent = session[t].parent
  <2> TAKE t \in DOMAIN session
  <2>1. session[t] \in Rows
    BY <1>0
  <2> QED BY <2>1, <1>1 DEF Rows
<1>3. session' \in [1..Len(session) -> Rows]
  BY <1>0, <1>1, <1>2 DEF Revoke
<1>4. session' \in Seq(Rows) /\ Len(session') = Len(session)
  BY <1>0, <1>3
<1>5. DOMAIN session' = DOMAIN session
  BY DEF Revoke
<1>6. LinksDescend'
  BY <1>2, <1>5 DEF LinksDescend, AuthInv
<1> QED BY <1>4, <1>6

(* A session added by a sign-in links to nothing.                          *)
LEMMA AppendKeepsRows ==
  ASSUME AuthInv, NEW u \in Users, session' = Append(session, FreshRow(u, 0))
  PROVE  /\ session' \in Seq(Rows) /\ Len(session') = Len(session) + 1
         /\ LinksDescend'
<1> DEFINE row == FreshRow(u, 0)
<1>0. session \in Seq(Rows) /\ Len(session) \in Nat /\ DOMAIN session = 1..Len(session)
  BY DEF AuthInv, AuthTypeOK
<1>1. row \in Rows /\ row.replacedBy = 0
  BY AuthAssumption DEF FreshRow, Rows
<1> HIDE DEF row
<1>2. /\ session' \in Seq(Rows) /\ Len(session') = Len(session) + 1
      /\ DOMAIN session' = 1..(Len(session) + 1)
      /\ session'[Len(session) + 1] = row
      /\ \A t \in DOMAIN session : session'[t] = session[t]
  BY <1>0, <1>1 DEF row
<1>3. LinksDescend'
  BY <1>0, <1>1, <1>2 DEF LinksDescend, AuthInv
<1> QED BY <1>2, <1>3

(* A rotation links the row it was given to the row it adds, and only it.  *)
LEMMA RotateKeepsRows ==
  ASSUME AuthInv, NEW t \in DOMAIN session, Len(session) < MaxSessions,
         session' = Rotated(t)
  PROVE  /\ session' \in Seq(Rows) /\ Len(session') = Len(session) + 1
         /\ LinksDescend'
<1> DEFINE n    == Len(session) + 1
           row  == FreshRow(session[t].user, t)
           old  == [session[t] EXCEPT !.revoked = TRUE, !.replacedBy = n]
           rows == [session EXCEPT ![t] = old]
<1>0. session \in Seq(Rows) /\ Len(session) \in Nat /\ DOMAIN session = 1..Len(session)
  BY DEF AuthInv, AuthTypeOK
<1>1. session[t] \in Rows /\ n \in 1..MaxSessions /\ t \in 0..MaxSessions
  BY <1>0, AuthAssumption DEF AuthInv, AuthTypeOK
<1>2. row \in Rows /\ row.replacedBy = 0 /\ row.parent = t
  <2>1. session[t].user \in Users /\ 0 \in 0..MaxSessions
    BY <1>1, AuthAssumption DEF Rows
  <2> QED BY <1>1, <2>1 DEF FreshRow, Rows
<1>3. old \in Rows /\ old.replacedBy = n /\ old.parent = session[t].parent
  <2>1. ASSUME NEW k \in 0..MaxSessions
        PROVE  LET o == [session[t] EXCEPT !.revoked = TRUE, !.replacedBy = k]
               IN  o \in Rows /\ o.replacedBy = k /\ o.parent = session[t].parent
    BY <1>1 DEF Rows
  <2>2. n \in 0..MaxSessions
    BY <1>0, <1>1
  <2> QED BY <2>1, <2>2
<1>4. session' = Append(rows, row)
  BY DEF Rotated
<1> HIDE DEF row, old
<1>5. /\ rows \in Seq(Rows) /\ Len(rows) = Len(session)
      /\ rows[t] = old /\ \A x \in DOMAIN session : x # t => rows[x] = session[x]
  BY <1>0, <1>3
<1> HIDE DEF rows
<1>6. /\ session' \in Seq(Rows) /\ Len(session') = n
      /\ DOMAIN session' = 1..n
      /\ session'[n] = row
      /\ \A x \in DOMAIN session : session'[x] = rows[x]
  BY <1>0, <1>2, <1>4, <1>5
<1>7. \A x \in DOMAIN session : session'[x].parent = session[x].parent
  BY <1>3, <1>5, <1>6
<1>8. LinksDescend'
  <2> SUFFICES ASSUME NEW x \in 1..n, session'[x].replacedBy # 0
               PROVE  /\ session'[x].replacedBy \in 1..n
                      /\ session'[session'[x].replacedBy].parent = x
    BY <1>6 DEF LinksDescend
  <2>1. CASE x = n
    BY <2>1, <1>2, <1>6
  <2>2. CASE x = t
    BY <2>2, <1>0, <1>2, <1>3, <1>5, <1>6
  <2>3. CASE x # n /\ x # t
    <3>1. x \in DOMAIN session /\ session'[x] = session[x]
      BY <2>3, <1>0, <1>5, <1>6
    <3>2. session[x].replacedBy \in DOMAIN session
          /\ session[session[x].replacedBy].parent = x
      BY <3>1 DEF AuthInv, LinksDescend
    <3> QED BY <3>1, <3>2, <1>0, <1>7
  <2> QED BY <2>1, <2>2, <2>3
<1> QED BY <1>6, <1>8

LEMMA NextAuthInv == AuthInv /\ [AuthNext]_authVars => AuthInv'
<1> SUFFICES ASSUME AuthInv, [AuthNext]_authVars PROVE AuthInv'
  OBVIOUS
<1>0. /\ session \in Seq(Rows) /\ Len(session) \in Nat /\ Len(session) <= MaxSessions
      /\ DOMAIN session = 1..Len(session)
      /\ account \subseteq Users
      /\ resetLink \in [Users -> {"none", "mailed", "consumed"}]
      /\ call \in [Slots -> Calls \cup {None}]
      /\ CallsKnow /\ LinksDescend
  BY DEF AuthInv, AuthTypeOK
<1>1. ASSUME UNCHANGED session, UNCHANGED account, UNCHANGED resetLink,
             call' \in [Slots -> Calls \cup {None}], CallsKnow'
      PROVE  AuthInv'
  <2>1. LinksDescend'
    BY <1>0, <1>1 DEF LinksDescend
  <2> QED BY <1>0, <1>1, <2>1 DEF AuthInv, AuthTypeOK
<1>2. ASSUME NEW s \in Slots, NEW op \in Ops, NEW t \in 0..Len(session),
             NEW u \in Users \cup {None}, Send(s, op, t, u),
             op \in {"login", "signup", "reset"} => u \in Users,
             UNCHANGED <<session, account, resetLink>>
      PROVE  AuthInv'
  <2> DEFINE c == [op |-> op, step |-> "sent", token |-> t, user |-> u]
  <2>1. c \in Calls
    BY <1>0, AuthAssumption DEF Calls, Steps
  <2>2. call' = [call EXCEPT ![s] = c]
    BY <1>2 DEF Send
  <2>3. call' \in [Slots -> Calls \cup {None}]
    BY <2>1, <2>2, <1>0
  <2>4. CallsKnow'
    BY <1>0, <1>2, <2>2 DEF CallsKnow
  <2> QED BY <1>1, <1>2, <2>3, <2>4
<1>3. ASSUME NEW s \in Slots, NEW step \in Steps, call[s] # None, Answer(s, step),
             step \in {"rotating", "replayed", "revoking"} => call[s].token # 0,
             step \in {"issuing", "registering", "resetting"} => call[s].user \in Users,
             UNCHANGED <<session, account, resetLink>>
      PROVE  AuthInv'
  BY <1>1, <1>3, AnswerKeepsCalls
<1>4. ASSUME NEW s \in Slots, AnyClient(s) PROVE AuthInv'
  <2>1. PICK op \in Ops \ {"reset"}, t \in 0..Len(session), u \in Users \cup {None} :
             (op \in {"login", "signup"} => u # None) /\ Send(s, op, t, u)
    BY <1>4 DEF AnyClient
  <2> QED BY <1>2, <1>4, <2>1 DEF AnyClient
<1>5. ASSUME NEW s \in Slots, Serve(s) PROVE AuthInv'
  <2>a. call[s] # None => call[s] \in Calls
    BY <1>0
  <2>1. CASE RefreshReads(s)
    <3>1. PICK step \in {"replayed", "rotating", "refused"} :
               /\ step = "replayed" <=> Reused(Token(s))
               /\ step = "rotating" => Usable(Token(s))
               /\ Answer(s, step)
      BY <2>1 DEF RefreshReads
    <3>2. step \in {"rotating", "replayed", "revoking"} => call[s].token # 0
      BY <3>1 DEF Reused, Usable, Token
    <3> QED BY <1>3, <2>1, <3>1, <3>2 DEF RefreshReads, Arrived, At, Steps
  <2>2. CASE Rotate(s)
    <3>1. Token(s) \in DOMAIN session
      BY <2>2, <1>0 DEF Rotate, At, Token, CallsKnow
    <3>2. session' \in Seq(Rows) /\ Len(session') = Len(session) + 1 /\ LinksDescend'
      BY <2>2, <3>1, RotateKeepsRows DEF Rotate
    <3>3. call' \in [Slots -> Calls \cup {None}] /\ CallsKnow'
      BY <2>2, <3>2, IssuedKeepsCalls DEF Rotate, At
    <3> QED BY <2>2, <3>2, <3>3, <1>0, AuthAssumption DEF Rotate, AuthInv, AuthTypeOK
  <2>3. CASE RevokeSessionLineage(s)
    <3>1. session' \in Seq(Rows) /\ Len(session') = Len(session) /\ LinksDescend'
      BY <2>3, RevokeKeepsRows DEF RevokeSessionLineage
    <3>2. call' \in [Slots -> Calls \cup {None}] /\ CallsKnow'
      BY <2>3, <3>1, AnswerKeepsCalls DEF RevokeSessionLineage, At, Steps
    <3> QED BY <2>3, <3>1, <3>2, <1>0 DEF RevokeSessionLineage, AuthInv, AuthTypeOK
  <2>4. CASE LoginReads(s)
    <3>1. PICK step \in {"issuing", "refused"} :
               (step = "issuing" => call[s].user \in account) /\ Answer(s, step)
      BY <2>4 DEF LoginReads
    <3> QED BY <1>0, <1>3, <2>4, <3>1 DEF LoginReads, Arrived, At, Steps
  <2>5. CASE Login(s)
    <3>1. call[s].user \in Users
      BY <2>5, <1>0 DEF Login, At, CallsKnow
    <3>2. session' \in Seq(Rows) /\ Len(session') = Len(session) + 1 /\ LinksDescend'
      BY <2>5, <3>1, AppendKeepsRows DEF Login
    <3>3. call' \in [Slots -> Calls \cup {None}] /\ CallsKnow'
      BY <2>5, <3>2, IssuedKeepsCalls DEF Login, At
    <3> QED BY <2>5, <3>2, <3>3, <1>0, AuthAssumption DEF Login, AuthInv, AuthTypeOK
  <2>6. CASE SignupReads(s)
    <3>1. PICK step \in {"refused", "registering"} : Answer(s, step)
      BY <2>6 DEF SignupReads
    <3>2. call[s].user \in Users
      BY <2>6, <1>0 DEF SignupReads, Arrived, At, CallsKnow
    <3> QED BY <1>3, <2>6, <3>1, <3>2 DEF SignupReads, Arrived, At, Steps
  <2>7. CASE Register(s)
    <3>0. call[s] # None /\ call[s].user \in Users
      BY <2>7, <1>0 DEF Register, At, CallsKnow
    <3>1. CASE call[s].user \in account
      <4>1. Answer(s, "refused") /\ UNCHANGED <<session, account, resetLink>>
        BY <2>7, <3>1 DEF Register
      <4> QED BY <1>3, <3>0, <4>1 DEF Steps
    <3>2. CASE call[s].user \notin account
      <4>1. /\ Len(session) < MaxSessions /\ AnswerIssued(s)
            /\ account' = account \cup {call[s].user}
            /\ session' = Append(session, FreshRow(call[s].user, 0))
            /\ UNCHANGED resetLink
        BY <2>7, <3>2 DEF Register
      <4>2. session' \in Seq(Rows) /\ Len(session') = Len(session) + 1 /\ LinksDescend'
        BY <3>0, <4>1, AppendKeepsRows
      <4>3. call' \in [Slots -> Calls \cup {None}] /\ CallsKnow'
        BY <3>0, <4>1, <4>2, IssuedKeepsCalls
      <4> QED BY <3>0, <4>1, <4>2, <4>3, <1>0, AuthAssumption DEF AuthInv, AuthTypeOK
    <3> QED BY <3>1, <3>2
  <2>8. CASE LogoutReads(s)
    <3>1. PICK step \in {"revoking", "done"} :
               (step = "revoking" => call[s].token # 0) /\ Answer(s, step)
      BY <2>8 DEF LogoutReads, Token
    <3> QED BY <1>3, <2>8, <3>1 DEF LogoutReads, Arrived, At, Steps
  <2>9. CASE Logout(s)
    <3>1. session' \in Seq(Rows) /\ Len(session') = Len(session) /\ LinksDescend'
      BY <2>9, RevokeKeepsRows DEF Logout
    <3>2. call' \in [Slots -> Calls \cup {None}] /\ CallsKnow'
      BY <2>9, <3>1, AnswerKeepsCalls DEF Logout, At, Steps
    <3> QED BY <2>9, <3>1, <3>2, <1>0 DEF Logout, AuthInv, AuthTypeOK
  <2>10. CASE ResetReads(s)
    <3>1. PICK step \in {"resetting", "refused"} : Answer(s, step)
      BY <2>10 DEF ResetReads
    <3>2. call[s].user \in Users
      BY <2>10, <1>0 DEF ResetReads, Arrived, At, CallsKnow
    <3> QED BY <1>3, <2>10, <3>1, <3>2 DEF ResetReads, Arrived, At, Steps
  <2>11. CASE ResetPassword(s)
    <3>1. session' \in Seq(Rows) /\ Len(session') = Len(session) /\ LinksDescend'
      BY <2>11, RevokeKeepsRows DEF ResetPassword
    <3>2. call' \in [Slots -> Calls \cup {None}] /\ CallsKnow'
      BY <2>11, <3>1, AnswerKeepsCalls DEF ResetPassword, At, Steps
    <3> QED BY <2>11, <3>1, <3>2, <1>0 DEF ResetPassword, AuthInv, AuthTypeOK
  <2> QED BY <1>5, <2>1, <2>2, <2>3, <2>4, <2>5, <2>6, <2>7, <2>8, <2>9, <2>10, <2>11
          DEF Serve
<1>6. ASSUME NEW s \in Slots, RequestFails(s) PROVE AuthInv'
  BY <1>3, <1>6 DEF RequestFails, Steps
<1>7. ASSUME NEW s \in Slots, Finish(s) PROVE AuthInv'
  <2>1. call' = [call EXCEPT ![s] = None]
    BY <1>7 DEF Finish
  <2>2. call' \in [Slots -> Calls \cup {None}]
    BY <2>1, <1>0
  <2>3. CallsKnow'
    BY <1>0, <1>7, <2>1 DEF CallsKnow, Finish
  <2> QED BY <1>1, <1>7, <2>2, <2>3 DEF Finish
<1>8. ASSUME NEW s \in Slots, NEW u \in Users, ConfirmReset(s, u) PROVE AuthInv'
  BY <1>0, <1>2, <1>8 DEF ConfirmReset, Ops
<1>9. ASSUME NEW u \in Users, RequestPasswordReset(u) PROVE AuthInv'
  <2>1. CallsKnow' /\ LinksDescend'
    BY <1>0, <1>9 DEF CallsKnow, LinksDescend, RequestPasswordReset
  <2> QED BY <1>0, <1>9, <2>1 DEF RequestPasswordReset, AuthInv, AuthTypeOK
<1>10. CASE UNCHANGED authVars
  <2>1. CallsKnow'
    BY <1>0, <1>10 DEF CallsKnow, authVars
  <2> QED BY <1>0, <1>1, <1>10, <2>1 DEF authVars
<1> QED BY <1>4, <1>5, <1>6, <1>7, <1>8, <1>9, <1>10 DEF AuthNext

(* Every link of the walk is a link of the exchange, so a set closed under *)
(* the exchange is closed under the walk.                                  *)
LEMMA LinksBoundTheWalk == LinksDescend => WalkStaysInLineage
<1> SUFFICES ASSUME LinksDescend, NEW t \in DOMAIN session, NEW u \in Lineage(t),
                    NEW S \in SUBSET DOMAIN session, t \in S,
                    \A e \in ExchangedFor : e[1] \in S => e[2] \in S
             PROVE  u \in S
  BY DEF WalkStaysInLineage, Lineage, Descendants, Reached
<1>1. \A e \in ReplacedBy : e \in ExchangedFor
  <2> TAKE e \in ReplacedBy
  <2>1. PICK a \in DOMAIN session : session[a].replacedBy # 0 /\ e = <<a, session[a].replacedBy>>
    BY DEF ReplacedBy
  <2>2. session[a].replacedBy \in DOMAIN session
        /\ session[session[a].replacedBy].parent = a
    BY <2>1 DEF LinksDescend
  <2> QED BY <2>1, <2>2 DEF ExchangedFor
<1>2. \A e \in ReplacedBy : e[1] \in S => e[2] \in S
  BY <1>1
<1> QED BY <1>2 DEF Lineage, Reached

(* The state of AuthService is well typed under any interleaving of reads  *)
(* and commits.                                                            *)
THEOREM AuthTypeCorrect == AuthSpec => []AuthTypeOK
<1>1. AuthInv => AuthTypeOK
  BY DEF AuthInv
<1> QED BY <1>1, InitAuthInv, NextAuthInv, PTL DEF AuthSpec

(* _revoke_session_lineage never leaves the lineage of the replayed token, *)
(* however requests interleave and whatever tokens clients present.        *)
THEOREM ReplayStaysInLineage == AuthSpec => []WalkStaysInLineage
<1>1. AuthInv => WalkStaysInLineage
  BY LinksBoundTheWalk DEF AuthInv
<1> QED BY <1>1, InitAuthInv, NextAuthInv, PTL DEF AuthSpec

-----------------------------------------------------------------------------
(* The browser.  A tab's auth call in flight is a request of the right     *)
(* kind the API works on, and no other tab waits for it.                   *)
OpsOf(k) == CASE k = "refresh" -> {"refresh"}
              [] k = "in"      -> {"login", "signup"}
              [] k = "out"     -> {"logout"}

FlightsMatch ==
    \A w \in Tabs, k \in Kinds : tab[w].flight[k] # None =>
       /\ call[tab[w].flight[k]] # None
       /\ call[tab[w].flight[k]].op \in OpsOf(k)
       /\ \A v \in Tabs \ {w} : tab[v].flight[k] # tab[w].flight[k]

(* What NobodyWaitsForNothing says of one tab.                             *)
WaitsForSomething(t) ==
    /\ (\E a \in Attempts \cup {"me"} : t.attempt[a] = "waiting")
          => t.flight["refresh"] # None
    /\ t.ui = "loading" => t.boot \/ t.attempt["me"] # "idle"

BrowserInv ==
    /\ BrowserTypeOK /\ CallsKnow /\ LinksDescend
    /\ FlightsMatch
    /\ \A w \in Tabs : WaitsForSomething(tab[w])

LEMMA InitBrowserInv == BrowserInit => BrowserInv
<1> SUFFICES ASSUME BrowserInit PROVE BrowserInv
  OBVIOUS
<1>1. AuthInv
  BY InitAuthInv DEF BrowserInit
<1>2. Loaded \in TabStates
  BY DEF Loaded, TabStates, AttemptSteps
<1>3. cookie \in 0..Len(session)
  BY <1>1 DEF BrowserInit, AuthInv, AuthTypeOK
<1>4. BrowserTypeOK
  BY <1>1, <1>2, <1>3, BrowserAssumption DEF BrowserInit, BrowserTypeOK, AuthInv
<1>5. \A w \in Tabs : tab[w] = Loaded
  BY DEF BrowserInit
<1>6. FlightsMatch
  BY <1>5 DEF FlightsMatch, Loaded
<1>7. \A w \in Tabs : WaitsForSomething(tab[w])
  BY <1>5 DEF WaitsForSomething, Loaded
<1> QED BY <1>1, <1>4, <1>6, <1>7 DEF BrowserInv, AuthInv

(* How the call of a request and the number of rows change when the API    *)
(* takes the request a step further.                                       *)
LEMMA ServeMovesOneCall ==
  ASSUME AuthInv, NEW s \in Slots, Serve(s) \/ RequestFails(s)
  PROVE  /\ call[s] # None /\ call'[s] # None /\ call'[s].op = call[s].op
         /\ \A r \in Slots \ {s} : call'[r] = call[r]
         /\ Len(session') \in {Len(session), Len(session) + 1}
<1>0. /\ session \in Seq(Rows) /\ call \in [Slots -> Calls \cup {None}]
      /\ Len(session) \in Nat /\ Len(session) <= MaxSessions
      /\ DOMAIN session = 1..Len(session) /\ MaxSessions \in Nat
  BY AuthAssumption DEF AuthInv, AuthTypeOK
<1> DEFINE Moved == /\ call[s] # None /\ call'[s] # None /\ call'[s].op = call[s].op
                    /\ \A r \in Slots \ {s} : call'[r] = call[r]
<1>1. ASSUME call[s] # None, NEW step \in Steps, Answer(s, step) PROVE Moved
  <2>1. call[s] \in Calls /\ call'[s] = [call[s] EXCEPT !.step = step]
    BY <1>0, <1>1 DEF Answer
  <2>2. call'[s] \in Calls /\ call'[s].op = call[s].op
    BY <2>1 DEF Calls
  <2> QED BY <1>0, <1>1, <2>2, NoCallAssumption DEF Answer
<1>2. ASSUME call[s] # None, AnswerIssued(s), Len(session) < MaxSessions PROVE Moved
  <2> DEFINE n == Len(session) + 1
  <2>1. n \in 0..MaxSessions
    BY <1>0, <1>2
  <2> HIDE DEF n
  <2>2. call[s] \in Calls /\ call'[s] = [call[s] EXCEPT !.step = "issued", !.token = n]
    BY <1>0, <1>2 DEF AnswerIssued, n
  <2>3. call'[s] \in Calls /\ call'[s].op = call[s].op
    BY <2>1, <2>2 DEF Calls, Steps
  <2> QED BY <1>0, <1>2, <2>3, NoCallAssumption DEF AnswerIssued
<1>3. ASSUME NEW S, Revoke(S) PROVE Len(session') = Len(session)
  BY <1>3, RevokeKeepsRows
<1>4. Moved
  <2> HIDE DEF Moved
  <2>1. CASE Rotate(s) \/ Login(s)
    BY <1>2, <2>1 DEF Rotate, Login, At
  <2>2. CASE Register(s)
    BY <1>1, <1>2, <2>2 DEF Register, At, Steps
  <2>3. CASE RefreshReads(s)
    <3>1. PICK step \in {"replayed", "rotating", "refused"} : Answer(s, step)
      BY <2>3 DEF RefreshReads
    <3> QED BY <1>1, <2>3, <3>1 DEF RefreshReads, Arrived, At, Steps
  <2>4. CASE LoginReads(s) \/ ResetReads(s)
    <3>1. PICK step \in {"issuing", "resetting", "refused"} : Answer(s, step)
      BY <2>4 DEF LoginReads, ResetReads
    <3> QED BY <1>1, <2>4, <3>1 DEF LoginReads, ResetReads, Arrived, At, Steps
  <2>5. CASE SignupReads(s) \/ LogoutReads(s)
    <3>1. PICK step \in {"registering", "revoking", "done", "refused"} : Answer(s, step)
      BY <2>5 DEF SignupReads, LogoutReads
    <3> QED BY <1>1, <2>5, <3>1 DEF SignupReads, LogoutReads, Arrived, At, Steps
  <2>6. CASE RevokeSessionLineage(s) \/ Logout(s) \/ ResetPassword(s) \/ RequestFails(s)
    BY <1>1, <2>6 DEF RevokeSessionLineage, Logout, ResetPassword, RequestFails, At, Steps
  <2> QED BY <2>1, <2>2, <2>3, <2>4, <2>5, <2>6 DEF Serve
<1>5. Len(session') \in {Len(session), Len(session) + 1}
  <2>1. CASE UNCHANGED session
    BY <2>1
  <2>2. CASE Rotate(s)
    <3>1. Token(s) \in DOMAIN session
      BY <2>2, <1>0 DEF Rotate, At, Token, AuthInv, CallsKnow
    <3> QED BY <2>2, <3>1, RotateKeepsRows DEF Rotate
  <2>3. CASE Login(s) \/ Register(s)
    <3>1. call[s].user \in Users
      BY <2>3 DEF Login, Register, At, AuthInv, CallsKnow
    <3> QED BY <2>1, <2>3, <3>1, AppendKeepsRows DEF Login, Register
  <2>4. CASE RevokeSessionLineage(s) \/ Logout(s) \/ ResetPassword(s)
    BY <1>3, <2>4 DEF RevokeSessionLineage, Logout, ResetPassword
  <2> QED BY <2>1, <2>2, <2>3, <2>4
          DEF Serve, RequestFails, RefreshReads, LoginReads, SignupReads, LogoutReads, ResetReads
<1> QED BY <1>4, <1>5

(* Every step of the browser is, for the API, a step of some client.       *)
LEMMA BrowserIsAClient ==
  ASSUME BrowserInv, BrowserNext
  PROVE  [AuthNext]_authVars
<1>0. cookie \in 0..Len(session) /\ 0 \in 0..Len(session)
  BY DEF BrowserInv, BrowserTypeOK, AuthTypeOK
<1>1. ASSUME NEW s \in Slots, NEW op \in Ops \ {"reset"}, NEW t \in 0..Len(session),
             NEW u \in Users \cup {None}, op \in {"login", "signup"} => u # None,
             Send(s, op, t, u), UNCHANGED <<session, account, resetLink>>
      PROVE  AuthNext
  BY <1>1 DEF AuthNext, AnyClient
<1>2. ASSUME NEW w \in Tabs, NEW t, RefreshSession(w, t),
             UNCHANGED <<session, account, resetLink>>
      PROVE  [AuthNext]_authVars
  <2>1. CASE UNCHANGED call
    BY <1>2, <2>1 DEF authVars
  <2>2. ASSUME NEW s \in Slots, Send(s, "refresh", cookie, None) PROVE AuthNext
    BY <1>0, <1>1, <1>2, <2>2 DEF Ops
  <2> QED BY <1>2, <2>1, <2>2 DEF RefreshSession, FreeSlots
<1>3. ASSUME NEW w \in Tabs, TabStep(w) PROVE [AuthNext]_authVars
  <2>1. CASE Load(w)
    BY <1>2, <2>1 DEF Load
  <2>2. ASSUME NEW k \in Kinds, Hears(w, k) PROVE AuthNext
    <3>1. tab[w].flight[k] \in Slots
      <4>1. tab[w] \in TabStates
        BY DEF BrowserInv, BrowserTypeOK
      <4> QED BY <2>2, <4>1 DEF Hears, TabStates
    <3> QED BY <2>2, <3>1 DEF Hears, AuthNext
  <2>3. ASSUME NEW a \in Attempts \cup {"me"}, FirstRejected(w, a) PROVE [AuthNext]_authVars
    BY <1>2, <2>3 DEF FirstRejected
  <2>4. ASSUME NEW a \in Attempts \cup {"me"},
               SecondRejected(w, a) \/ Accepted(w, a) \/ AttemptFails(w, a)
        PROVE  [AuthNext]_authVars
    BY <2>4 DEF SecondRejected, Accepted, AttemptFails, authVars
  <2> QED BY <1>3, <2>1, <2>2, <2>3, <2>4 DEF TabStep
<1>4. ASSUME NEW w \in Tabs, Reader(w) PROVE [AuthNext]_authVars
  <2>1. ASSUME NEW op \in {"login", "signup"}, NEW u \in Users, SignIn(w, op, u)
        PROVE  AuthNext
    <3>1. PICK s \in Slots : Send(s, op, 0, u)
      BY <2>1 DEF SignIn, FreeSlots
    <3> QED BY <1>0, <1>1, <2>1, <3>1, AuthAssumption DEF SignIn, Ops
  <2>2. CASE SignOut(w)
    <3>1. PICK s \in Slots : Send(s, "logout", cookie, None)
      BY <2>2 DEF SignOut, FreeSlots
    <3> QED BY <1>0, <1>1, <2>2, <3>1 DEF SignOut, Ops
  <2>3. CASE Reload(w) \/ (\E a \in Attempts : Attempt(w, a)) \/ \E k \in Kinds : Loses(w, k)
    BY <2>3 DEF Reload, Attempt, Loses, authVars
  <2> QED BY <1>4, <2>1, <2>2, <2>3 DEF Reader
<1>5. ASSUME NEW s \in Slots, ServeStep(s) \/ OrphanAnswered(s) PROVE AuthNext
  BY <1>5 DEF ServeStep, OrphanAnswered, AuthNext
<1>6. CASE Elsewhere
  BY <1>6 DEF Elsewhere, FreeSlots, AuthNext
<1> QED BY <1>3, <1>4, <1>5, <1>6 DEF BrowserNext

(* What a tab makes of the end of a call: the call is not in flight any    *)
(* more, and every caller of a refresh has been told.                      *)
LEMMA HeardTab ==
  ASSUME NEW t \in TabStates, NEW k \in Kinds, NEW op \in OpsOf(k), NEW issued \in BOOLEAN
  PROVE  LET r == Landed(Heard(t, op, issued), k) IN
         /\ r \in TabStates
         /\ r.flight = [t.flight EXCEPT ![k] = None]
         /\ WaitsForSomething(t) => WaitsForSomething(r)
<1> DEFINE h == Heard(t, op, issued)
           r == Landed(h, k)
           Steps0 == [Attempts \cup {"me"} -> AttemptSteps]
<1>0. /\ t.access \in BOOLEAN /\ t.boot \in BOOLEAN
      /\ t.ui \in {"loading", "authenticated", "unauthenticated"}
      /\ t.flight \in [Kinds -> Slots \cup {None}]
      /\ t.attempt \in Steps0 /\ DOMAIN t.attempt = Attempts \cup {"me"}
  BY DEF TabStates
<1>c. /\ ClearSession(t) \in TabStates
      /\ ClearSession(t).flight = t.flight /\ ClearSession(t).attempt = t.attempt
      /\ ClearSession(t).boot = t.boot
      /\ ClearSession(t).ui # "loading" \/ ClearSession(t).ui = t.ui
  BY DEF ClearSession, TabStates
<1>1. /\ h \in TabStates /\ h.flight = t.flight
      /\ k = "refresh" => \A a \in Attempts \cup {"me"} : h.attempt[a] # "waiting"
      /\ k # "refresh" => h.attempt = t.attempt
      /\ (t.ui = "loading" => t.boot \/ t.attempt["me"] # "idle")
            => (h.ui = "loading" => h.boot \/ h.attempt["me"] # "idle")
  <2>1. CASE op = "refresh" /\ issued
    <3> DEFINE f == [a \in DOMAIN t.attempt |->
                       CASE a = "me" /\ t.boot        -> "first"
                         [] t.attempt[a] = "waiting" -> "second"
                         [] OTHER                    -> t.attempt[a]]
    <3>1. h = [t EXCEPT !.access = TRUE, !.boot = FALSE, !.attempt = f]
      BY <2>1 DEF Heard, Refreshed
    <3>2. f \in Steps0 /\ (\A a \in Attempts \cup {"me"} : f[a] # "waiting")
          /\ (t.boot \/ t.attempt["me"] # "idle" => f["me"] # "idle")
      BY <1>0 DEF AttemptSteps
    <3> HIDE DEF f
    <3>3. h \in TabStates /\ h.flight = t.flight /\ h.attempt = f /\ h.ui = t.ui
      BY <3>1, <3>2 DEF TabStates
    <3> QED BY <2>1, <3>2, <3>3 DEF OpsOf, Kinds
  <2>2. CASE op = "refresh" /\ ~issued
    <3> DEFINE f == [a \in DOMAIN t.attempt |->
                       IF t.attempt[a] = "waiting" THEN "idle" ELSE t.attempt[a]]
               u == IF t.boot \/ t.attempt["me"] = "waiting" THEN "unauthenticated"
                    ELSE ClearSession(t).ui
    <3>1. h = [ClearSession(t) EXCEPT !.boot = FALSE, !.ui = u, !.attempt = f]
      BY <2>2 DEF Heard, NotRefreshed
    <3>2. f \in Steps0 /\ (\A a \in Attempts \cup {"me"} : f[a] # "waiting")
          /\ (t.attempt["me"] # "waiting" => f["me"] = t.attempt["me"])
      BY <1>0 DEF AttemptSteps
    <3>3. /\ u \in {"loading", "authenticated", "unauthenticated"}
          /\ u = "loading" => ~t.boot /\ t.attempt["me"] # "waiting" /\ t.ui = "loading"
      BY <1>c DEF TabStates
    <3> HIDE DEF f, u
    <3>4. h \in TabStates /\ h.flight = t.flight /\ h.attempt = f /\ h.ui = u
      BY <3>1, <3>2, <3>3, <1>c DEF TabStates
    <3> QED BY <2>2, <3>2, <3>3, <3>4 DEF OpsOf, Kinds
  <2>3. CASE op \in {"login", "signup"}
    BY <2>3, <1>0 DEF Heard, TabStates, OpsOf, Kinds
  <2>4. CASE op = "logout"
    BY <2>4, <1>0, <1>c DEF Heard, TabStates, OpsOf, Kinds
  <2> QED BY <2>1, <2>2, <2>3, <2>4 DEF OpsOf, Kinds
<1> HIDE DEF h
<1>2. r \in TabStates /\ r.flight = [t.flight EXCEPT ![k] = None]
      /\ r.attempt = h.attempt /\ r.ui = h.ui /\ r.boot = h.boot
  BY <1>1 DEF Landed, TabStates
<1> HIDE DEF r
<1>3. k # "refresh" => r.flight["refresh"] = t.flight["refresh"]
  BY <1>0, <1>2 DEF Kinds
<1>4. WaitsForSomething(t) => WaitsForSomething(r)
  BY <1>1, <1>2, <1>3 DEF WaitsForSomething
<1> QED BY <1>2, <1>4 DEF h, r

(* A step that only lands calls, and keeps the requests that stay in       *)
(* flight.                                                                 *)
LEMMA LandingKeepsFlights ==
  ASSUME FlightsMatch,
         \A w \in Tabs, k \in Kinds : tab'[w].flight[k] # None =>
            /\ tab'[w].flight[k] = tab[w].flight[k]
            /\ call'[tab[w].flight[k]] # None
            /\ call'[tab[w].flight[k]].op = call[tab[w].flight[k]].op
  PROVE  FlightsMatch'
BY DEF FlightsMatch

(* A step that launches one call, in a slot that was free.                 *)
LEMMA LaunchKeepsFlights ==
  ASSUME BrowserInv, NEW w \in Tabs, NEW k \in Kinds, NEW s \in Slots, call[s] = None,
         NEW c \in Calls, c.op \in OpsOf(k), call' = [call EXCEPT ![s] = c],
         NEW t \in TabStates, t.flight = [tab[w].flight EXCEPT ![k] = s],
         tab' = [tab EXCEPT ![w] = t]
  PROVE  FlightsMatch'
<1>0. /\ tab \in [Tabs -> TabStates] /\ call \in [Slots -> Calls \cup {None}]
      /\ FlightsMatch
  BY DEF BrowserInv, BrowserTypeOK, AuthTypeOK
<1>1. tab[w].flight \in [Kinds -> Slots \cup {None}]
  BY <1>0 DEF TabStates
<1>2. \A v \in Tabs, j \in Kinds :
         tab'[v].flight[j] = IF v = w /\ j = k THEN s ELSE tab[v].flight[j]
  BY <1>0, <1>1
<1>3. call'[s] = c /\ call'[s] # None /\ \A r \in Slots \ {s} : call'[r] = call[r]
  BY <1>0, NoCallAssumption
<1>4. \A v \in Tabs, j \in Kinds : tab[v].flight[j] # s
  BY AuthAssumption DEF FlightsMatch, BrowserInv
<1>5. \A v \in Tabs, j \in Kinds : tab[v].flight[j] \in Slots \cup {None}
  BY <1>0 DEF TabStates
<1> QED BY <1>0, <1>2, <1>3, <1>4, <1>5 DEF FlightsMatch

(* What a call that is sent into a free slot does to the calls.            *)
LEMMA SentCall ==
  ASSUME BrowserInv, NEW s \in Slots, NEW op \in Ops, NEW n \in {0, cookie},
         NEW u \in Users \cup {None}, Send(s, op, n, u)
  PROVE  \E c \in Calls : /\ c.op = op /\ c.token = n /\ c.step = "sent"
                          /\ call' = [call EXCEPT ![s] = c]
<1> DEFINE c == [op |-> op, step |-> "sent", token |-> n, user |-> u]
<1>1. n \in 0..MaxSessions
  BY AuthAssumption DEF BrowserInv, BrowserTypeOK, AuthTypeOK
<1>2. c \in Calls
  BY <1>1 DEF Calls, Steps
<1> QED BY <1>2 DEF Send

(* FirstRejected and Load join the refresh in flight or start it.          *)
LEMMA RefreshKeepsTabs ==
  ASSUME BrowserInv, NEW w \in Tabs, NEW t \in TabStates, t.flight = tab[w].flight,
         t.ui = "loading" => t.boot \/ t.attempt["me"] # "idle",
         RefreshSession(w, t)
  PROVE  /\ tab' \in [Tabs -> TabStates]
         /\ FlightsMatch'
         /\ \A v \in Tabs : WaitsForSomething(tab'[v])
<1>0. /\ tab \in [Tabs -> TabStates] /\ FlightsMatch
      /\ \A v \in Tabs : WaitsForSomething(tab[v])
  BY DEF BrowserInv, BrowserTypeOK
<1>1. CASE t.flight["refresh"] # None /\ tab' = [tab EXCEPT ![w] = t] /\ UNCHANGED call
  <2>1. WaitsForSomething(t)
    BY <1>1 DEF WaitsForSomething
  <2>2. \A v \in Tabs, k \in Kinds : tab'[v].flight[k] = tab[v].flight[k]
    BY <1>0, <1>1
  <2>3. FlightsMatch'
    BY <1>0, <1>1, <2>2 DEF FlightsMatch
  <2> QED BY <1>0, <1>1, <2>1, <2>3
<1>2. ASSUME NEW s \in FreeSlots, Send(s, "refresh", cookie, None),
             tab' = [tab EXCEPT ![w] = Launch(t, "refresh", s)]
      PROVE  /\ tab' \in [Tabs -> TabStates]
             /\ FlightsMatch'
             /\ \A v \in Tabs : WaitsForSomething(tab'[v])
  <2> DEFINE r == Launch(t, "refresh", s)
  <2>0. s \in Slots /\ call[s] = None
    BY DEF FreeSlots
  <2>1. r \in TabStates /\ r.flight = [tab[w].flight EXCEPT !["refresh"] = s]
        /\ r.ui = t.ui /\ r.boot = t.boot /\ r.attempt = t.attempt
    BY <2>0 DEF Launch, TabStates
  <2>2. r.flight["refresh"] # None
    BY <2>0, <2>1, AuthAssumption DEF TabStates, Kinds
  <2> HIDE DEF r
  <2>3. WaitsForSomething(r)
    BY <2>1, <2>2 DEF WaitsForSomething
  <2>4. PICK c \in Calls : c.op = "refresh" /\ call' = [call EXCEPT ![s] = c]
    BY <1>2, <2>0, SentCall DEF Ops
  <2>5. FlightsMatch'
    <3>1. tab' = [tab EXCEPT ![w] = r] /\ "refresh" \in Kinds /\ c.op \in OpsOf("refresh")
      BY <1>2, <2>4 DEF r, Kinds, OpsOf
    <3> QED BY <2>0, <2>1, <2>4, <3>1, LaunchKeepsFlights
  <2> QED BY <1>0, <1>2, <2>1, <2>3, <2>5 DEF r
<1> QED BY <1>1, <1>2 DEF RefreshSession

(* The part of BrowserInv that is about the tabs, and that a step with     *)
(* AuthNext leaves to be shown.                                            *)
TabsOK == /\ tab \in [Tabs -> TabStates] /\ FlightsMatch
          /\ \A w \in Tabs : WaitsForSomething(tab[w])

(* A tab that moves on without a new call.                                 *)
LEMMA TabMoves ==
  ASSUME BrowserInv, NEW w \in Tabs, NEW t \in TabStates, WaitsForSomething(t),
         t.flight = tab[w].flight, tab' = [tab EXCEPT ![w] = t], UNCHANGED call
  PROVE  TabsOK'
<1>0. /\ tab \in [Tabs -> TabStates] /\ FlightsMatch
      /\ \A v \in Tabs : WaitsForSomething(tab[v])
  BY DEF BrowserInv, BrowserTypeOK
<1>1. \A v \in Tabs, k \in Kinds : tab'[v].flight[k] = tab[v].flight[k]
  BY <1>0
<1>2. FlightsMatch'
  BY <1>0, <1>1 DEF FlightsMatch
<1> QED BY <1>0, <1>2 DEF TabsOK

(* A tab that hears, or believes, that a call of its has ended.            *)
LEMMA TabLands ==
  ASSUME BrowserInv, NEW w \in Tabs, NEW k \in Kinds, tab[w].flight[k] # None,
         NEW issued \in BOOLEAN,
         tab' = [tab EXCEPT ![w] = Landed(Heard(@, call[tab[w].flight[k]].op, issued), k)],
         call' = call \/ call' = [call EXCEPT ![tab[w].flight[k]] = None]
  PROVE  /\ TabsOK'
         /\ \A v \in Tabs, j \in Kinds :
               tab'[v].flight[j] = IF v = w /\ j = k THEN None ELSE tab[v].flight[j]
<1> DEFINE s == tab[w].flight[k]
           t == Landed(Heard(tab[w], call[s].op, issued), k)
<1>0. /\ tab \in [Tabs -> TabStates] /\ call \in [Slots -> Calls \cup {None}]
      /\ FlightsMatch /\ \A v \in Tabs : WaitsForSomething(tab[v])
  BY DEF BrowserInv, BrowserTypeOK, AuthTypeOK
<1>1. tab[w] \in TabStates /\ call[s].op \in OpsOf(k)
  BY <1>0 DEF FlightsMatch
<1>2. /\ t \in TabStates /\ t.flight = [tab[w].flight EXCEPT ![k] = None]
      /\ WaitsForSomething(t)
  BY <1>0, <1>1, HeardTab
<1>3. tab' = [tab EXCEPT ![w] = t]
  OBVIOUS
<1> HIDE DEF t
<1>4. /\ tab[w].flight \in [Kinds -> Slots \cup {None}]
      /\ \A v \in Tabs, j \in Kinds :
            tab'[v].flight[j] = IF v = w /\ j = k THEN None ELSE tab[v].flight[j]
  <2>1. tab[w].flight \in [Kinds -> Slots \cup {None}]
    BY <1>0 DEF TabStates
  <2>2. tab'[w] = t /\ \A v \in Tabs \ {w} : tab'[v] = tab[v]
    BY <1>0, <1>3
  <2>3. \A j \in Kinds : t.flight[j] = IF j = k THEN None ELSE tab[w].flight[j]
    BY <1>2, <2>1
  <2>4. ASSUME NEW v \in Tabs, NEW j \in Kinds
        PROVE  tab'[v].flight[j] = IF v = w /\ j = k THEN None ELSE tab[v].flight[j]
    <3>1. CASE v = w
      BY <2>2, <2>3, <3>1
    <3>2. CASE v # w
      BY <2>2, <3>2
    <3> QED BY <3>1, <3>2
  <2> QED BY <2>1, <2>4
<1>5. \A v \in Tabs, j \in Kinds : (tab[v].flight[j] # None /\ ~(v = w /\ j = k))
         => tab[v].flight[j] # s
  <2>1. \A i, j \in Kinds : i # j => OpsOf(i) \cap OpsOf(j) = {}
    BY DEF Kinds, OpsOf
  <2> QED BY <1>0, <2>1 DEF FlightsMatch
<1>6. FlightsMatch'
  <2>1. \A v \in Tabs, j \in Kinds : tab[v].flight[j] \in Slots \cup {None}
    BY <1>0 DEF TabStates
  <2>2. \A r \in Slots : r # s => call'[r] = call[r]
    BY <1>0
  <2>3. ASSUME NEW v \in Tabs, NEW j \in Kinds, tab'[v].flight[j] # None
        PROVE  /\ tab'[v].flight[j] = tab[v].flight[j]
               /\ call'[tab[v].flight[j]] # None
               /\ call'[tab[v].flight[j]].op = call[tab[v].flight[j]].op
    <3>0. tab'[v].flight[j] = IF v = w /\ j = k THEN None ELSE tab[v].flight[j]
      BY <1>4
    <3>1. tab'[v].flight[j] = tab[v].flight[j] /\ ~(v = w /\ j = k)
      BY <2>3, <3>0
    <3>3. tab[v].flight[j] # s
      BY <1>5, <2>3, <3>1
    <3>2. call'[tab[v].flight[j]] = call[tab[v].flight[j]]
      BY <2>1, <2>2, <2>3, <3>1, <3>3
    <3> QED BY <1>0, <2>3, <3>1, <3>2 DEF FlightsMatch
  <2> QED BY <1>0, <2>3, LandingKeepsFlights
<1>7. tab' \in [Tabs -> TabStates] /\ \A v \in Tabs : WaitsForSomething(tab'[v])
  BY <1>0, <1>2, <1>3
<1>8. TabsOK'
  BY <1>6, <1>7 DEF TabsOK
<1> QED BY <1>4, <1>8

LEMMA TabsKeepGoing == BrowserInv /\ BrowserNext => TabsOK'
<1> SUFFICES ASSUME BrowserInv, BrowserNext PROVE TabsOK'
  OBVIOUS
<1>0. /\ AuthInv /\ tab \in [Tabs -> TabStates] /\ FlightsMatch
      /\ call \in [Slots -> Calls \cup {None}]
      /\ \A w \in Tabs : tab[w] \in TabStates /\ WaitsForSomething(tab[w])
  BY DEF BrowserInv, BrowserTypeOK, AuthInv, AuthTypeOK
<1>1. ASSUME NEW w \in Tabs, TabStep(w) PROVE TabsOK'
  <2>1. CASE Load(w)
    <3>1. RefreshSession(w, tab[w])
      BY <2>1 DEF Load
    <3> QED BY <1>0, <3>1, RefreshKeepsTabs DEF TabsOK, WaitsForSomething
  <2>2. ASSUME NEW k \in Kinds, Hears(w, k) PROVE TabsOK'
    <3>1. At(tab[w].flight[k], "issued") \in BOOLEAN
      BY DEF At
    <3> QED BY <2>2, <3>1, TabLands DEF Hears, Finish
  <2>3. ASSUME NEW a \in Attempts \cup {"me"}, FirstRejected(w, a) PROVE TabsOK'
    <3> DEFINE t == [tab[w] EXCEPT !.attempt[a] = "waiting"]
    <3>1. /\ t \in TabStates /\ t.flight = tab[w].flight
          /\ t.ui = "loading" => t.boot \/ t.attempt["me"] # "idle"
      BY <1>0 DEF TabStates, AttemptSteps, WaitsForSomething
    <3>2. RefreshSession(w, t)
      BY <2>3 DEF FirstRejected
    <3> QED BY <3>1, <3>2, RefreshKeepsTabs DEF TabsOK
  <2>4. ASSUME NEW a \in Attempts \cup {"me"}, Accepted(w, a) PROVE TabsOK'
    <3> DEFINE t == [tab[w] EXCEPT !.attempt[a] = "idle",
                                   !.ui = IF a = "me" THEN "authenticated" ELSE @]
    <3>1. tab' = [tab EXCEPT ![w] = t]
      BY <1>0, <2>4 DEF Accepted, TabStates
    <3>2. /\ t \in TabStates /\ t.flight = tab[w].flight /\ t.boot = tab[w].boot
          /\ \A b \in Attempts \cup {"me"} :
                t.attempt[b] = IF b = a THEN "idle" ELSE tab[w].attempt[b]
          /\ t.ui = "loading" => tab[w].ui = "loading" /\ a # "me"
      BY <1>0 DEF TabStates, AttemptSteps
    <3> HIDE DEF t
    <3>3. WaitsForSomething(t)
      BY <1>0, <3>2 DEF WaitsForSomething
    <3> QED BY <2>4, <3>1, <3>2, <3>3, TabMoves DEF Accepted
  <2>5. ASSUME NEW a \in Attempts \cup {"me"}, SecondRejected(w, a) PROVE TabsOK'
    <3> DEFINE t == [ClearSession(tab[w]) EXCEPT
                        !.attempt[a] = "idle",
                        !.ui = IF a = "me" THEN "unauthenticated" ELSE @]
    <3>1. tab' = [tab EXCEPT ![w] = t]
      BY <1>0, <2>5 DEF SecondRejected
    <3>2. /\ t \in TabStates /\ t.flight = tab[w].flight /\ t.boot = tab[w].boot
          /\ \A b \in Attempts \cup {"me"} :
                t.attempt[b] = IF b = a THEN "idle" ELSE tab[w].attempt[b]
          /\ t.ui = "loading" => tab[w].ui = "loading" /\ a # "me"
      BY <1>0 DEF TabStates, AttemptSteps, ClearSession
    <3> HIDE DEF t
    <3>3. WaitsForSomething(t)
      BY <1>0, <3>2 DEF WaitsForSomething
    <3> QED BY <2>5, <3>1, <3>2, <3>3, TabMoves DEF SecondRejected
  <2>6. ASSUME NEW a \in Attempts \cup {"me"}, AttemptFails(w, a) PROVE TabsOK'
    <3> DEFINE t == IF a = "me"
                    THEN [ClearSession(tab[w]) EXCEPT !.attempt[a] = "idle",
                                                      !.ui = "unauthenticated"]
                    ELSE [tab[w] EXCEPT !.attempt[a] = "idle"]
    <3>1. tab' = [tab EXCEPT ![w] = t]
      BY <1>0, <2>6 DEF AttemptFails
    <3>2. /\ t \in TabStates /\ t.flight = tab[w].flight /\ t.boot = tab[w].boot
          /\ \A b \in Attempts \cup {"me"} :
                t.attempt[b] = IF b = a THEN "idle" ELSE tab[w].attempt[b]
          /\ t.ui = "loading" => tab[w].ui = "loading" /\ a # "me"
      BY <1>0 DEF TabStates, AttemptSteps, ClearSession
    <3> HIDE DEF t
    <3>3. WaitsForSomething(t)
      BY <1>0, <3>2 DEF WaitsForSomething
    <3> QED BY <2>6, <3>1, <3>2, <3>3, TabMoves DEF AttemptFails
  <2> QED BY <1>1, <2>1, <2>2, <2>3, <2>4, <2>5, <2>6 DEF TabStep
<1>2. ASSUME NEW w \in Tabs, Reader(w) PROVE TabsOK'
  <2>1. ASSUME NEW a \in Attempts, Attempt(w, a) PROVE TabsOK'
    <3> DEFINE x == IF tab[w].access THEN "first" ELSE "anonymous"
               t == [tab[w] EXCEPT !.attempt[a] = x]
    <3>0. x \in AttemptSteps \ {"waiting"} /\ x # "idle"
      BY DEF AttemptSteps
    <3>1. tab' = [tab EXCEPT ![w] = t]
      BY <1>0, <2>1 DEF Attempt
    <3> HIDE DEF x
    <3>2. /\ t \in TabStates /\ t.flight = tab[w].flight /\ t.boot = tab[w].boot
          /\ t.ui = tab[w].ui
          /\ \A b \in Attempts \cup {"me"} :
                t.attempt[b] = IF b = a THEN x ELSE tab[w].attempt[b]
      BY <1>0, <3>0 DEF TabStates, AttemptSteps
    <3> HIDE DEF t
    <3>3. WaitsForSomething(t)
      BY <1>0, <3>0, <3>2 DEF WaitsForSomething
    <3> QED BY <2>1, <3>1, <3>2, <3>3, TabMoves DEF Attempt
  <2>2. ASSUME NEW k \in {"in", "out"}, NEW op \in OpsOf(k), NEW n \in {0, cookie},
               NEW u \in Users \cup {None}, NEW s \in FreeSlots, Send(s, op, n, u),
               tab' = [tab EXCEPT ![w] = Launch(@, k, s)]
        PROVE  TabsOK'
    <3> DEFINE t == Launch(tab[w], k, s)
    <3>0. s \in Slots /\ call[s] = None /\ k \in Kinds /\ op \in Ops
      BY DEF FreeSlots, Kinds, OpsOf, Ops
    <3>1. /\ t \in TabStates /\ t.flight = [tab[w].flight EXCEPT ![k] = s]
          /\ t.ui = tab[w].ui /\ t.boot = tab[w].boot /\ t.attempt = tab[w].attempt
          /\ t.flight["refresh"] = tab[w].flight["refresh"]
      BY <1>0, <3>0 DEF Launch, TabStates, Kinds
    <3>2. tab' = [tab EXCEPT ![w] = t]
      BY <2>2
    <3> HIDE DEF t
    <3>3. WaitsForSomething(t)
      BY <1>0, <3>1 DEF WaitsForSomething
    <3>4. PICK c \in Calls : c.op = op /\ call' = [call EXCEPT ![s] = c]
      BY <2>2, <3>0, SentCall
    <3>5. FlightsMatch'
      BY <3>0, <3>1, <3>2, <3>4, LaunchKeepsFlights
    <3> QED BY <1>0, <3>1, <3>2, <3>3, <3>5 DEF TabsOK
  <2>3. ASSUME NEW op \in {"login", "signup"}, NEW u \in Users, SignIn(w, op, u) PROVE TabsOK'
    BY <2>2, <2>3 DEF SignIn, OpsOf
  <2>4. CASE SignOut(w)
    BY <2>2, <2>4 DEF SignOut, OpsOf
  <2>5. CASE Reload(w)
    <3>1. Loaded \in TabStates /\ WaitsForSomething(Loaded)
      BY DEF Loaded, TabStates, AttemptSteps, WaitsForSomething
    <3>2. \A v \in Tabs, k \in Kinds : tab'[v].flight[k] # None =>
             tab'[v].flight[k] = tab[v].flight[k]
      BY <1>0, <2>5 DEF Reload, Loaded
    <3>3. FlightsMatch'
      BY <1>0, <2>5, <3>2 DEF Reload, FlightsMatch
    <3> QED BY <1>0, <2>5, <3>1, <3>3 DEF Reload, TabsOK
  <2>6. ASSUME NEW k \in Kinds, Loses(w, k) PROVE TabsOK'
    BY <2>6, TabLands DEF Loses
  <2> QED BY <1>2, <2>1, <2>3, <2>4, <2>5, <2>6 DEF Reader
<1>3. ASSUME UNCHANGED tab,
             \A w \in Tabs, k \in Kinds : tab[w].flight[k] # None =>
                /\ call'[tab[w].flight[k]] # None
                /\ call'[tab[w].flight[k]].op = call[tab[w].flight[k]].op
      PROVE  TabsOK'
  <2>1. FlightsMatch'
    BY <1>0, <1>3, LandingKeepsFlights
  <2> QED BY <1>0, <1>3, <2>1 DEF TabsOK
<1>4. \A w \in Tabs, k \in Kinds : tab[w].flight[k] # None =>
         tab[w].flight[k] \in Slots /\ call[tab[w].flight[k]] # None
  BY <1>0 DEF TabStates, FlightsMatch
<1>5. ASSUME NEW s \in Slots, ServeStep(s) PROVE TabsOK'
  <2>1. /\ call'[s] # None /\ call'[s].op = call[s].op
        /\ \A r \in Slots \ {s} : call'[r] = call[r]
    BY <1>0, <1>5, ServeMovesOneCall DEF ServeStep
  <2> QED BY <1>3, <1>4, <1>5, <2>1 DEF ServeStep
<1>6. ASSUME NEW s \in Slots, OrphanAnswered(s) PROVE TabsOK'
  <2>1. /\ UNCHANGED tab
        /\ \A w \in Tabs, k \in Kinds : tab[w].flight[k] # s
        /\ \A r \in Slots \ {s} : call'[r] = call[r]
    BY <1>0, <1>6 DEF OrphanAnswered, Orphans, Finish
  <2> QED BY <1>3, <1>4, <2>1
<1>7. CASE Elsewhere
  <2>1. \A r \in Slots : call[r] # None => call'[r] = call[r]
    BY <1>0, <1>7 DEF Elsewhere, ConfirmReset, RequestPasswordReset, Send
  <2> QED BY <1>3, <1>4, <1>7, <2>1 DEF Elsewhere
<1> QED BY <1>1, <1>2, <1>5, <1>6, <1>7 DEF BrowserNext

(* The cookie is a token that was issued, and losses are counted.          *)
LEMMA CookieStaysTyped ==
  BrowserInv /\ BrowserNext => cookie' \in 0..Len(session') /\ losses' \in 0..MaxLosses
<1> SUFFICES ASSUME BrowserInv, BrowserNext
             PROVE  cookie' \in 0..Len(session') /\ losses' \in 0..MaxLosses
  OBVIOUS
<1>0. /\ AuthInv /\ cookie \in 0..Len(session) /\ losses \in 0..MaxLosses
      /\ Len(session) \in Nat /\ MaxLosses \in Nat
      /\ \A w \in Tabs, k \in Kinds : tab[w].flight[k] # None => tab[w].flight[k] \in Slots
  BY BrowserAssumption DEF BrowserInv, BrowserTypeOK, AuthInv, AuthTypeOK, TabStates
<1>1. \A s \in Slots : Answered(s) => CookieAfter(s) \in 0..Len(session)
  BY <1>0 DEF Answered, CookieAfter, At, Token, AuthInv, CallsKnow
<1>2. ASSUME NEW w \in Tabs, TabStep(w) \/ Reader(w)
      PROVE  cookie' \in 0..Len(session') /\ losses' \in 0..MaxLosses
  <2>1. ASSUME NEW k \in Kinds, Hears(w, k)
        PROVE  cookie' \in 0..Len(session') /\ losses' \in 0..MaxLosses
    BY <1>0, <1>1, <2>1 DEF Hears, Finish
  <2>2. CASE Reload(w) \/ \E k \in Kinds : Loses(w, k)
    <3>1. losses < MaxLosses /\ losses' = losses + 1 /\ UNCHANGED <<session, cookie>>
      BY <2>2 DEF Reload, Loses
    <3> QED BY <1>0, <3>1
  <2>3. CASE UNCHANGED <<session, cookie, losses>>
    BY <1>0, <2>3
  <2> QED BY <1>2, <2>1, <2>2, <2>3
          DEF TabStep, Reader, Load, FirstRejected, SecondRejected, Accepted, AttemptFails,
              Attempt, SignIn, SignOut
<1>3. ASSUME NEW s \in Slots, ServeStep(s)
      PROVE  cookie' \in 0..Len(session') /\ losses' \in 0..MaxLosses
  <2>1. Len(session') \in {Len(session), Len(session) + 1}
    BY <1>0, <1>3, ServeMovesOneCall DEF ServeStep
  <2> QED BY <1>0, <1>3, <2>1 DEF ServeStep
<1>4. ASSUME NEW s \in Slots, OrphanAnswered(s)
      PROVE  cookie' \in 0..Len(session') /\ losses' \in 0..MaxLosses
  BY <1>0, <1>1, <1>4 DEF OrphanAnswered, Finish
<1>5. ASSUME Elsewhere PROVE cookie' \in 0..Len(session') /\ losses' \in 0..MaxLosses
  BY <1>0, <1>5 DEF Elsewhere, ConfirmReset, RequestPasswordReset
<1> QED BY <1>2, <1>3, <1>4, <1>5 DEF BrowserNext

LEMMA NextBrowserInv == BrowserInv /\ [BrowserNext]_browserVars => BrowserInv'
<1> SUFFICES ASSUME BrowserInv, [BrowserNext]_browserVars PROVE BrowserInv'
  OBVIOUS
<1>1. CASE BrowserNext
  <2>1. AuthInv'
    BY <1>1, BrowserIsAClient, NextAuthInv DEF BrowserInv, BrowserTypeOK, AuthInv
  <2> QED BY <1>1, <2>1, TabsKeepGoing, CookieStaysTyped
          DEF BrowserInv, BrowserTypeOK, AuthInv, TabsOK
<1>2. CASE UNCHANGED browserVars
  BY <1>2 DEF browserVars, BrowserInv, BrowserTypeOK, AuthTypeOK, CallsKnow, LinksDescend,
              FlightsMatch
<1> QED BY <1>1, <1>2

(* The browser and the API it talks to stay well typed, for any number of  *)
(* tabs, of calls and of lost answers.                                     *)
THEOREM BrowserTypeCorrect == BrowserSpec => []BrowserTypeOK
<1>1. BrowserInv => BrowserTypeOK
  BY DEF BrowserInv
<1> QED BY <1>1, InitBrowserInv, NextBrowserInv, PTL DEF BrowserSpec

(* _revoke_session_lineage stays in the lineage of the replayed token when *)
(* the requests are those of the browser's tabs.                           *)
THEOREM BrowserReplayStaysInLineage == BrowserSpec => []WalkStaysInLineage
<1>1. BrowserInv => WalkStaysInLineage
  BY LinksBoundTheWalk DEF BrowserInv
<1> QED BY <1>1, InitBrowserInv, NextBrowserInv, PTL DEF BrowserSpec

(* The single refresh in flight of lib/http.ts: in no tab does a caller    *)
(* wait for a refresh that is not under way, nor the page for a provider   *)
(* that has nothing left to hear, whatever is lost, raced or reloaded.     *)
THEOREM NobodyIsLeftWaiting == BrowserSpec => []NobodyWaitsForNothing
<1>1. BrowserInv => NobodyWaitsForNothing
  BY DEF BrowserInv, NobodyWaitsForNothing, WaitsForSomething
<1> QED BY <1>1, InitBrowserInv, NextBrowserInv, PTL DEF BrowserSpec

-----------------------------------------------------------------------------
(* One tab, whose answers all arrive.  No row is replaced twice, because   *)
(* the tokens that can still be presented are those nothing was exchanged  *)
(* for: the cookie (or else the refresh that replaced it is answered and   *)
(* about to set it), and what answers under way carry, each its own.       *)
Unreplaced(t) == t # 0 => session[t].replacedBy = 0

RefreshIsAwaited ==
    \A s \in Slots : call[s] # None /\ call[s].op = "refresh" =>
       \E w \in Tabs : tab[w].flight["refresh"] = s

CookieIsCurrent ==
    Unreplaced(cookie) \/ \E s \in Slots : At(s, "issued") /\ call[s].op = "refresh"

CallsAreCurrent ==
    \A s \in Slots : call[s] # None =>
       /\ call[s].step # "replayed"
       /\ call[s].step = "rotating" => call[s].op = "refresh"
       /\ call[s].op = "refresh" /\ call[s].step \in {"sent", "rotating"} =>
             Unreplaced(call[s].token)

IssuedIsNew ==
    \A s \in Slots : At(s, "issued") =>
       /\ call[s].token # 0 /\ Unreplaced(call[s].token)
       /\ call[s].token # cookie
       /\ \A r \in Slots \ {s} : call[r] # None => call[r].token # call[s].token

(* A session exchanged for another is the one that replaced it.            *)
ParentsLink ==
    \A u \in DOMAIN session : session[u].parent # 0 =>
       /\ session[u].parent \in DOMAIN session
       /\ session[session[u].parent].replacedBy = u

Exact == /\ RefreshIsAwaited /\ CookieIsCurrent /\ CallsAreCurrent /\ IssuedIsNew
         /\ ParentsLink

OneTabInv == BrowserInv /\ (losses = 0 => Exact)

LEMMA InitOneTabInv == BrowserInit => OneTabInv
<1> SUFFICES ASSUME BrowserInit PROVE OneTabInv
  OBVIOUS
<1>1. BrowserInv
  BY InitBrowserInv
<1>2. \A t \in DOMAIN session : session[t].replacedBy = 0 /\ session[t].parent = 0
  BY DEF BrowserInit, AuthInit, FreshRow
<1>3. DOMAIN session = 1..Len(session) /\ Len(session) \in Nat
  BY <1>1 DEF BrowserInv, BrowserTypeOK, AuthTypeOK
<1>4. Unreplaced(cookie)
  BY <1>2, <1>3 DEF BrowserInit, Unreplaced
<1>5. \A s \in Slots : call[s] = None
  BY DEF BrowserInit, AuthInit
<1> QED BY <1>1, <1>2, <1>4, <1>5
        DEF OneTabInv, Exact, RefreshIsAwaited, CookieIsCurrent, CallsAreCurrent,
            IssuedIsNew, ParentsLink, At

(* At most one refresh is under way.                                       *)
LEMMA OneRefresh ==
  ASSUME NEW w, Tabs = {w}, RefreshIsAwaited,
         NEW s \in Slots, NEW r \in Slots,
         call[s] # None, call[s].op = "refresh", call[r] # None, call[r].op = "refresh"
  PROVE  r = s
BY DEF RefreshIsAwaited

(* Moves of the API that change no link between rows, and issue nothing.   *)
LEMMA JudgingStaysExact ==
  ASSUME BrowserInv, Exact, UNCHANGED <<cookie, tab>>, NEW s \in Slots, call[s] # None,
         NEW step \in Steps \ {"sent", "issued", "replayed"}, Answer(s, step),
         call[s].step # "issued",
         step = "rotating" => Arrived(s, "refresh"),
         DOMAIN session' = DOMAIN session,
         \A t \in DOMAIN session : /\ session'[t].replacedBy = session[t].replacedBy
                                   /\ session'[t].parent = session[t].parent
  PROVE  Exact'
<1>0. /\ session \in Seq(Rows) /\ Len(session) \in Nat /\ DOMAIN session = 1..Len(session)
      /\ call \in [Slots -> Calls \cup {None}] /\ cookie \in 0..Len(session)
      /\ \A r \in Slots : call[r] # None => call[r].token \in 0..Len(session)
  BY DEF BrowserInv, BrowserTypeOK, AuthTypeOK, CallsKnow
<1>1. /\ call'[s] # None /\ call'[s].op = call[s].op /\ call'[s].token = call[s].token
      /\ call'[s].step = step
      /\ \A r \in Slots \ {s} : call'[r] = call[r]
  <2>1. call[s] \in Calls /\ call'[s] = [call[s] EXCEPT !.step = step]
    BY <1>0 DEF Answer
  <2>2. /\ call'[s] \in Calls /\ call'[s].op = call[s].op /\ call'[s].token = call[s].token
        /\ call'[s].step = step
    BY <2>1 DEF Calls
  <2> QED BY <1>0, <2>2, NoCallAssumption DEF Answer
<1>2. \A t \in 0..Len(session) : Unreplaced(t)' <=> Unreplaced(t)
  BY <1>0 DEF Unreplaced
<1>3. RefreshIsAwaited'
  BY <1>1 DEF Exact, RefreshIsAwaited
<1>4. CookieIsCurrent'
  BY <1>0, <1>1, <1>2 DEF Exact, CookieIsCurrent, At
<1>5. CallsAreCurrent'
  BY <1>0, <1>1, <1>2 DEF Exact, CallsAreCurrent, Arrived, At
<1>6. IssuedIsNew'
  BY <1>0, <1>1, <1>2 DEF Exact, IssuedIsNew, At
<1>7. ParentsLink'
  BY DEF Exact, ParentsLink
<1> QED BY <1>3, <1>4, <1>5, <1>6, <1>7 DEF Exact

(* The call of a request that is answered with a new token.                *)
LEMMA IssuedCall ==
  ASSUME AuthInv, NEW s \in Slots, call[s] # None, AnswerIssued(s),
         Len(session) < MaxSessions
  PROVE  /\ call'[s] # None /\ call'[s].op = call[s].op /\ call'[s].step = "issued"
         /\ call'[s].token = Len(session) + 1
         /\ \A r \in Slots \ {s} : call'[r] = call[r]
<1> DEFINE n == Len(session) + 1
<1>0. call \in [Slots -> Calls \cup {None}] /\ n \in 0..MaxSessions
  BY AuthAssumption DEF AuthInv, AuthTypeOK
<1> HIDE DEF n
<1>1. call[s] \in Calls /\ call'[s] = [call[s] EXCEPT !.step = "issued", !.token = n]
  BY <1>0 DEF AnswerIssued, n
<1>2. /\ call'[s] \in Calls /\ call'[s].op = call[s].op /\ call'[s].step = "issued"
      /\ call'[s].token = n
  BY <1>0, <1>1 DEF Calls, Steps
<1> QED BY <1>0, <1>2, NoCallAssumption DEF AnswerIssued, n

(* A sign-in issues a token nobody else holds.                             *)
LEMMA IssuingStaysExact ==
  ASSUME BrowserInv, Exact, UNCHANGED <<cookie, tab>>, NEW s \in Slots, call[s] # None,
         call[s].step # "issued",
         NEW u \in Users, session' = Append(session, FreshRow(u, 0)),
         Len(session) < MaxSessions, AnswerIssued(s)
  PROVE  Exact'
<1> DEFINE n   == Len(session) + 1
           row == FreshRow(u, 0)
<1>0. /\ session \in Seq(Rows) /\ Len(session) \in Nat /\ DOMAIN session = 1..Len(session)
      /\ call \in [Slots -> Calls \cup {None}] /\ cookie \in 0..Len(session)
      /\ \A r \in Slots : call[r] # None => call[r].token \in 0..Len(session)
      /\ AuthInv
  BY DEF BrowserInv, BrowserTypeOK, AuthTypeOK, CallsKnow, AuthInv
<1>1. /\ call'[s] # None /\ call'[s].op = call[s].op /\ call'[s].step = "issued"
      /\ call'[s].token = n
      /\ \A r \in Slots \ {s} : call'[r] = call[r]
  BY <1>0, IssuedCall
<1>2. row \in Rows /\ row.replacedBy = 0 /\ row.parent = 0
  BY AuthAssumption DEF FreshRow, Rows
<1> HIDE DEF row
<1>3. /\ DOMAIN session' = 1..n /\ session'[n] = row
      /\ \A t \in DOMAIN session : session'[t] = session[t]
  BY <1>0, <1>2 DEF row
<1>4. /\ \A t \in 0..Len(session) : Unreplaced(t)' <=> Unreplaced(t)
      /\ session'[n].replacedBy = 0
  BY <1>0, <1>2, <1>3 DEF Unreplaced
<1>5. RefreshIsAwaited'
  BY <1>1 DEF Exact, RefreshIsAwaited
<1>6. CookieIsCurrent'
  BY <1>0, <1>1, <1>4 DEF Exact, CookieIsCurrent, At
<1>7. CallsAreCurrent'
  BY <1>0, <1>1, <1>4 DEF Exact, CallsAreCurrent
<1>8. IssuedIsNew'
  <2>1. n # 0 /\ n # cookie /\ \A r \in Slots : call[r] # None => call[r].token # n
    BY <1>0
  <2>2. Unreplaced(call[s].token)'
    BY <1>1, <1>4 DEF Unreplaced
  <2>3. n # 0 /\ n # cookie' /\ \A r \in Slots \ {s} : call'[r] # None => call'[r].token # n
    BY <1>1, <2>1
  <2> HIDE DEF n
  <2> QED BY <1>0, <1>1, <1>4, <2>2, <2>3 DEF Exact, IssuedIsNew, At
<1>9. ParentsLink'
  BY <1>0, <1>2, <1>3 DEF Exact, ParentsLink
<1> QED BY <1>5, <1>6, <1>7, <1>8, <1>9 DEF Exact

(* The refresh under way replaces the row of its own token, which is the   *)
(* only row it changes, and no other call carries that token to exchange   *)
(* it.                                                                     *)
LEMMA RotatingStaysExact ==
  ASSUME BrowserInv, Exact, UNCHANGED <<cookie, tab>>, NEW w, Tabs = {w},
         NEW s \in Slots, Rotate(s)
  PROVE  Exact'
<1> DEFINE n    == Len(session) + 1
           t    == call[s].token
           row  == FreshRow(session[t].user, t)
           old  == [session[t] EXCEPT !.revoked = TRUE, !.replacedBy = n]
           rows == [session EXCEPT ![t] = old]
<1>0. /\ session \in Seq(Rows) /\ Len(session) \in Nat /\ DOMAIN session = 1..Len(session)
      /\ call \in [Slots -> Calls \cup {None}] /\ cookie \in 0..Len(session)
      /\ \A r \in Slots : call[r] # None => call[r].token \in 0..Len(session)
      /\ AuthInv
  BY DEF BrowserInv, BrowserTypeOK, AuthTypeOK, CallsKnow, AuthInv
<1>1. /\ call[s] # None /\ call[s].step = "rotating" /\ call[s].op = "refresh"
      /\ Len(session) < MaxSessions /\ AnswerIssued(s)
      /\ t \in DOMAIN session /\ session[t].replacedBy = 0
  BY <1>0 DEF Rotate, At, Exact, CallsAreCurrent, BrowserInv, CallsKnow, Unreplaced
<1>2. /\ call'[s] # None /\ call'[s].op = call[s].op /\ call'[s].step = "issued"
      /\ call'[s].token = n
      /\ \A r \in Slots \ {s} : call'[r] = call[r]
  BY <1>0, <1>1, IssuedCall
<1>3. row.replacedBy = 0 /\ row.parent = t
  BY DEF FreshRow
<1>4. old.replacedBy = n /\ old.parent = session[t].parent
  BY <1>0, <1>1 DEF Rows
<1>5. row \in Rows /\ old \in Rows
  <2>1. n \in 0..MaxSessions /\ t \in 0..MaxSessions /\ session[t] \in Rows
    BY <1>0, <1>1, AuthAssumption
  <2> HIDE DEF n
  <2>2. row \in Rows
    BY <2>1, AuthAssumption DEF FreshRow, Rows
  <2>3. old \in Rows
    BY <2>1 DEF Rows
  <2> QED BY <2>2, <2>3
<1>6. session' = Append(rows, row)
  BY DEF Rotate, Rotated, Token
<1> HIDE DEF row, old
<1>7. /\ DOMAIN session' = 1..n /\ session'[n] = row /\ session'[t] = old
      /\ \A x \in DOMAIN session : x # t => session'[x] = session[x]
  <2>1. /\ rows \in Seq(Rows) /\ Len(rows) = Len(session)
        /\ rows[t] = old /\ \A x \in DOMAIN session : x # t => rows[x] = session[x]
    BY <1>0, <1>1, <1>5
  <2> HIDE DEF rows
  <2> QED BY <1>0, <1>1, <1>5, <1>6, <2>1
<1>8. /\ \A x \in 0..Len(session) : x # t => (Unreplaced(x)' <=> Unreplaced(x))
      /\ session'[n].replacedBy = 0
  BY <1>0, <1>3, <1>7 DEF Unreplaced
<1>9. \A r \in Slots \ {s} : call[r] # None => call[r].op # "refresh"
  BY <1>1, OneRefresh DEF Exact
<1> HIDE DEF n, t
<1>10. RefreshIsAwaited'
  BY <1>1, <1>2 DEF Exact, RefreshIsAwaited
<1>11. CookieIsCurrent'
  BY <1>1, <1>2 DEF CookieIsCurrent, At
<1>12. CallsAreCurrent'
  BY <1>2, <1>9 DEF Exact, CallsAreCurrent
<1>13. IssuedIsNew'
  <2>1. n # 0 /\ n # cookie /\ \A r \in Slots : call[r] # None => call[r].token # n
    BY <1>0 DEF n
  <2>2. \A r \in Slots \ {s} : At(r, "issued") => call[r].token # t
    BY <1>1 DEF Exact, IssuedIsNew, t
  <2>3. Unreplaced(call[s].token)'
    BY <1>2, <1>8 DEF Unreplaced
  <2>4. n # 0 /\ n # cookie' /\ \A r \in Slots \ {s} : call'[r] # None => call'[r].token # n
    BY <1>2, <2>1
  <2> QED BY <1>0, <1>2, <1>8, <2>2, <2>3, <2>4 DEF Exact, IssuedIsNew, At
<1>14. ParentsLink'
  <2>0. n \notin DOMAIN session /\ DOMAIN session' = DOMAIN session \cup {n} /\ n # 0
        /\ t \in DOMAIN session /\ t # 0
    BY <1>0, <1>1, <1>7 DEF n, t
  <2> SUFFICES ASSUME NEW u \in DOMAIN session \cup {n}, session'[u].parent # 0
               PROVE  /\ session'[u].parent \in DOMAIN session'
                      /\ session'[session'[u].parent].replacedBy = u
    BY <2>0 DEF ParentsLink
  <2>1. CASE u = n
    BY <1>3, <1>4, <1>7, <2>0, <2>1
  <2>2. CASE u \in DOMAIN session
    <3>1. session'[u].parent = session[u].parent
      BY <1>4, <1>7, <2>2
    <3>2. session[u].parent \in DOMAIN session /\ session[session[u].parent].replacedBy = u
      BY <2>2, <3>1 DEF Exact, ParentsLink
    <3>3. session[u].parent # t
      BY <1>1, <2>0, <2>2, <3>2, <1>0 DEF t
    <3> QED BY <1>7, <2>0, <3>1, <3>2, <3>3
  <2> QED BY <2>1, <2>2
<1> QED BY <1>10, <1>11, <1>12, <1>13, <1>14 DEF Exact

(* The API judges and commits: Exact is kept by every step of a request.   *)
LEMMA ServingStaysExact ==
  ASSUME BrowserInv, Exact, UNCHANGED <<cookie, tab>>, NEW w, Tabs = {w},
         NEW s \in Slots, Serve(s) \/ RequestFails(s)
  PROVE  Exact'
<1>0. session \in Seq(Rows) /\ AuthInv
  BY DEF BrowserInv, BrowserTypeOK, AuthTypeOK, AuthInv
<1>1. ASSUME call[s] # None, NEW step \in Steps \ {"sent", "issued", "replayed"},
             Answer(s, step), call[s].step # "issued",
             step = "rotating" => Arrived(s, "refresh"), UNCHANGED session
      PROVE  Exact'
  BY <1>1, JudgingStaysExact
<1>2. ASSUME call[s] # None, NEW step \in {"done", "refused"}, Answer(s, step),
             call[s].step # "issued", NEW S, Revoke(S)
      PROVE  Exact'
  <2>1. DOMAIN session' = DOMAIN session
    BY <1>2 DEF Revoke
  <2>2. \A t \in DOMAIN session : /\ session'[t].replacedBy = session[t].replacedBy
                                  /\ session'[t].parent = session[t].parent
    <3> TAKE t \in DOMAIN session
    <3>1. session[t] \in Rows
      BY <1>0
    <3> QED BY <1>2, <3>1 DEF Revoke, Rows
  <2>3. step \in Steps \ {"sent", "issued", "replayed"} /\ step # "rotating"
    BY DEF Steps
  <2> QED BY <1>2, <2>1, <2>2, <2>3, JudgingStaysExact
<1>3. CASE RefreshReads(s)
  <2>1. PICK step \in {"replayed", "rotating", "refused"} :
             (step = "replayed" <=> Reused(Token(s))) /\ Answer(s, step)
    BY <1>3 DEF RefreshReads
  <2>2. ~Reused(Token(s))
    BY <1>3 DEF RefreshReads, Arrived, At, Reused, Token, Exact, CallsAreCurrent, Unreplaced
  <2> QED BY <1>1, <1>3, <2>1, <2>2 DEF RefreshReads, Arrived, At, Steps
<1>4. CASE Rotate(s)
  BY <1>4, RotatingStaysExact
<1>5. CASE Login(s) \/ Register(s)
  <2>1. call[s] # None /\ call[s].step # "issued" /\ call[s].user \in Users
    BY <1>0, <1>5 DEF Login, Register, At, AuthInv, CallsKnow
  <2>2. CASE Answer(s, "refused") /\ UNCHANGED session
    BY <1>1, <2>1, <2>2 DEF Steps
  <2>3. CASE /\ session' = Append(session, FreshRow(call[s].user, 0))
             /\ Len(session) < MaxSessions /\ AnswerIssued(s)
    BY <2>1, <2>3, IssuingStaysExact
  <2> QED BY <1>5, <2>2, <2>3 DEF Login, Register
<1>6. CASE LoginReads(s) \/ ResetReads(s)
  <2>1. PICK step \in {"issuing", "resetting", "refused"} : Answer(s, step)
    BY <1>6 DEF LoginReads, ResetReads
  <2> QED BY <1>1, <1>6, <2>1 DEF LoginReads, ResetReads, Arrived, At, Steps
<1>7. CASE SignupReads(s) \/ LogoutReads(s)
  <2>1. PICK step \in {"registering", "revoking", "done", "refused"} : Answer(s, step)
    BY <1>7 DEF SignupReads, LogoutReads
  <2> QED BY <1>1, <1>7, <2>1 DEF SignupReads, LogoutReads, Arrived, At, Steps
<1>8. CASE RevokeSessionLineage(s) \/ Logout(s) \/ ResetPassword(s)
  BY <1>2, <1>8 DEF RevokeSessionLineage, Logout, ResetPassword, At
<1>9. CASE RequestFails(s)
  BY <1>1, <1>9 DEF RequestFails, Answered, Answers, Steps
<1> QED BY <1>3, <1>4, <1>5, <1>6, <1>7, <1>8, <1>9 DEF Serve

(* A new request carries the cookie, or nothing.                           *)
LEMMA SendingStaysExact ==
  ASSUME BrowserInv, Exact, UNCHANGED <<session, cookie>>,
         NEW s \in Slots, call[s] = None, NEW c \in Calls, c.step = "sent",
         c.token \in {0, cookie}, c.op = "refresh" => Unreplaced(c.token),
         call' = [call EXCEPT ![s] = c], RefreshIsAwaited'
  PROVE  Exact'
<1>0. call \in [Slots -> Calls \cup {None}]
  BY DEF BrowserInv, BrowserTypeOK, AuthTypeOK
<1>1. call'[s] = c /\ c # None /\ \A r \in Slots \ {s} : call'[r] = call[r]
  BY <1>0, NoCallAssumption
<1>2. \A t : Unreplaced(t)' <=> Unreplaced(t)
  BY DEF Unreplaced
<1>3. CookieIsCurrent'
  BY <1>1, <1>2 DEF Exact, CookieIsCurrent, At
<1>4. CallsAreCurrent'
  BY <1>1, <1>2 DEF Exact, CallsAreCurrent
<1>5. IssuedIsNew'
  BY <1>1, <1>2 DEF Exact, IssuedIsNew, At
<1>6. ParentsLink'
  BY DEF Exact, ParentsLink
<1> QED BY <1>3, <1>4, <1>5, <1>6 DEF Exact

(* An answer arrives, and with it the cookie it sets.                      *)
LEMMA FinishingStaysExact ==
  ASSUME BrowserInv, Exact, NEW s \in Slots, Finish(s),
         cookie' = CookieAfter(s) \/ (cookie' = cookie /\ call[s].op # "refresh"),
         RefreshIsAwaited'
  PROVE  Exact'
<1>0. call \in [Slots -> Calls \cup {None}]
  BY DEF BrowserInv, BrowserTypeOK, AuthTypeOK
<1>1. /\ call[s] # None /\ call'[s] = None /\ \A r \in Slots \ {s} : call'[r] = call[r]
      /\ UNCHANGED session
  BY <1>0 DEF Finish, Answered
<1>2. Unreplaced(cookie)' <=> Unreplaced(cookie')
  BY <1>1 DEF Unreplaced
<1>3. \A r \in Slots \ {s} : Unreplaced(call[r].token)' <=> Unreplaced(call[r].token)
  BY <1>1 DEF Unreplaced
<1>4. CookieIsCurrent'
  <2>1. CASE cookie' = call[s].token /\ At(s, "issued")
    BY <1>2, <2>1 DEF Exact, IssuedIsNew, CookieIsCurrent
  <2>2. CASE cookie' = 0
    BY <2>2 DEF CookieIsCurrent, Unreplaced
  <2>3. CASE cookie' = cookie /\ ~(At(s, "issued") /\ call[s].op = "refresh")
    BY <1>1, <1>2, <2>3 DEF Exact, CookieIsCurrent, At
  <2> QED BY <2>1, <2>2, <2>3 DEF CookieAfter, Token
<1>5. CallsAreCurrent'
  BY <1>1, <1>3 DEF Exact, CallsAreCurrent
<1>6. IssuedIsNew'
  <2>1. \A r \in Slots \ {s} : At(r, "issued") => call[r].token # cookie'
    BY <1>1 DEF Exact, IssuedIsNew, CookieAfter, Token
  <2> QED BY <1>1, <1>3, <2>1 DEF Exact, IssuedIsNew, At
<1>7. ParentsLink'
  BY <1>1 DEF Exact, ParentsLink
<1> QED BY <1>4, <1>5, <1>6, <1>7 DEF Exact

LEMMA BrowserStaysExact ==
  ASSUME NEW w, Tabs = {w}, BrowserInv, BrowserNext, losses' = 0, losses = 0 => Exact
  PROVE  Exact'
<1>0. /\ tab \in [Tabs -> TabStates] /\ call \in [Slots -> Calls \cup {None}]
      /\ w \in Tabs /\ tab[w] \in TabStates
      /\ losses \in Nat /\ FlightsMatch /\ AuthInv
  BY DEF BrowserInv, BrowserTypeOK, AuthTypeOK, AuthInv
<1>1. \A s \in Slots : (Exact /\ call[s] # None /\ call[s].op = "refresh")
         => tab[w].flight["refresh"] = s
  BY DEF Exact, RefreshIsAwaited
<1>2. (Exact /\ tab[w].flight["refresh"] = None) => Unreplaced(cookie)
  BY <1>1, AuthAssumption DEF Exact, CookieIsCurrent, At
<1>3. ASSUME Exact, UNCHANGED <<session, call, cookie>>, tab'[w].flight = tab[w].flight
      PROVE  Exact'
  BY <1>3 DEF Exact, RefreshIsAwaited, CookieIsCurrent, CallsAreCurrent, IssuedIsNew,
              ParentsLink, At, Unreplaced
<1>4. ASSUME Exact, NEW s \in FreeSlots, NEW op \in Ops, NEW n \in {0, cookie},
             NEW u \in Users \cup {None}, Send(s, op, n, u), UNCHANGED <<session, cookie>>,
             op = "refresh" => /\ tab[w].flight["refresh"] = None
                               /\ tab'[w].flight["refresh"] = s,
             op # "refresh" => tab'[w].flight["refresh"] = tab[w].flight["refresh"]
      PROVE  Exact'
  <2>0. s \in Slots /\ call[s] = None
    BY DEF FreeSlots
  <2>1. PICK c \in Calls : /\ c.op = op /\ c.token = n /\ c.step = "sent"
                           /\ call' = [call EXCEPT ![s] = c]
    BY <1>4, <2>0, SentCall
  <2>2. call'[s] = c /\ \A r \in Slots \ {s} : call'[r] = call[r]
    BY <1>0, <2>0, <2>1
  <2>3. RefreshIsAwaited'
    <3> SUFFICES ASSUME NEW r \in Slots, call'[r] # None, call'[r].op = "refresh"
                 PROVE  tab'[w].flight["refresh"] = r
      BY <1>0 DEF RefreshIsAwaited
    <3>1. CASE r = s
      BY <1>4, <2>1, <2>2, <3>1
    <3>2. CASE r # s
      <4>1. tab[w].flight["refresh"] = r
        BY <1>1, <1>4, <2>2, <3>2
      <4> QED BY <1>4, <4>1, AuthAssumption
    <3> QED BY <3>1, <3>2
  <2>4. c.op = "refresh" => Unreplaced(c.token)
    BY <1>2, <1>4, <2>1 DEF Unreplaced
  <2> QED BY <1>4, <2>0, <2>1, <2>3, <2>4, SendingStaysExact
<1>5. ASSUME Exact, NEW t \in TabStates, t.flight = tab[w].flight, RefreshSession(w, t),
             UNCHANGED <<session, cookie>>
      PROVE  Exact'
  <2>1. CASE tab' = [tab EXCEPT ![w] = t] /\ UNCHANGED call
    BY <1>0, <1>3, <1>5, <2>1
  <2>2. ASSUME t.flight["refresh"] = None, NEW s \in FreeSlots,
               Send(s, "refresh", cookie, None),
               tab' = [tab EXCEPT ![w] = Launch(t, "refresh", s)]
        PROVE  Exact'
    <3>1. tab'[w].flight["refresh"] = s
      BY <1>0, <2>2 DEF Launch, TabStates, Kinds
    <3> QED BY <1>4, <1>5, <2>2, <3>1 DEF Ops
  <2> QED BY <1>5, <2>1, <2>2 DEF RefreshSession
<1>6. ASSUME Exact, TabStep(w) PROVE Exact'
  <2>1. CASE Load(w)
    BY <1>0, <1>5, <1>6, <2>1 DEF Load
  <2>2. ASSUME NEW k \in Kinds, Hears(w, k) PROVE Exact'
    <3> DEFINE s == tab[w].flight[k]
    <3>1. s \in Slots /\ s # None /\ Finish(s) /\ cookie' = CookieAfter(s)
      BY <1>0, <2>2 DEF Hears, TabStates
    <3>2. \A j \in Kinds : tab'[w].flight[j] = IF j = k THEN None ELSE tab[w].flight[j]
      <4>1. At(s, "issued") \in BOOLEAN
        BY DEF At
      <4>2. /\ tab[w].flight[k] # None
            /\ tab' = [tab EXCEPT ![w] =
                         Landed(Heard(@, call[tab[w].flight[k]].op, At(s, "issued")), k)]
            /\ call' = [call EXCEPT ![tab[w].flight[k]] = None]
        BY <2>2 DEF Hears, Finish
      <4>3. \A v \in Tabs, j \in Kinds :
               tab'[v].flight[j] = IF v = w /\ j = k THEN None ELSE tab[v].flight[j]
        BY <1>0, <4>1, <4>2, TabLands
      <4> QED BY <1>0, <4>3
    <3>3. call'[s] = None /\ \A r \in Slots \ {s} : call'[r] = call[r]
      BY <1>0, <3>1 DEF Finish
    <3>4. RefreshIsAwaited'
      <4> SUFFICES ASSUME NEW r \in Slots, call'[r] # None, call'[r].op = "refresh"
                   PROVE  tab'[w].flight["refresh"] = r
        BY <1>0 DEF RefreshIsAwaited
      <4>1. r # s /\ tab[w].flight["refresh"] = r
        BY <1>1, <1>6, <3>3
      <4> QED BY <3>2, <4>1 DEF Kinds
    <3> QED BY <1>6, <3>1, <3>4, FinishingStaysExact
  <2>3. ASSUME NEW a \in Attempts \cup {"me"}, FirstRejected(w, a) PROVE Exact'
    <3> DEFINE t == [tab[w] EXCEPT !.attempt[a] = "waiting"]
    <3>1. t \in TabStates /\ t.flight = tab[w].flight
      BY <1>0 DEF TabStates, AttemptSteps
    <3>2. RefreshSession(w, t) /\ UNCHANGED <<session, cookie>>
      BY <2>3 DEF FirstRejected
    <3> HIDE DEF t
    <3> QED BY <1>5, <1>6, <3>1, <3>2
  <2>4. ASSUME NEW a \in Attempts \cup {"me"},
               Accepted(w, a) \/ SecondRejected(w, a) \/ AttemptFails(w, a)
        PROVE  Exact'
    <3>1. tab'[w].flight = tab[w].flight
      <4>1. CASE Accepted(w, a)
        BY <1>0, <4>1 DEF Accepted, TabStates
      <4>2. CASE SecondRejected(w, a)
        BY <1>0, <4>2 DEF SecondRejected, TabStates, ClearSession
      <4>3. CASE AttemptFails(w, a)
        BY <1>0, <4>3 DEF AttemptFails, TabStates, ClearSession
      <4> QED BY <2>4, <4>1, <4>2, <4>3
    <3>2. UNCHANGED <<session, call, cookie>>
      BY <2>4 DEF Accepted, SecondRejected, AttemptFails
    <3> QED BY <1>3, <1>6, <3>1, <3>2
  <2> QED BY <1>6, <2>1, <2>2, <2>3, <2>4 DEF TabStep
<1>7. ASSUME Exact, losses = 0, Reader(w) PROVE Exact'
  <2>1. ASSUME NEW k \in {"in", "out"}, NEW op \in Ops \ {"refresh"}, NEW n \in {0, cookie},
               NEW u \in Users \cup {None}, NEW s \in FreeSlots, Send(s, op, n, u),
               tab' = [tab EXCEPT ![w] = Launch(@, k, s)], UNCHANGED <<session, cookie>>
        PROVE  Exact'
    <3>1. tab'[w].flight["refresh"] = tab[w].flight["refresh"]
      BY <1>0, <2>1 DEF Launch, TabStates, Kinds
    <3> QED BY <1>4, <1>7, <2>1, <3>1
  <2>2. ASSUME NEW op \in {"login", "signup"}, NEW u \in Users, SignIn(w, op, u) PROVE Exact'
    <3>1. op \in Ops \ {"refresh"} /\ UNCHANGED <<session, cookie>>
      BY <2>2 DEF Ops, SignIn
    <3>2. PICK s \in FreeSlots : Send(s, op, 0, u) /\ tab' = [tab EXCEPT ![w] = Launch(@, "in", s)]
      BY <2>2 DEF SignIn
    <3> QED BY <2>1, <3>1, <3>2
  <2>3. CASE SignOut(w)
    <3>1. "logout" \in Ops \ {"refresh"} /\ UNCHANGED <<session, cookie>>
      BY <2>3 DEF Ops, SignOut
    <3>2. PICK s \in FreeSlots : /\ Send(s, "logout", cookie, None)
                                 /\ tab' = [tab EXCEPT ![w] = Launch(@, "out", s)]
      BY <2>3 DEF SignOut
    <3> QED BY <2>1, <3>1, <3>2
  <2>4. ASSUME NEW a \in Attempts, Attempt(w, a) PROVE Exact'
    <3>1. tab'[w].flight = tab[w].flight /\ UNCHANGED <<session, call, cookie>>
      BY <1>0, <2>4 DEF Attempt, TabStates
    <3> QED BY <1>3, <1>7, <3>1
  <2>5. ~Reload(w) /\ \A k \in Kinds : ~Loses(w, k)
    BY <1>7 DEF Reload, Loses
  <2> QED BY <1>7, <2>2, <2>3, <2>4, <2>5 DEF Reader
<1>8. ASSUME Exact, NEW s \in Slots, ServeStep(s) PROVE Exact'
  BY <1>8, ServingStaysExact DEF ServeStep
<1>9. ASSUME Exact, NEW s \in Slots, OrphanAnswered(s) PROVE Exact'
  <2>1. /\ \A k \in Kinds : tab[w].flight[k] # s
        /\ Finish(s) /\ cookie' \in {cookie, CookieAfter(s)} /\ UNCHANGED tab
    BY <1>0, <1>9 DEF OrphanAnswered, Orphans
  <2>2. call[s] # None /\ call[s].op # "refresh"
    BY <1>1, <1>9, <2>1 DEF Finish, Answered, Kinds
  <2>3. \A r \in Slots : call'[r] # None => call'[r] = call[r]
    BY <1>0, <2>1 DEF Finish
  <2>4. RefreshIsAwaited'
    BY <1>9, <2>1, <2>3 DEF Exact, RefreshIsAwaited
  <2> QED BY <1>9, <2>1, <2>2, <2>4, FinishingStaysExact
<1>10. ASSUME Exact, Elsewhere PROVE Exact'
  <2>1. ASSUME NEW s \in FreeSlots, NEW u \in Users, ConfirmReset(s, u) PROVE Exact'
    <3>1. UNCHANGED <<session, cookie, tab>>
      BY <1>10, <2>1 DEF Elsewhere, ConfirmReset
    <3> QED BY <1>4, <1>10, <2>1, <3>1 DEF ConfirmReset, Ops
  <2>2. ASSUME NEW u \in Users, RequestPasswordReset(u) PROVE Exact'
    BY <1>3, <1>10, <2>2 DEF Elsewhere, RequestPasswordReset
  <2> QED BY <1>10, <2>1, <2>2 DEF Elsewhere
<1>11. losses = 0
  <2>1. losses' = losses \/ losses' = losses + 1
    BY DEF BrowserNext, TabStep, Reader, Load, Hears, FirstRejected, SecondRejected, Accepted,
           AttemptFails, Attempt, SignIn, SignOut, Reload, Loses, ServeStep, OrphanAnswered,
           Elsewhere
  <2> QED BY <1>0, <2>1
<1> QED BY <1>6, <1>7, <1>8, <1>9, <1>10, <1>11 DEF BrowserNext

LEMMA NextOneTabInv ==
  ASSUME NEW w, Tabs = {w}
  PROVE  OneTabInv /\ [BrowserNext]_browserVars => OneTabInv'
<1> SUFFICES ASSUME OneTabInv, [BrowserNext]_browserVars PROVE OneTabInv'
  OBVIOUS
<1>1. BrowserInv'
  BY NextBrowserInv DEF OneTabInv
<1>2. CASE BrowserNext
  BY <1>1, <1>2, BrowserStaysExact DEF OneTabInv
<1>3. CASE UNCHANGED browserVars
  BY <1>1, <1>3 DEF OneTabInv, browserVars, Exact, RefreshIsAwaited, CookieIsCurrent,
                    CallsAreCurrent, IssuedIsNew, ParentsLink, At, Unreplaced
<1> QED BY <1>2, <1>3

(* As long as no answer is lost, the API never takes a refresh of a reader *)
(* with one tab for the reuse of a stolen token, however its sign-ins,     *)
(* sign-outs, password resets and retries interleave.  (Two tabs share a   *)
(* cookie and not a refresh in flight: the code makes no such promise.)    *)
THEOREM OneTabNeverReplays ==
  ASSUME NEW w, Tabs = {w}
  PROVE  BrowserSpec => []NoFalseReplay
<1>1. OneTabInv => NoFalseReplay
  BY DEF OneTabInv, Exact, CallsAreCurrent, NoFalseReplay, At
<1> QED BY <1>1, InitOneTabInv, NextOneTabInv, PTL DEF BrowserSpec

(* And the loop of _revoke_session_lineage would then reach every session  *)
(* that a token led to, and no other: no link of the chain is overwritten. *)
THEOREM OneTabLineageIsExact ==
  ASSUME NEW w, Tabs = {w}
  PROVE  BrowserSpec => []LineageIsExact
<1>1. ASSUME BrowserInv, ParentsLink, NEW t \in DOMAIN session
      PROVE  Lineage(t) = Descendants(t)
  <2>1. Lineage(t) \subseteq Descendants(t)
    BY <1>1, LinksBoundTheWalk DEF BrowserInv, WalkStaysInLineage
  <2>2. \A S \in SUBSET DOMAIN session :
           (\A e \in ReplacedBy : e[1] \in S => e[2] \in S)
              => \A e \in ExchangedFor : e[1] \in S => e[2] \in S
    <3> SUFFICES ASSUME NEW S \in SUBSET DOMAIN session,
                        \A e \in ReplacedBy : e[1] \in S => e[2] \in S,
                        NEW e \in ExchangedFor, e[1] \in S
                 PROVE  e[2] \in S
      OBVIOUS
    <3>1. PICK u \in DOMAIN session : e = <<session[u].parent, u>>
      BY DEF ExchangedFor
    <3>2. session[u].parent \in DOMAIN session /\ session[session[u].parent].replacedBy = u
      <4>1. 0 \notin DOMAIN session
        BY <1>1 DEF BrowserInv, BrowserTypeOK, AuthTypeOK
      <4> QED BY <1>1, <3>1, <4>1 DEF ParentsLink
    <3>3. u # 0
      BY <1>1 DEF BrowserInv, BrowserTypeOK, AuthTypeOK
    <3>4. <<session[u].parent, u>> \in ReplacedBy
      BY <3>2, <3>3 DEF ReplacedBy
    <3> QED BY <3>1, <3>4
  <2>3. Descendants(t) \subseteq Lineage(t)
    BY <2>2 DEF Descendants, Lineage, Reached
  <2> QED BY <2>1, <2>3
<1>2. OneTabInv => LineageIsExact
  BY <1>1 DEF OneTabInv, Exact, LineageIsExact
<1> QED BY <1>2, InitOneTabInv, NextOneTabInv, PTL DEF BrowserSpec
=============================================================================
