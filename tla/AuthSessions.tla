---------------------------- MODULE AuthSessions ----------------------------
(***************************************************************************)
(* Refresh sessions of the API (backend/app/auth/service.py, AuthService)  *)
(* and the routes that lead to them (backend/app/api/routes/auth.py).      *)
(*                                                                         *)
(* Every request has a database session of its own, reads the rows it      *)
(* judges without locking them, and commits later.  A request is therefore *)
(* cut in two: a *Reads action, which judges what is committed, and a      *)
(* commit, which writes.  The writes of two requests to one row are        *)
(* serialised by the row's lock, and what the judged rows have become in   *)
(* the meantime is not looked at again.                                    *)
(*                                                                         *)
(* A raw token is the number of its row; 0 stands for "no cookie".  The    *)
(* field `parent' is not a column: it remembers which token a session was  *)
(* issued in exchange for.                                                 *)
(***************************************************************************)
EXTENDS Naturals, Sequences, FiniteSets

CONSTANTS Users,        \* mailboxes, with or without an account
          Slots,        \* requests the API works on at the same time
          None,         \* no user, no slot
          MaxSessions   \* bound: rows of refresh_sessions

ASSUME AuthAssumption == /\ MaxSessions \in Nat \ {0}
                         /\ None \notin Users
                         /\ None \notin Slots

VARIABLES session,      \* refresh_sessions, in the order of their commits
          account,      \* the users that have an account
          resetLink,    \* the password_reset_tokens row of each user
          call          \* the request in each slot

authVars == <<session, account, resetLink, call>>

Rows == [user : Users, revoked : BOOLEAN,
         replacedBy : 0..MaxSessions, parent : 0..MaxSessions]

Ops == {"refresh", "login", "signup", "logout", "reset"}

\* "sent": on its way to the route; then what the request read and is about
\* to commit; then the answer.
Steps == {"sent", "rotating", "replayed", "issuing", "registering",
          "revoking", "resetting", "issued", "done", "refused"}

Answers == {"issued", "done", "refused"}

Calls == [op : Ops, step : Steps, token : 0..MaxSessions, user : Users \cup {None}]

ASSUME NoCallAssumption == None \notin Calls

FreeSlots == {s \in Slots : call[s] = None}

Token(s) == call[s].token

At(s, step) == call[s] # None /\ call[s].step = step

Arrived(s, op) == At(s, "sent") /\ call[s].op = op

Answered(s) == call[s] # None /\ call[s].step \in Answers

Answer(s, step) == call' = [call EXCEPT ![s].step = step]

AnswerIssued(s) ==
    call' = [call EXCEPT ![s].step = "issued", ![s].token = Len(session) + 1]

-----------------------------------------------------------------------------
(* _issue_session: a new row, whose raw token goes into the cookie.        *)
FreshRow(u, parent) ==
    [user |-> u, revoked |-> FALSE, replacedBy |-> 0, parent |-> parent]

(* A request reaches the API, with the token of its cookie if it has one.  *)
Send(s, op, t, u) ==
    /\ call[s] = None
    /\ call' = [call EXCEPT ![s] = [op |-> op, step |-> "sent", token |-> t,
                                    user |-> u]]

(* The rows reached from row t over a set E of links between rows.         *)
Reached(t, E) ==
    {u \in DOMAIN session :
       \A S \in SUBSET DOMAIN session :
          (t \in S /\ \A e \in E : e[1] \in S => e[2] \in S) => u \in S}

ReplacedBy == {<<t, session[t].replacedBy>> :
                  t \in {u \in DOMAIN session : session[u].replacedBy # 0}}

ExchangedFor == {<<session[u].parent, u>> : u \in DOMAIN session}

(* _revoke_session_lineage: the rows its loop visits from t on.            *)
Lineage(t) == Reached(t, ReplacedBy)

(* The sessions that were issued in exchange for t, or for one of those.   *)
Descendants(t) == Reached(t, ExchangedFor)

Revoke(S) ==
    session' = [t \in DOMAIN session |->
                   IF t \in S THEN [session[t] EXCEPT !.revoked = TRUE]
                   ELSE session[t]]

-----------------------------------------------------------------------------
(* refresh, up to the point where it has judged the row of its token, which *)
(* may also have expired.  The user and the membership it looks up always  *)
(* exist: nothing removes one.                                             *)
Reused(t) == t # 0 /\ session[t].revoked /\ session[t].replacedBy # 0

Usable(t) == t # 0 /\ ~session[t].revoked

RefreshReads(s) ==
    /\ Arrived(s, "refresh")
    /\ \E step \in {"replayed", "rotating", "refused"} :
          /\ step = "replayed" <=> Reused(Token(s))
          /\ step = "rotating" => Usable(Token(s))
          /\ Answer(s, step)
    /\ UNCHANGED <<session, account, resetLink>>

\* Mutants of Rotated: the link to the successor is forgotten, or is set
\* before the successor has its row.
RotatedUnlinked(t) ==
    Append([session EXCEPT ![t].revoked = TRUE], FreshRow(session[t].user, t))

RotatedEarly(t) ==
    Append([session EXCEPT ![t].revoked = TRUE, ![t].replacedBy = Len(session)],
           FreshRow(session[t].user, t))

(* The rest of refresh: revoke the row that was read, issue a session, and *)
(* point the row to it, whatever other requests made of the row.           *)
Rotated(t) ==
    Append([session EXCEPT ![t].revoked = TRUE,
                           ![t].replacedBy = Len(session) + 1],
           FreshRow(session[t].user, t))

Rotate(s) ==
    /\ At(s, "rotating")
    /\ Len(session) < MaxSessions
    /\ session' = Rotated(Token(s))
    /\ AnswerIssued(s)
    /\ UNCHANGED <<account, resetLink>>

(* The reuse branch of refresh: the lineage is revoked, the answer is 401. *)
(* Revoking a row commutes with every other write, so a row that is        *)
(* rotated while the loop runs is one that is rotated after its commit.    *)
RevokeSessionLineage(s) ==
    /\ At(s, "replayed")
    /\ Revoke(Lineage(Token(s)))
    /\ Answer(s, "refused")
    /\ UNCHANGED <<account, resetLink>>

-----------------------------------------------------------------------------
(* login: the password is right or it is not; there is no account without  *)
(* a membership.                                                           *)
LoginReads(s) ==
    /\ Arrived(s, "login")
    /\ \E step \in {"issuing", "refused"} :
          /\ step = "issuing" => call[s].user \in account
          /\ Answer(s, step)
    /\ UNCHANGED <<session, account, resetLink>>

Login(s) ==
    /\ At(s, "issuing")
    /\ Len(session) < MaxSessions
    /\ session' = Append(session, FreshRow(call[s].user, 0))
    /\ AnswerIssued(s)
    /\ UNCHANGED <<account, resetLink>>

(* register: a taken address is refused; an address that was taken since   *)
(* it was looked up is refused by the unique index when it is written.     *)
SignupReads(s) ==
    /\ Arrived(s, "signup")
    /\ Answer(s, IF call[s].user \in account THEN "refused" ELSE "registering")
    /\ UNCHANGED <<session, account, resetLink>>

Register(s) ==
    /\ At(s, "registering")
    /\ \/ /\ call[s].user \in account
          /\ Answer(s, "refused")
          /\ UNCHANGED <<session, account>>
       \/ /\ call[s].user \notin account
          /\ Len(session) < MaxSessions
          /\ account' = account \cup {call[s].user}
          /\ session' = Append(session, FreshRow(call[s].user, 0))
          /\ AnswerIssued(s)
    /\ UNCHANGED resetLink

-----------------------------------------------------------------------------
(* logout: nothing to do without a cookie or for a revoked session.        *)
LogoutReads(s) ==
    /\ Arrived(s, "logout")
    /\ Answer(s, IF Token(s) # 0 /\ ~session[Token(s)].revoked
                 THEN "revoking" ELSE "done")
    /\ UNCHANGED <<session, account, resetLink>>

Logout(s) ==
    /\ At(s, "revoking")
    /\ Revoke({Token(s)})
    /\ Answer(s, "done")
    /\ UNCHANGED <<account, resetLink>>

-----------------------------------------------------------------------------
(* request_password_reset: a link is mailed to an address with an account. *)
RequestPasswordReset(u) ==
    /\ u \in account
    /\ resetLink[u] = "none"
    /\ resetLink' = [resetLink EXCEPT ![u] = "mailed"]
    /\ UNCHANGED <<session, account, call>>

ConfirmReset(s, u) ==
    /\ resetLink[u] # "none"
    /\ Send(s, "reset", 0, u)
    /\ UNCHANGED <<session, account, resetLink>>

(* reset_password: the link is judged (it may have expired), then every    *)
(* session of the user that is not revoked is, and the link is spent.      *)
ResetReads(s) ==
    /\ Arrived(s, "reset")
    /\ \E step \in {"resetting", "refused"} :
          /\ step = "resetting" => resetLink[call[s].user] = "mailed"
          /\ Answer(s, step)
    /\ UNCHANGED <<session, account, resetLink>>

ResetPassword(s) ==
    /\ At(s, "resetting")
    /\ Revoke({t \in DOMAIN session : session[t].user = call[s].user})
    /\ resetLink' = [resetLink EXCEPT ![call[s].user] = "consumed"]
    /\ Answer(s, "done")
    /\ UNCHANGED account

-----------------------------------------------------------------------------
(* A request is refused by the rate limiter or the origin check, or raises *)
(* before its commit; the transaction is rolled back.                      *)
RequestFails(s) ==
    /\ call[s] # None /\ ~Answered(s)
    /\ Answer(s, "refused")
    /\ UNCHANGED <<session, account, resetLink>>

Serve(s) == \/ RefreshReads(s) \/ Rotate(s) \/ RevokeSessionLineage(s)
            \/ LoginReads(s) \/ Login(s) \/ SignupReads(s) \/ Register(s)
            \/ LogoutReads(s) \/ Logout(s)
            \/ ResetReads(s) \/ ResetPassword(s)

(* The answer leaves the API.                                              *)
Finish(s) == /\ Answered(s)
             /\ call' = [call EXCEPT ![s] = None]
             /\ UNCHANGED <<session, account, resetLink>>

(* Any client: it may present any token that was ever issued, again.       *)
AnyClient(s) ==
    /\ \E op \in Ops \ {"reset"}, t \in 0..Len(session), u \in Users \cup {None} :
          /\ op \in {"login", "signup"} => u # None
          /\ Send(s, op, t, u)
    /\ UNCHANGED <<session, account, resetLink>>

AuthNext ==
    \/ \E s \in Slots : AnyClient(s) \/ Serve(s) \/ RequestFails(s) \/ Finish(s)
    \/ \E s \in Slots, u \in Users : ConfirmReset(s, u)
    \/ \E u \in Users : RequestPasswordReset(u)

(* Some readers have an account, and perhaps a session from an earlier     *)
(* visit.                                                                  *)
AuthInit ==
    /\ account \in SUBSET Users
    /\ session \in {<<>>} \cup {<<FreshRow(u, 0)>> : u \in account}
    /\ resetLink = [u \in Users |-> "none"]
    /\ call = [s \in Slots |-> None]

AuthSpec == AuthInit /\ [][AuthNext]_authVars

-----------------------------------------------------------------------------
AuthTypeOK ==
    /\ session \in Seq(Rows) /\ Len(session) <= MaxSessions
    /\ account \subseteq Users
    /\ resetLink \in [Users -> {"none", "mailed", "consumed"}]
    /\ call \in [Slots -> Calls \cup {None}]

(* Whatever requests race and whichever tokens they present, the loop that *)
(* answers a replay visits no session but those issued in exchange for the *)
(* replayed one: the reader's other devices stay signed in.                *)
WalkStaysInLineage ==
    \A t \in DOMAIN session : Lineage(t) \subseteq Descendants(t)
=============================================================================
