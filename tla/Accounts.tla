------------------------------ MODULE Accounts ------------------------------
(***************************************************************************)
(* The requests that change the directory: POST /auth/signup and the       *)
(* bootstrap command (register, bootstrap_admin), POST /auth/invites and   *)
(* POST /auth/invites/accept (auth/service.py, api/routes/auth.py).        *)
(*                                                                         *)
(* A request reads without locks and commits everything it writes at once. *)
(* What it read may be out of date by then; what stops it are the unique   *)
(* constraints on users.email and on (organization_id, user_id) of         *)
(* memberships: the commit fails, the request ends in an error and nothing *)
(* of it remains.                                                          *)
(***************************************************************************)
EXTENDS Directory

CONSTANT Request    \* requests under way at the same time

VARIABLES
  expired,  \* invitations past expires_at
  call      \* the request in each slot

accountsVars == <<directoryVars, expired, call>>

Step ==
  { "idle",
    "founding",   \* the address was free when it looked
    "invited",    \* the invitation was valid when it looked
    "enrolling",  \* and its address had no account
    "known",      \* or had one, and the password was right
    "joining",    \* which was not a member
    "closing" }   \* or was one already

Call == [at : Step, address : Address \cup {None}, invite : Invite \cup {None}]
Idle == [at |-> "idle", address |-> None, invite |-> None]

AccountsTypeOK ==
  /\ DirectoryTypeOK
  /\ expired \subseteq Invite
  /\ call \in [Request -> Call]
  /\ \A p \in Request :
       /\ call[p].at = "founding" => call[p].address \in Address
       /\ call[p].at \notin {"idle", "founding"} =>
            call[p].invite \in Invite /\ invite[call[p].invite] # NoInvite
       /\ call[p].at \in {"known", "joining", "closing"} =>
            invite[call[p].invite].address \in account
       /\ call[p].at = "closing" =>
            Belongs(invite[call[p].invite].org, invite[call[p].invite].address)

AccountsInit ==
  /\ DirectoryInit
  /\ expired = {}
  /\ call = [p \in Request |-> Idle]

At(p, s) == call[p].at = s
Go(p, s) == call' = [call EXCEPT ![p].at = s]
Answer(p) == call' = [call EXCEPT ![p] = Idle]
Asked(p) == invite[call[p].invite]

-----------------------------------------------------------------------------
(* register, bootstrap_admin *)
FoundReads(p, a) ==
  /\ At(p, "idle")
  /\ a \notin account
  /\ call' = [call EXCEPT ![p] = [at |-> "founding", address |-> a, invite |-> None]]
  /\ UNCHANGED <<directoryVars, expired>>

FoundCommits(p, o) ==
  /\ At(p, "founding")
  /\ Found(o, call[p].address)
  /\ Answer(p)
  /\ UNCHANGED expired

(* create_invite: roles are never taken back, so that what the principal   *)
(* was when it was read is what it is at the commit.                       *)
CreateInvite(i, o, by, a, role) ==
  /\ Issue(i, o, by, a, role)
  /\ UNCHANGED <<expired, call>>

Expire(i) ==
  /\ invite[i] # NoInvite /\ i \notin expired
  /\ expired' = expired \cup {i}
  /\ UNCHANGED <<directoryVars, call>>

-----------------------------------------------------------------------------
(* accept_invite *)
AcceptReads(p, i) ==
  /\ At(p, "idle")
  /\ invite[i] # NoInvite /\ ~invite[i].accepted /\ i \notin expired
  /\ call' = [call EXCEPT ![p] = [at |-> "invited", address |-> None, invite |-> i]]
  /\ UNCHANGED <<directoryVars, expired>>

(* Mutant: the invited address is taken for a known one. *)
HasAccountAlways(a) == TRUE

HasAccount(a) == a \in account

FindUser(p) ==
  /\ At(p, "invited")
  /\ Go(p, IF HasAccount(Asked(p).address) THEN "known" ELSE "enrolling")
  /\ UNCHANGED <<directoryVars, expired>>

(* Mutant: the organization is left out of the query. *)
IsMemberSomewhere(o, a) == \E any \in Org : Belongs(any, a)

IsMember(o, a) == Belongs(o, a)

FindMembership(p) ==
  /\ At(p, "known")
  /\ Go(p, IF IsMember(Asked(p).org, Asked(p).address) THEN "closing" ELSE "joining")
  /\ UNCHANGED <<directoryVars, expired>>

(* Mutant: no unique constraints; the row written last is the one found. *)
ConflictsNever(p) == FALSE

(* The unique constraints at the commit. *)
Conflicts(p) ==
  \/ At(p, "enrolling") /\ Asked(p).address \in account
  \/ At(p, "joining") /\ Belongs(Asked(p).org, Asked(p).address)

(* The user if there was none, the membership and accepted_at, at once. *)
AcceptCommits(p) ==
  LET row == Asked(p) IN
  /\ At(p, "enrolling") \/ At(p, "joining")
  /\ ~Conflicts(p)
  /\ account' = account \cup {row.address}
  /\ member' = [member EXCEPT ![row.org][row.address] = row.role]
  /\ invite' = Accepted(call[p].invite)
  /\ Answer(p)
  /\ UNCHANGED <<founder, expired>>

(* A member accepts: only accepted_at is written. *)
CloseCommits(p) ==
  /\ At(p, "closing")
  /\ invite' = Accepted(call[p].invite)
  /\ Answer(p)
  /\ UNCHANGED <<account, member, founder, expired>>

-----------------------------------------------------------------------------
(* A wrong password, a conflict or a lost connection: nothing is written. *)
Refused(p) ==
  /\ ~At(p, "idle")
  /\ Answer(p)
  /\ UNCHANGED <<directoryVars, expired>>

AccountsNext ==
  \/ \E p \in Request :
       \/ \E a \in Address : FoundReads(p, a)
       \/ \E o \in Org : FoundCommits(p, o)
       \/ \E i \in Invite : AcceptReads(p, i)
       \/ FindUser(p) \/ FindMembership(p) \/ AcceptCommits(p) \/ CloseCommits(p)
       \/ Refused(p)
  \/ \E i \in Invite :
       \/ Expire(i)
       \/ \E o \in Org, by, a \in Address, role \in InviteRole : CreateInvite(i, o, by, a, role)

AccountsSpec == AccountsInit /\ [][AccountsNext]_accountsVars

-----------------------------------------------------------------------------
(* service.py: whatever requests race, and whatever they read before the   *)
(* others committed, the directory only ever takes the steps promised.     *)
ImplementsDirectory == DirectorySpec
=============================================================================
