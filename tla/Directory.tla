----------------------------- MODULE Directory ------------------------------
(***************************************************************************)
(* Who belongs to which organization (db/models.py: Organization, User,    *)
(* Membership, Invite), as auth/service.py promises it: an organization is *)
(* founded together with its administrator, an administrator invites an    *)
(* address, and an invitation is accepted once.  Each is one step here;    *)
(* module Accounts has the requests that do it.  No code removes a user,   *)
(* a membership or a role.                                                 *)
(***************************************************************************)
CONSTANTS Org, Address, Invite, None

ASSUME DirectoryAssumption == None \notin Address

VARIABLES
  account,  \* addresses with a row in users
  member,   \* memberships.role by organization and address, "none" without a row
  invite,   \* invites rows
  founder   \* history: whose registration created the organization

directoryVars == <<account, member, invite, founder>>

InviteRole == {"member", "admin"}
NoInvite == [org |-> None, address |-> None, role |-> "member", by |-> None, accepted |-> FALSE]
InviteRow == [org : Org, address : Address, role : InviteRole, by : Address,
              accepted : BOOLEAN]

DirectoryTypeOK ==
  /\ account \subseteq Address
  /\ member \in [Org -> [Address -> InviteRole \cup {"none"}]]
  /\ invite \in [Invite -> InviteRow \cup {NoInvite}]
  /\ founder \in [Org -> Address \cup {None}]

DirectoryInit ==
  /\ account = {}
  /\ member = [o \in Org |-> [a \in Address |-> "none"]]
  /\ invite = [i \in Invite |-> NoInvite]
  /\ founder = [o \in Org |-> None]

Belongs(o, a) == member[o][a] # "none"

(* Mutant: the role column's default. *)
FounderRoleDefault == "member"

(* "The registrant administers the organization they just created." *)
FounderRole == "admin"

(* register, bootstrap_admin *)
Found(o, a) ==
  /\ founder[o] = None
  /\ a \notin account
  /\ account' = account \cup {a}
  /\ member' = [member EXCEPT ![o][a] = FounderRole]
  /\ founder' = [founder EXCEPT ![o] = a]
  /\ UNCHANGED invite

(* Mutant: any member may invite. *)
MayInviteAnyone(o, a) == Belongs(o, a)

(* require_organization_admin *)
MayInvite(o, a) == member[o][a] = "admin"

(* create_invite *)
Issue(i, o, by, a, role) ==
  /\ invite[i] = NoInvite
  /\ MayInvite(o, by)
  /\ invite' = [invite EXCEPT ![i] =
       [org |-> o, address |-> a, role |-> role, by |-> by, accepted |-> FALSE]]
  /\ UNCHANGED <<account, member, founder>>

Accepted(i) == [invite EXCEPT ![i].accepted = TRUE]

(* The membership of an accepted invitation; one that exists is kept. *)
Joined(o, a, role) == [member EXCEPT ![o][a] = IF @ = "none" THEN role ELSE @]

(* accept_invite *)
Join(i) ==
  /\ invite[i] # NoInvite /\ ~invite[i].accepted
  /\ account' = account \cup {invite[i].address}
  /\ member' = Joined(invite[i].org, invite[i].address, invite[i].role)
  /\ invite' = Accepted(i)
  /\ UNCHANGED founder

DirectoryNext ==
  \/ \E o \in Org, a \in Address : Found(o, a)
  \/ \E i \in Invite, o \in Org, by, a \in Address, role \in InviteRole :
       Issue(i, o, by, a, role)
  \/ \E i \in Invite : Join(i)

DirectorySpec == DirectoryInit /\ [][DirectoryNext]_directoryVars

-----------------------------------------------------------------------------
(* Properties *)

(* accept_invite: an invitation that counts as accepted has made its       *)
(* address a member; it is one-time, so nothing else could make up for it. *)
AcceptedMeansMember ==
  \A i \in Invite :
    invite[i].accepted => Belongs(invite[i].org, invite[i].address)

(* register ("there is nobody else who could") and login, which refuses a  *)
(* user without a membership: every user belongs somewhere, every member   *)
(* is a user, and every organization keeps the administrator it began with.*)
NobodyIsHomeless ==
  /\ \A a \in account : \E o \in Org : Belongs(o, a)
  /\ \A o \in Org, a \in Address : Belongs(o, a) =>
       /\ a \in account
       /\ founder[o] # None /\ member[o][founder[o]] = "admin"

(* routes/auth.py, create_invite, and accept_invite: whoever administers   *)
(* an organization founded it or accepted an invitation to administer it   *)
(* from another of its administrators.                                     *)
AdminsAreAppointed ==
  \A o \in Org, a \in Address : member[o][a] = "admin" =>
    \/ founder[o] = a
    \/ \E i \in Invite :
         /\ invite[i].accepted /\ invite[i].role = "admin"
         /\ invite[i].org = o /\ invite[i].address = a
         /\ invite[i].by # a /\ member[o][invite[i].by] = "admin"
=============================================================================
