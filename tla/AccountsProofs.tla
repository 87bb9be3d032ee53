--------------------------- MODULE AccountsProofs ---------------------------
(***************************************************************************)
(* Proofs about Directory and Accounts, for any number of organizations,   *)
(* addresses, invitations and requests.                                    *)
(*                                                                         *)
(* The three invariants of Directory are inductive together with Vouched:  *)
(* whoever issued an invitation administers its organization still, so     *)
(* that the organization of an invitation has been founded.  A request of  *)
(* Accounts takes a step of Directory because of two of them: if the       *)
(* invitation was accepted meanwhile, then its address is a member, hence  *)
(* a user, and the unique constraints let the commit through only when it  *)
(* writes nothing but accepted_at.                                         *)
(***************************************************************************)
EXTENDS Accounts, TLAPS

Vouched ==
  \A i \in Invite : invite[i] # NoInvite => MayInvite(invite[i].org, invite[i].by)

DirectoryInv == AcceptedMeansMember /\ NobodyIsHomeless /\ AdminsAreAppointed /\ Vouched

(* A row of invites that is not missing has the columns of one. *)
LEMMA RowIsTyped ==
  ASSUME DirectoryTypeOK, NEW i \in Invite, invite[i] # NoInvite
  PROVE  /\ invite[i] \in InviteRow
         /\ invite[i].org \in Org /\ invite[i].address \in Address
         /\ invite[i].role \in InviteRole /\ invite[i].by \in Address
         /\ invite[i].accepted \in BOOLEAN
  BY DEF DirectoryTypeOK, InviteRow

(* An accepted row is not a missing one. *)
LEMMA AcceptedExists ==
  ASSUME DirectoryTypeOK, NEW i \in Invite, invite[i].accepted
  PROVE  invite[i] # NoInvite
  BY DEF NoInvite

(* Founding, issuing and joining keep the directory well typed. *)
LEMMA DirectoryTypeStep ==
  DirectoryTypeOK /\ [DirectoryNext]_directoryVars => DirectoryTypeOK'
<1> SUFFICES ASSUME DirectoryTypeOK, [DirectoryNext]_directoryVars PROVE DirectoryTypeOK'
  OBVIOUS
<1>1. CASE UNCHANGED directoryVars
  BY <1>1 DEF DirectoryTypeOK, directoryVars
<1>2. ASSUME NEW o \in Org, NEW a \in Address, Found(o, a) PROVE DirectoryTypeOK'
  <2>1. member' \in [Org -> [Address -> InviteRole \cup {"none"}]]
    BY <1>2 DEF Found, DirectoryTypeOK, FounderRole, InviteRole
  <2> QED BY <1>2, <2>1 DEF Found, DirectoryTypeOK
<1>3. ASSUME NEW i \in Invite, NEW o \in Org, NEW by \in Address, NEW a \in Address,
             NEW role \in InviteRole, Issue(i, o, by, a, role)
      PROVE  DirectoryTypeOK'
  BY <1>3 DEF Issue, DirectoryTypeOK, InviteRow
<1>4. ASSUME NEW i \in Invite, Join(i) PROVE DirectoryTypeOK'
  <2>1. invite[i] \in InviteRow /\ invite[i].org \in Org /\ invite[i].address \in Address
        /\ invite[i].role \in InviteRole
    BY <1>4, RowIsTyped DEF Join
  <2>2. invite' \in [Invite -> InviteRow \cup {NoInvite}]
    <3>1. [invite[i] EXCEPT !.accepted = TRUE] \in InviteRow
      BY <2>1 DEF InviteRow
    <3> QED BY <1>4, <3>1 DEF Join, Accepted, DirectoryTypeOK
  <2>3. member' \in [Org -> [Address -> InviteRole \cup {"none"}]]
    BY <1>4, <2>1 DEF Join, Joined, DirectoryTypeOK
  <2> QED BY <1>4, <2>1, <2>2, <2>3 DEF Join, DirectoryTypeOK
<1> QED BY <1>1, <1>2, <1>3, <1>4 DEF DirectoryNext

(* The three invariants and Vouched are preserved by every step. *)
LEMMA DirectoryInvStep ==
  DirectoryTypeOK /\ DirectoryInv /\ [DirectoryNext]_directoryVars => DirectoryInv'
<1> SUFFICES ASSUME DirectoryTypeOK, DirectoryInv, [DirectoryNext]_directoryVars
             PROVE  DirectoryInv'
  OBVIOUS
<1> USE DirectoryAssumption
<1>1. CASE UNCHANGED directoryVars
  BY <1>1 DEF DirectoryInv, AcceptedMeansMember, NobodyIsHomeless, AdminsAreAppointed, Vouched,
              MayInvite, Belongs, directoryVars
<1>2. ASSUME NEW o \in Org, NEW a \in Address, Found(o, a) PROVE DirectoryInv'
  <2>1. \A q \in Org, b \in Address :
          member'[q][b] = IF q = o /\ b = a THEN "admin" ELSE member[q][b]
    BY <1>2 DEF Found, FounderRole, DirectoryTypeOK
  <2>2. \A q \in Org : founder'[q] = IF q = o THEN a ELSE founder[q]
    BY <1>2 DEF Found, DirectoryTypeOK
  <2>3. \A b \in Address : member[o][b] = "none"
    BY <1>2 DEF Found, DirectoryInv, NobodyIsHomeless, Belongs
  <2>4. invite' = invite /\ account' = account \cup {a}
    BY <1>2 DEF Found
  <2>5. \A i \in Invite : invite[i] # NoInvite => invite[i].org \in Org
                           /\ invite[i].address \in Address /\ invite[i].by \in Address
    BY RowIsTyped
  <2>6. AcceptedMeansMember'
    BY <2>1, <2>4, <2>5, AcceptedExists DEF DirectoryInv, AcceptedMeansMember, Belongs
  <2>7. NobodyIsHomeless'
    <3>1. \A b \in account' : \E q \in Org : Belongs(q, b)'
      BY <2>1, <2>4 DEF DirectoryInv, NobodyIsHomeless, Belongs, DirectoryTypeOK
    <3>2. ASSUME NEW q \in Org, NEW b \in Address, Belongs(q, b)'
          PROVE  b \in account' /\ founder'[q] # None /\ member'[q][founder'[q]] = "admin"
      <4>1. CASE q = o
        BY <4>1, <3>2, <2>1, <2>2, <2>3, <2>4 DEF Belongs
      <4>2. CASE q # o
        <5>1. Belongs(q, b)
          BY <4>2, <3>2, <2>1 DEF Belongs
        <5>2. founder[q] \in Address
          BY <5>1 DEF DirectoryInv, NobodyIsHomeless, DirectoryTypeOK
        <5> QED BY <4>2, <5>1, <5>2, <2>1, <2>2, <2>4 DEF DirectoryInv, NobodyIsHomeless
      <4> QED BY <4>1, <4>2
    <3> QED BY <3>1, <3>2 DEF NobodyIsHomeless
  <2>8. AdminsAreAppointed'
    <3> SUFFICES ASSUME NEW q \in Org, NEW b \in Address, member'[q][b] = "admin",
                        founder'[q] # b
                 PROVE  \E i \in Invite :
                          /\ invite'[i].accepted /\ invite'[i].role = "admin"
                          /\ invite'[i].org = q /\ invite'[i].address = b
                          /\ invite'[i].by # b /\ member'[q][invite'[i].by] = "admin"
      BY DEF AdminsAreAppointed
    <3>1. q # o
      BY <2>1, <2>2, <2>3
    <3>2. member[q][b] = "admin" /\ founder[q] # b
      BY <3>1, <2>1, <2>2
    <3>3. PICK i \in Invite :
            /\ invite[i].accepted /\ invite[i].role = "admin"
            /\ invite[i].org = q /\ invite[i].address = b
            /\ invite[i].by # b /\ member[q][invite[i].by] = "admin"
      BY <3>2 DEF DirectoryInv, AdminsAreAppointed
    <3>4. invite[i].by \in Address
      BY <3>3, <2>5, AcceptedExists
    <3> QED BY <3>1, <3>3, <3>4, <2>1, <2>4
  <2>9. Vouched'
    BY <2>1, <2>4, <2>5 DEF DirectoryInv, Vouched, MayInvite
  <2> QED BY <2>6, <2>7, <2>8, <2>9 DEF DirectoryInv
<1>3. ASSUME NEW i \in Invite, NEW o \in Org, NEW by \in Address, NEW a \in Address,
             NEW role \in InviteRole, Issue(i, o, by, a, role)
      PROVE  DirectoryInv'
  <2>1. UNCHANGED <<account, member, founder>>
    BY <1>3 DEF Issue
  <2>2. \A j \in Invite : invite'[j] =
          IF j = i THEN [org |-> o, address |-> a, role |-> role, by |-> by, accepted |-> FALSE]
          ELSE invite[j]
    BY <1>3 DEF Issue, DirectoryTypeOK
  <2>3. ~invite[i].accepted /\ MayInvite(o, by)
    BY <1>3 DEF Issue, NoInvite
  <2>4. AcceptedMeansMember'
    BY <2>1, <2>2 DEF DirectoryInv, AcceptedMeansMember, Belongs
  <2>5. NobodyIsHomeless'
    BY <2>1 DEF DirectoryInv, NobodyIsHomeless, Belongs
  <2>6. AdminsAreAppointed'
    <3> SUFFICES ASSUME NEW q \in Org, NEW b \in Address, member'[q][b] = "admin",
                        founder'[q] # b
                 PROVE  \E j \in Invite :
                          /\ invite'[j].accepted /\ invite'[j].role = "admin"
                          /\ invite'[j].org = q /\ invite'[j].address = b
                          /\ invite'[j].by # b /\ member'[q][invite'[j].by] = "admin"
      BY DEF AdminsAreAppointed
    <3>1. PICK j \in Invite :
            /\ invite[j].accepted /\ invite[j].role = "admin"
            /\ invite[j].org = q /\ invite[j].address = b
            /\ invite[j].by # b /\ member[q][invite[j].by] = "admin"
      BY <2>1 DEF DirectoryInv, AdminsAreAppointed
    <3>2. j # i
      BY <3>1, <2>3
    <3> QED BY <3>1, <3>2, <2>1, <2>2
  <2>7. Vouched'
    BY <2>1, <2>2, <2>3 DEF DirectoryInv, Vouched, MayInvite
  <2> QED BY <2>4, <2>5, <2>6, <2>7 DEF DirectoryInv
<1>4. ASSUME NEW i \in Invite, Join(i) PROVE DirectoryInv'
  <2> DEFINE o == invite[i].org
             a == invite[i].address
             role == invite[i].role
  <2>1. invite[i] \in InviteRow /\ o \in Org /\ a \in Address /\ role \in InviteRole
        /\ invite[i] # NoInvite
    BY <1>4, RowIsTyped DEF Join
  <2>2. \A q \in Org, b \in Address :
          member'[q][b] = IF q = o /\ b = a /\ member[q][b] = "none" THEN role
                          ELSE member[q][b]
    BY <1>4, <2>1 DEF Join, Joined, DirectoryTypeOK
  <2>3. /\ account' = account \cup {a} /\ founder' = founder
        /\ \A j \in Invite : /\ invite'[j] = IF j = i THEN [invite[i] EXCEPT !.accepted = TRUE]
                                             ELSE invite[j]
    BY <1>4 DEF Join, Accepted, DirectoryTypeOK
  <2>4. \A j \in Invite :
          /\ invite'[j].org = invite[j].org /\ invite'[j].address = invite[j].address
          /\ invite'[j].role = invite[j].role /\ invite'[j].by = invite[j].by
          /\ invite'[j].accepted <=> (j = i \/ invite[j].accepted)
    BY <2>1, <2>3 DEF InviteRow
  <2>5. \A j \in Invite : invite'[j] # NoInvite => invite[j] # NoInvite
    BY <2>1, <2>3
  <2>6. \A j \in Invite : invite[j] # NoInvite => invite[j].org \in Org
                           /\ invite[j].address \in Address /\ invite[j].by \in Address
    BY RowIsTyped
  <2>7. role # "none"
    BY <2>1 DEF InviteRole
  <2>8. AcceptedMeansMember'
    BY <2>1, <2>2, <2>4, <2>6, <2>7, AcceptedExists
       DEF DirectoryInv, AcceptedMeansMember, Belongs
  <2>9. NobodyIsHomeless'
    <3>1. \A b \in account' : \E q \in Org : Belongs(q, b)'
      <4>1. member'[o][a] # "none"
        BY <2>1, <2>2, <2>7
      <4>2. ASSUME NEW b \in account PROVE \E q \in Org : member'[q][b] # "none"
        BY <2>1, <2>2, <2>7 DEF DirectoryInv, NobodyIsHomeless, Belongs, DirectoryTypeOK
      <4> QED BY <4>1, <4>2, <2>1, <2>3 DEF Belongs
    <3>2. ASSUME NEW q \in Org, NEW b \in Address, Belongs(q, b)'
          PROVE  b \in account' /\ founder'[q] # None /\ member'[q][founder'[q]] = "admin"
      <4>1. \E c \in Address : Belongs(q, c)
        BY <3>2, <2>1, <2>2, <2>6 DEF DirectoryInv, Vouched, MayInvite, Belongs
      <4>2. founder[q] \in Address /\ founder[q] # None /\ member[q][founder[q]] = "admin"
        BY <4>1 DEF DirectoryInv, NobodyIsHomeless, DirectoryTypeOK
      <4>3. b \in account'
        BY <3>2, <2>1, <2>2, <2>3 DEF DirectoryInv, NobodyIsHomeless, Belongs
      <4> QED BY <4>2, <4>3, <2>2, <2>3
    <3> QED BY <3>1, <3>2 DEF NobodyIsHomeless
  <2>10. AdminsAreAppointed'
    <3> SUFFICES ASSUME NEW q \in Org, NEW b \in Address, member'[q][b] = "admin",
                        founder'[q] # b
                 PROVE  \E j \in Invite :
                          /\ invite'[j].accepted /\ invite'[j].role = "admin"
                          /\ invite'[j].org = q /\ invite'[j].address = b
                          /\ invite'[j].by # b /\ member'[q][invite'[j].by] = "admin"
      BY DEF AdminsAreAppointed
    <3>1. CASE member[q][b] = "admin"
      <4>1. PICK j \in Invite :
              /\ invite[j].accepted /\ invite[j].role = "admin"
              /\ invite[j].org = q /\ invite[j].address = b
              /\ invite[j].by # b /\ member[q][invite[j].by] = "admin"
        BY <3>1, <2>3 DEF DirectoryInv, AdminsAreAppointed
      <4>2. member'[q][invite[j].by] = "admin"
        BY <4>1, <2>2, <2>6, AcceptedExists
      <4> QED BY <4>1, <4>2, <2>4
    <3>2. CASE member[q][b] # "admin"
      <4>1. q = o /\ b = a /\ role = "admin" /\ member[q][b] = "none"
        BY <3>2, <2>2
      <4>2. invite[i].by \in Address /\ member[q][invite[i].by] = "admin"
        BY <4>1, <2>1, <2>6 DEF DirectoryInv, Vouched, MayInvite
      <4>3. invite[i].by # b /\ member'[q][invite[i].by] = "admin"
        BY <4>1, <4>2, <2>2
      <4> QED BY <4>1, <4>3, <2>4
    <3> QED BY <3>1, <3>2
  <2>11. Vouched'
    BY <2>2, <2>4, <2>5, <2>6 DEF DirectoryInv, Vouched, MayInvite
  <2> QED BY <2>8, <2>9, <2>10, <2>11 DEF DirectoryInv
<1> QED BY <1>1, <1>2, <1>3, <1>4 DEF DirectoryNext

(* An empty directory. *)
LEMMA DirectoryStart == DirectoryInit => DirectoryTypeOK /\ DirectoryInv
  BY DEF DirectoryInit, DirectoryTypeOK, DirectoryInv, AcceptedMeansMember, NobodyIsHomeless,
         AdminsAreAppointed, Vouched, Belongs, NoInvite

(* Founded, invited, joined: in every behaviour of the directory an accepted *)
(* invitation has made a member, nobody is without an organization, every  *)
(* organization keeps its founding administrator, and administrators are   *)
(* appointed by administrators.                                            *)
THEOREM DirectoryHolds == DirectorySpec => [](DirectoryTypeOK /\ DirectoryInv)
<1>1. DirectoryTypeOK /\ DirectoryInv /\ [DirectoryNext]_directoryVars
        => DirectoryTypeOK' /\ DirectoryInv'
  BY DirectoryTypeStep, DirectoryInvStep
<1> QED BY <1>1, DirectoryStart, PTL DEF DirectorySpec

-----------------------------------------------------------------------------
(* The requests *)

(* What a request commits is a step of the directory, or no change at all. *)
LEMMA CommitsAsPromised ==
  AccountsTypeOK /\ DirectoryInv /\ [AccountsNext]_accountsVars
    => [DirectoryNext]_directoryVars
<1> SUFFICES ASSUME AccountsTypeOK, DirectoryInv, [AccountsNext]_accountsVars
             PROVE  [DirectoryNext]_directoryVars
  OBVIOUS
<1> USE DEF AccountsTypeOK
<1>1. CASE UNCHANGED accountsVars
  BY <1>1 DEF accountsVars
<1>2. ASSUME NEW p \in Request, NEW o \in Org, FoundCommits(p, o)
      PROVE  DirectoryNext
  BY <1>2 DEF FoundCommits, At, DirectoryNext
<1>3. ASSUME NEW p \in Request, AcceptCommits(p) PROVE [DirectoryNext]_directoryVars
  <2> DEFINE i == call[p].invite
             row == invite[i]
  <2>1. i \in Invite /\ row # NoInvite
    BY <1>3 DEF AcceptCommits, At
  <2>2. row.org \in Org /\ row.address \in Address
    BY <2>1, RowIsTyped
  <2>3. member[row.org][row.address] = "none"
    <3>1. CASE At(p, "enrolling")
      BY <1>3, <2>2, <3>1 DEF AcceptCommits, Conflicts, Asked, DirectoryInv,
                              NobodyIsHomeless, Belongs
    <3>2. CASE At(p, "joining")
      BY <1>3, <2>2, <3>2 DEF AcceptCommits, Conflicts, Asked, Belongs
    <3> QED BY <1>3, <3>1, <3>2 DEF AcceptCommits
  <2>4. ~row.accepted
    BY <2>1, <2>3 DEF DirectoryInv, AcceptedMeansMember, Belongs
  <2>5. member' = Joined(row.org, row.address, row.role)
    BY <1>3, <2>2, <2>3 DEF AcceptCommits, Joined, Asked, DirectoryTypeOK
  <2>6. Join(i)
    BY <1>3, <2>1, <2>4, <2>5 DEF AcceptCommits, Join, Asked
  <2> QED BY <2>1, <2>6 DEF DirectoryNext
<1>4. ASSUME NEW p \in Request, CloseCommits(p) PROVE [DirectoryNext]_directoryVars
  <2> DEFINE i == call[p].invite
             row == invite[i]
  <2>1. /\ i \in Invite /\ row # NoInvite
        /\ row.address \in account /\ Belongs(row.org, row.address)
    BY <1>4 DEF CloseCommits, At
  <2>2. row \in InviteRow /\ row.org \in Org /\ row.address \in Address
    BY <2>1, RowIsTyped
  <2>3. CASE row.accepted
    <3>1. [row EXCEPT !.accepted = TRUE] = row
      BY <2>2, <2>3 DEF InviteRow
    <3>2. invite' = invite
      BY <1>4, <3>1, <2>1 DEF CloseCommits, Accepted, DirectoryTypeOK
    <3> QED BY <1>4, <3>2 DEF CloseCommits, directoryVars
  <2>4. CASE ~row.accepted
    <3>1. member = Joined(row.org, row.address, row.role)
      BY <2>1, <2>2 DEF Joined, Belongs, DirectoryTypeOK
    <3>2. Join(i)
      BY <1>4, <2>1, <2>4, <3>1 DEF CloseCommits, Join
    <3> QED BY <2>1, <3>2 DEF DirectoryNext
  <2> QED BY <2>3, <2>4
<1>5. ASSUME NEW i \in Invite, NEW o \in Org, NEW by \in Address, NEW a \in Address,
             NEW role \in InviteRole, CreateInvite(i, o, by, a, role)
      PROVE  DirectoryNext
  BY <1>5 DEF CreateInvite, DirectoryNext
<1>6. ASSUME NEW p \in Request,
             \/ \E a \in Address : FoundReads(p, a)
             \/ \E i \in Invite : AcceptReads(p, i)
             \/ FindUser(p) \/ FindMembership(p) \/ Refused(p)
      PROVE  UNCHANGED directoryVars
  BY <1>6 DEF FoundReads, AcceptReads, FindUser, FindMembership, Refused
<1>7. ASSUME NEW i \in Invite, Expire(i) PROVE UNCHANGED directoryVars
  BY <1>7 DEF Expire
<1> QED BY <1>1, <1>2, <1>3, <1>4, <1>5, <1>6, <1>7 DEF AccountsNext

(* What requests know of the directory stays true, because nothing is ever *)
(* taken out of it.                                                        *)
LEMMA DirectoryGrows ==
  ASSUME DirectoryTypeOK, [DirectoryNext]_directoryVars
  PROVE  /\ account \subseteq account'
         /\ \A o \in Org, a \in Address : Belongs(o, a) => Belongs(o, a)'
         /\ \A i \in Invite : invite[i] # NoInvite =>
              /\ invite'[i] # NoInvite
              /\ invite'[i].org = invite[i].org /\ invite'[i].address = invite[i].address
<1>1. CASE UNCHANGED directoryVars
  BY <1>1 DEF directoryVars, Belongs
<1>2. ASSUME NEW o \in Org, NEW a \in Address, Found(o, a)
      PROVE  /\ account \subseteq account'
             /\ \A q \in Org, b \in Address : Belongs(q, b) => Belongs(q, b)'
             /\ invite' = invite
  BY <1>2 DEF Found, FounderRole, Belongs, DirectoryTypeOK
<1>3. ASSUME NEW i \in Invite, NEW o \in Org, NEW by \in Address, NEW a \in Address,
             NEW role \in InviteRole, Issue(i, o, by, a, role)
      PROVE  /\ account' = account /\ member' = member
             /\ \A j \in Invite : invite[j] # NoInvite => invite'[j] = invite[j]
  BY <1>3 DEF Issue, DirectoryTypeOK
<1>4. ASSUME NEW i \in Invite, Join(i)
      PROVE  /\ account \subseteq account'
             /\ \A q \in Org, b \in Address : Belongs(q, b) => Belongs(q, b)'
             /\ \A j \in Invite : invite[j] # NoInvite =>
                  /\ invite'[j] # NoInvite
                  /\ invite'[j].org = invite[j].org
                  /\ invite'[j].address = invite[j].address
  <2>1. invite[i] \in InviteRow
    BY <1>4, RowIsTyped DEF Join
  <2>2. \A j \in Invite : invite'[j] = IF j = i THEN [invite[i] EXCEPT !.accepted = TRUE]
                                         ELSE invite[j]
    BY <1>4 DEF Join, Accepted, DirectoryTypeOK
  <2>3. [invite[i] EXCEPT !.accepted = TRUE].accepted
    BY <2>1 DEF InviteRow
  <2>4. \A j \in Invite : invite[j] # NoInvite =>
          /\ invite'[j] # NoInvite
          /\ invite'[j].org = invite[j].org /\ invite'[j].address = invite[j].address
    BY <2>1, <2>2, <2>3 DEF InviteRow, NoInvite
  <2>5. \A q \in Org, b \in Address : member[q][b] # "none" => member'[q][b] # "none"
    BY <1>4 DEF Join, Joined, DirectoryTypeOK
  <2> QED BY <1>4, <2>4, <2>5 DEF Join, Belongs
<1> QED BY <1>1, <1>2, <1>3, <1>4 DEF DirectoryNext, Belongs

(* Each request keeps knowing what its step says it has found out. *)
LEMMA AccountsTypeStep ==
  AccountsTypeOK /\ DirectoryInv /\ [AccountsNext]_accountsVars => AccountsTypeOK'
<1> SUFFICES ASSUME AccountsTypeOK, DirectoryInv, [AccountsNext]_accountsVars
             PROVE  AccountsTypeOK'
  OBVIOUS
<1> DEFINE Knows(c) ==
      /\ c.at = "founding" => c.address \in Address
      /\ c.at \notin {"idle", "founding"} => c.invite \in Invite /\ invite[c.invite] # NoInvite
      /\ c.at \in {"known", "joining", "closing"} => invite[c.invite].address \in account
      /\ c.at = "closing" => Belongs(invite[c.invite].org, invite[c.invite].address)
<1>1. DirectoryTypeOK /\ [DirectoryNext]_directoryVars
  BY CommitsAsPromised DEF AccountsTypeOK
<1>2. DirectoryTypeOK'
  BY <1>1, DirectoryTypeStep
<1>3. \A c \in Call : Knows(c) => Knows(c)'
  <2> SUFFICES ASSUME NEW c \in Call, Knows(c) PROVE Knows(c)'
    OBVIOUS
  <2>1. CASE c.at \in {"idle", "founding"}
    BY <2>1
  <2>2. CASE c.at \notin {"idle", "founding"}
    <3>1. invite[c.invite].org \in Org /\ invite[c.invite].address \in Address
      BY <1>1, <2>2, RowIsTyped
    <3> QED BY <1>1, <2>2, <3>1, DirectoryGrows DEF Belongs
  <2> QED BY <2>1, <2>2
<1>4. \A p \in Request : call[p] \in Call /\ Knows(call[p])
  BY DEF AccountsTypeOK
<1>5. Idle \in Call /\ Knows(Idle)
  BY DEF Idle, Call, Step
<1>6. ASSUME expired' \subseteq Invite,
             NEW p \in Request, NEW c \in Call, Knows(c), call' = [call EXCEPT ![p] = c]
      PROVE  AccountsTypeOK'
  <2>1. call' \in [Request -> Call]
    BY <1>6 DEF AccountsTypeOK
  <2>2. \A q \in Request : call'[q] \in Call /\ Knows(call'[q])
    BY <1>4, <1>6, <2>1 DEF AccountsTypeOK
  <2>3. ASSUME NEW q \in Request
        PROVE  /\ call'[q].at = "founding" => call'[q].address \in Address
               /\ call'[q].at \notin {"idle", "founding"} =>
                    call'[q].invite \in Invite /\ invite'[call'[q].invite] # NoInvite
               /\ call'[q].at \in {"known", "joining", "closing"} =>
                    invite'[call'[q].invite].address \in account'
               /\ call'[q].at = "closing" =>
                    member'[invite'[call'[q].invite].org][invite'[call'[q].invite].address]
                      # "none"
    <3> PICK d \in Call : d = call'[q]
      BY <2>2
    <3>1. Knows(d)'
      BY <1>3, <2>2
    <3> QED BY <3>1 DEF Belongs
  <2> QED BY <1>2, <1>6, <2>1, <2>3 DEF AccountsTypeOK, Belongs
<1>7. CASE UNCHANGED accountsVars
  BY <1>7 DEF AccountsTypeOK, accountsVars, directoryVars, DirectoryTypeOK, Belongs
<1>8. ASSUME NEW p \in Request, Answer(p), expired' = expired PROVE AccountsTypeOK'
  BY <1>5, <1>6, <1>8 DEF Answer, AccountsTypeOK
<1>9. ASSUME NEW p \in Request, NEW a \in Address, FoundReads(p, a) PROVE AccountsTypeOK'
  <2> DEFINE c == [at |-> "founding", address |-> a, invite |-> None]
  <2>1. c \in Call /\ Knows(c)
    BY DEF Call, Step
  <2> QED BY <1>6, <1>9, <2>1 DEF FoundReads, AccountsTypeOK
<1>10. ASSUME NEW p \in Request, NEW i \in Invite, AcceptReads(p, i) PROVE AccountsTypeOK'
  <2> DEFINE c == [at |-> "invited", address |-> None, invite |-> i]
  <2>1. c \in Call /\ Knows(c)
    BY <1>10 DEF AcceptReads, Call, Step
  <2> QED BY <1>6, <1>10, <2>1 DEF AcceptReads, AccountsTypeOK
<1>11. ASSUME NEW p \in Request, FindUser(p) PROVE AccountsTypeOK'
  <2> DEFINE c == [call[p] EXCEPT !.at = IF HasAccount(Asked(p).address) THEN "known"
                                         ELSE "enrolling"]
  <2>1. c \in Call /\ Knows(c)
    BY <1>4, <1>11 DEF FindUser, At, HasAccount, Asked, Call, Step
  <2>2. call' = [call EXCEPT ![p] = c]
    BY <1>11 DEF FindUser, Go
  <2> QED BY <1>6, <1>11, <2>1, <2>2 DEF FindUser, AccountsTypeOK
<1>12. ASSUME NEW p \in Request, FindMembership(p) PROVE AccountsTypeOK'
  <2> DEFINE c == [call[p] EXCEPT !.at = IF IsMember(Asked(p).org, Asked(p).address)
                                         THEN "closing" ELSE "joining"]
  <2>1. c \in Call /\ Knows(c)
    BY <1>4, <1>12 DEF FindMembership, At, IsMember, Asked, Call, Step
  <2>2. call' = [call EXCEPT ![p] = c]
    BY <1>12 DEF FindMembership, Go
  <2> QED BY <1>6, <1>12, <2>1, <2>2 DEF FindMembership, AccountsTypeOK
<1>13. ASSUME NEW p \in Request,
              \/ \E o \in Org : FoundCommits(p, o)
              \/ AcceptCommits(p) \/ CloseCommits(p) \/ Refused(p)
       PROVE  AccountsTypeOK'
  BY <1>8, <1>13 DEF FoundCommits, AcceptCommits, CloseCommits, Refused
<1>14. ASSUME call' = call, expired' \subseteq Invite PROVE AccountsTypeOK'
  <2>1. \A p \in Request : call[p] \in Call /\ Knows(call[p])
    BY <1>4
  <2>2. CASE Request = {}
    BY <2>2, <1>2, <1>14 DEF AccountsTypeOK
  <2>3. ASSUME NEW p \in Request PROVE AccountsTypeOK'
    <3>1. call' = [call EXCEPT ![p] = call[p]]
      BY <1>14 DEF AccountsTypeOK
    <3> QED BY <1>6, <1>14, <2>1, <3>1
  <2> QED BY <2>2, <2>3
<1>15. ASSUME NEW i \in Invite, Expire(i) PROVE AccountsTypeOK'
  BY <1>14, <1>15 DEF Expire, AccountsTypeOK
<1>16. ASSUME NEW i \in Invite, NEW o \in Org, NEW by \in Address, NEW a \in Address,
              NEW role \in InviteRole, CreateInvite(i, o, by, a, role)
       PROVE  AccountsTypeOK'
  BY <1>14, <1>16 DEF CreateInvite, AccountsTypeOK
<1> QED BY <1>7, <1>9, <1>10, <1>11, <1>12, <1>13, <1>15, <1>16 DEF AccountsNext

(* Nobody has asked for anything yet. *)
LEMMA AccountsStart == AccountsInit => AccountsTypeOK
  BY DirectoryStart DEF AccountsInit, AccountsTypeOK, Idle, Call, Step

(* Types, invariants of the directory, and what the requests know of it.   *)
LEMMA AccountsInvariant == AccountsSpec => [](AccountsTypeOK /\ DirectoryInv)
<1>1. AccountsInit => AccountsTypeOK /\ DirectoryInv
  BY AccountsStart, DirectoryStart DEF AccountsInit
<1>2. AccountsTypeOK /\ DirectoryInv /\ [AccountsNext]_accountsVars
        => AccountsTypeOK' /\ DirectoryInv'
  BY AccountsTypeStep, CommitsAsPromised, DirectoryInvStep DEF AccountsTypeOK
<1> QED BY <1>1, <1>2, PTL DEF AccountsSpec

(* The directory and the requests are well typed, and a request's step     *)
(* says truly what it has found out.                                       *)
THEOREM AccountsTypeCorrect == AccountsSpec => []AccountsTypeOK
  BY AccountsInvariant, PTL

(* service.py: whatever requests race, the directory is only ever founded, *)
(* extended by an invitation, or joined by one, each in one step.          *)
THEOREM AccountsImplementDirectory == AccountsSpec => ImplementsDirectory
<1>1. AccountsInit => DirectoryInit
  BY DEF AccountsInit
<1> QED BY <1>1, AccountsInvariant, CommitsAsPromised, PTL
           DEF AccountsSpec, ImplementsDirectory, DirectorySpec

(* accept_invite: an accepted invitation has made its address a member.    *)
THEOREM InvitationsAreHonoured == AccountsSpec => []AcceptedMeansMember
<1>1. DirectoryInv => AcceptedMeansMember
  BY DEF DirectoryInv
<1> QED BY <1>1, AccountsInvariant, PTL

(* register, accept_invite: every user belongs to some organization, and   *)
(* every organization keeps the administrator it began with.               *)
THEOREM EverybodyBelongsSomewhere == AccountsSpec => []NobodyIsHomeless
<1>1. DirectoryInv => NobodyIsHomeless
  BY DEF DirectoryInv
<1> QED BY <1>1, AccountsInvariant, PTL

(* create_invite: nobody administers an organization who neither founded   *)
(* it nor was invited to by another of its administrators.                 *)
THEOREM OnlyAdminsAppointAdmins == AccountsSpec => []AdminsAreAppointed
<1>1. DirectoryInv => AdminsAreAppointed
  BY DEF DirectoryInv
<1> QED BY <1>1, AccountsInvariant, PTL
=============================================================================
