---------------------------- MODULE StaffAccounts ----------------------------
(***************************************************************************)
(* The staff: who is invited, who becomes a member, and in which role.     *)
(*                                                                         *)
(* A use case reads a member or an invitation into an entity, checks it,   *)
(* changes it and saves the row whole.  An acceptance saves the new member *)
(* and then the invitation; a new invitation revokes the pending one first.*)
(* Nothing is in a transaction.  The e-mail of a member is UNIQUE and never*)
(* changes; members are never deleted.                                     *)
(***************************************************************************)
EXTENDS Integers, FiniteSets

CONSTANTS
  Members, Emails, Invitations,
  Desks,       \* requests in flight at once, one each
  NoEmail, NoMember, NoInvitation

ASSUME StaffAssumption ==
  NoEmail \notin Emails /\ NoMember \notin Members /\ NoInvitation \notin Invitations

Roles == {"super_admin", "admin", "user"}

VARIABLES
  member,       \* staff_members
  invitation,   \* staff_invitations
  desk,         \* the requests in flight
  raced         \* auxiliary: the last save of a member was not a request's that
                \* ran alone and left a super admin

staffVars == <<member, invitation, desk, raced>>

Member == [exists : BOOLEAN, active : BOOLEAN, role : Roles, email : Emails \cup {NoEmail}]

Invitation == [exists : BOOLEAN, email : Emails \cup {NoEmail}, role : Roles,
               accepted : BOOLEAN, revoked : BOOLEAN, expired : BOOLEAN]

DeskRequest ==
  [step : {"idle", "counting", "inserting", "saving", "accepting", "revoking", "inviting"},
   member : Members \cup {NoMember}, new : Member,
   invitation : Invitations \cup {NoInvitation}, paper : Invitation, alone : BOOLEAN]

Nobody == [exists |-> FALSE, active |-> FALSE, role |-> "user", email |-> NoEmail]
NoPaper == [exists |-> FALSE, email |-> NoEmail, role |-> "user",
            accepted |-> FALSE, revoked |-> FALSE, expired |-> FALSE]
NoDesk == [step |-> "idle", member |-> NoMember, new |-> Nobody,
           invitation |-> NoInvitation, paper |-> NoPaper, alone |-> FALSE]

StaffTypeOK ==
  /\ member \in [Members -> Member]
  /\ invitation \in [Invitations -> Invitation]
  /\ desk \in [Desks -> DeskRequest]
  /\ raced \in BOOLEAN

StaffInit ==
  /\ member = [m \in Members |-> Nobody]
  /\ invitation = [i \in Invitations |-> NoPaper]
  /\ desk = [d \in Desks |-> NoDesk]
  /\ raced = FALSE

-----------------------------------------------------------------------------
\* What the use cases read.

NoStaff == \A m \in Members : ~member[m].exists
EmailFree(e) == \A m \in Members : member[m].email # e

\* countByRole(SUPER_ADMIN, true)
SuperAdmins(rows) == {m \in Members : rows[m].active /\ rows[m].role = "super_admin"}

\* StaffInvitation.isPending
Pending(i) ==
  /\ invitation[i].exists /\ ~invitation[i].revoked
  /\ ~invitation[i].accepted /\ ~invitation[i].expired

\* findPendingByEmail
PendingFor(e) == {n \in Invitations : Pending(n) /\ invitation[n].email = e}

\* The controllers' guard: the requester is active, in one of the roles.
MayAsk(by, roles) == member[by].active /\ member[by].role \in roles
Managers == {"super_admin", "admin"}

\* A request starts.  It runs alone if no other runs until it ends.
Start(d, request) ==
  /\ desk[d].step = "idle"
  /\ desk' = [x \in Desks |->
       IF x = d THEN [request EXCEPT !.alone = \A y \in Desks : desk[y].step = "idle"]
       ELSE [desk[x] EXCEPT !.alone = FALSE]]
  /\ UNCHANGED <<member, invitation, raced>>

Closed(d) == [desk EXCEPT ![d] = NoDesk]

\* A member is saved.  A request alone that leaves a super admin settles it.
SaveRow(d, m) ==
  /\ member' = [member EXCEPT ![m] = desk[d].new]
  /\ raced' = (~desk[d].alone \/ (raced /\ SuperAdmins(member') = {}))

\* An invitation is saved whole, as it was read but for the change; time alone
\* lets it expire.
SavePaper(d) ==
  LET i == desk[d].invitation IN
  invitation' = [invitation EXCEPT ![i] =
                   [desk[d].paper EXCEPT !.expired = invitation[i].expired]]

-----------------------------------------------------------------------------
\* Becoming a member.

NewMember(e, role) == [exists |-> TRUE, active |-> TRUE, role |-> role, email |-> e]

\* The first to register, with nobody there yet, is made a super admin.
RegisterFirst(d, e) ==
  /\ NoStaff
  /\ Start(d, [NoDesk EXCEPT !.step = "inserting", !.new = NewMember(e, "super_admin")])

\* Registering with an invitation and accepting one read and write the same.
AcceptInvitation(d, i) ==
  /\ Pending(i) /\ EmailFree(invitation[i].email)
  /\ Start(d, [NoDesk EXCEPT !.step = "inserting", !.invitation = i,
                             !.new = NewMember(invitation[i].email, invitation[i].role),
                             !.paper = [invitation[i] EXCEPT !.accepted = TRUE]])

CreateStaffMember(d, by, e, role) ==
  /\ MayAsk(by, Managers) /\ EmailFree(e)
  /\ Start(d, [NoDesk EXCEPT !.step = "inserting", !.new = NewMember(e, role)])

\* Mutant: the invitation is accepted before the member is saved.
AcceptFirst(d, m) ==
  /\ desk[d].step = "inserting" /\ ~member[m].exists
  /\ IF desk[d].invitation # NoInvitation
     THEN /\ SavePaper(d)
          /\ desk' = [desk EXCEPT ![d].invitation = NoInvitation]
          /\ UNCHANGED <<member, raced>>
     ELSE /\ EmailFree(desk[d].new.email)
          /\ SaveRow(d, m) /\ desk' = Closed(d) /\ UNCHANGED invitation

\* The member is inserted, unless the e-mail's index refuses it; then the
\* invitation, if there is one, is to be saved.
InsertMember(d, m) ==
  /\ desk[d].step = "inserting" /\ ~member[m].exists
  /\ IF EmailFree(desk[d].new.email)
     THEN /\ SaveRow(d, m)
          /\ desk' = IF desk[d].invitation = NoInvitation THEN Closed(d)
                     ELSE [desk EXCEPT ![d].step = "accepting", ![d].new = Nobody]
     ELSE desk' = Closed(d) /\ UNCHANGED <<member, raced>>
  /\ UNCHANGED invitation

SaveAcceptance(d) ==
  /\ desk[d].step = "accepting"
  /\ SavePaper(d) /\ desk' = Closed(d)
  /\ UNCHANGED <<member, raced>>

-----------------------------------------------------------------------------
\* Invitations.

\* The roles a member may invite to.
MayInvite(role) ==
  CASE role = "super_admin" -> {"admin", "user"} [] role = "admin" -> {"user"} [] OTHER -> {}

\* A pending invitation of the e-mail, if one is found, is revoked first.
InviteStaff(d, by, e, role) ==
  LET guest == [NoDesk EXCEPT !.step = "inviting", !.new = NewMember(e, role)] IN
  /\ member[by].active /\ role \in MayInvite(member[by].role)
  /\ EmailFree(e)
  /\ IF PendingFor(e) = {} THEN Start(d, guest)
     ELSE \E n \in PendingFor(e) :
            Start(d, [guest EXCEPT !.step = "revoking", !.invitation = n,
                                   !.paper = [invitation[n] EXCEPT !.revoked = TRUE]])

\* An expired invitation may be revoked too.
RevokeInvitation(d, by, i) ==
  /\ MayAsk(by, Managers)
  /\ invitation[i].exists /\ ~invitation[i].revoked /\ ~invitation[i].accepted
  /\ Start(d, [NoDesk EXCEPT !.step = "revoking", !.invitation = i,
                             !.paper = [invitation[i] EXCEPT !.revoked = TRUE]])

SaveRevocation(d) ==
  /\ desk[d].step = "revoking"
  /\ SavePaper(d)
  /\ desk' = IF desk[d].new = Nobody THEN Closed(d)
             ELSE [desk EXCEPT ![d] = [NoDesk EXCEPT !.step = "inviting", !.new = desk[d].new,
                                                     !.alone = desk[d].alone]]
  /\ UNCHANGED <<member, raced>>

SaveInvitation(d, i) ==
  /\ desk[d].step = "inviting" /\ ~invitation[i].exists
  /\ invitation' = [invitation EXCEPT ![i] =
       [NoPaper EXCEPT !.exists = TRUE, !.email = desk[d].new.email, !.role = desk[d].new.role]]
  /\ desk' = Closed(d)
  /\ UNCHANGED <<member, raced>>

\* 72 hours pass.
InvitationExpires(i) ==
  /\ Pending(i)
  /\ invitation' = [invitation EXCEPT ![i].expired = TRUE]
  /\ UNCHANGED <<member, desk, raced>>

-----------------------------------------------------------------------------
\* Changing a member.

\* The row of m was read; taking the last super admin away is checked by a
\* count that is another query.
Change(d, m, new, counted) ==
  /\ member[m].exists
  /\ Start(d, [NoDesk EXCEPT !.step = IF counted THEN "counting" ELSE "saving",
                             !.member = m, !.new = new])

SuspendStaffMember(d, by, m) ==
  /\ MayAsk(by, Managers) /\ by # m
  /\ Change(d, m, [member[m] EXCEPT !.active = FALSE], member[m].role = "super_admin")

ActivateStaffMember(d, by, m) ==
  /\ MayAsk(by, Managers)
  /\ Change(d, m, [member[m] EXCEPT !.active = TRUE], FALSE)

\* Changing a role is asked by super admins, and never of oneself.
ChangeStaffRole(d, by, m, role) ==
  /\ MayAsk(by, {"super_admin"}) /\ by # m
  /\ Change(d, m, [member[m] EXCEPT !.role = role],
            member[m].role = "super_admin" /\ role # "super_admin")

\* An update may change role and suspend at once: the role is changed first.
UpdateStaffMember(d, by, m, role, active) ==
  /\ MayAsk(by, Managers)
  /\ by = m => role = member[m].role /\ (active \/ ~member[m].active)
  /\ Change(d, m, [member[m] EXCEPT !.role = role, !.active = active],
            \/ member[m].role = "super_admin" /\ role # "super_admin"
            \/ role = "super_admin" /\ member[m].active /\ ~active)

\* One's own name, a password, a reset link: these columns are as they were read.
UpdateStaffProfile(d, m) == Change(d, m, member[m], FALSE)

\* Mutant: the last super admin is let go.
CountIgnored(d) ==
  /\ desk[d].step = "counting"
  /\ desk' = [desk EXCEPT ![d].step = "saving"]
  /\ UNCHANGED <<member, invitation, raced>>

CountSuperAdmins(d) ==
  /\ desk[d].step = "counting"
  /\ desk' = IF Cardinality(SuperAdmins(member)) > 1
             THEN [desk EXCEPT ![d].step = "saving"] ELSE Closed(d)
  /\ UNCHANGED <<member, invitation, raced>>

SaveMember(d) ==
  /\ desk[d].step = "saving"
  /\ SaveRow(d, desk[d].member)
  /\ desk' = Closed(d)
  /\ UNCHANGED invitation

RequestDies(d) ==
  /\ desk[d].step # "idle"
  /\ desk' = Closed(d)
  /\ UNCHANGED <<member, invitation, raced>>

-----------------------------------------------------------------------------
DeskAsked(d) ==
  \/ \E e \in Emails : RegisterFirst(d, e)
  \/ \E i \in Invitations : AcceptInvitation(d, i)
  \/ \E m \in Members : UpdateStaffProfile(d, m)
  \/ \E by \in Members :
       \/ \E e \in Emails, role \in Roles :
            CreateStaffMember(d, by, e, role) \/ InviteStaff(d, by, e, role)
       \/ \E i \in Invitations : RevokeInvitation(d, by, i)
       \/ \E m \in Members :
            \/ SuspendStaffMember(d, by, m) \/ ActivateStaffMember(d, by, m)
            \/ \E role \in Roles :
                 \/ ChangeStaffRole(d, by, m, role)
                 \/ \E active \in BOOLEAN : UpdateStaffMember(d, by, m, role, active)

DeskProceeds(d) ==
  \/ \E m \in Members : InsertMember(d, m)
  \/ \E i \in Invitations : SaveInvitation(d, i)
  \/ SaveAcceptance(d) \/ SaveRevocation(d)
  \/ CountSuperAdmins(d) \/ SaveMember(d) \/ RequestDies(d)

StaffNext ==
  \/ \E d \in Desks : DeskAsked(d) \/ DeskProceeds(d)
  \/ \E i \in Invitations : InvitationExpires(i)

StaffSpec == StaffInit /\ [][StaffNext]_staffVars

-----------------------------------------------------------------------------
\* An invitation that was accepted has the account of its e-mail, whatever died
\* between the two saves and whatever else wrote the invitation (accept, register).
AcceptedHasAccount ==
  \A i \in Invitations :
    invitation[i].accepted => \E m \in Members : member[m].email = invitation[i].email

\* Once there is staff, somebody is an active super admin at any moment
\* (docs/modules/staff.md), unless the last save of a member came from a request
\* that overlapped with another: two that each count two super admins, and each
\* demote or suspend one, leave none (suspend-staff-member, change-staff-role).
SuperAdminUnlessRaced ==
  NoStaff \/ raced \/ SuperAdmins(member) # {}
=============================================================================
