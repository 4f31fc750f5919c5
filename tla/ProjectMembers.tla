---------------------------- MODULE ProjectMembers ----------------------------
(* The people of one project and its life: invitations, roles, removal,        *)
(* leaving, the transfer of ownership, deletion into a retention period,       *)
(* restoration, and the jobs that delete for good.  Every route first checks   *)
(* who asks and whom it is about, and writes in a later statement or           *)
(* transaction, by key and without a condition; two requests may interleave    *)
(* between the check and the write.                                            *)

CONSTANTS
  Person,       \* people who may be members
  Founder,      \* the member who created the project
  Joined,       \* the others who are members at the start
  Asker,        \* user requests that may be open at the same time
  OtherRole     \* the roles that can be given, of "ADMIN" and "MEMBER"

ASSUME FounderAssumption == Founder \in Person /\ Joined \subseteq Person \ {Founder} /\ OtherRole \subseteq {"ADMIN", "MEMBER"}

VARIABLES
  project,      \* the project row: owner and deletion
  member,       \* the membership rows
  asked,        \* per request: what was checked and is still to be written
  purger        \* the job that deletes for good

memberVars == <<project, member, asked, purger>>

Role == {"OWNER", "ADMIN", "MEMBER"}   \* MEMBER stands for MEMBER and VIEWER
Membership == {"NONE", "ACTIVE", "LEFT", "REMOVED"}
Invitation == {"NONE", "PENDING", "CLOSED"}   \* CLOSED: cancelled or expired
Kind == {"NONE", "ACCEPT", "ROLE", "TRANSFER", "HANDOVER", "REMOVE", "LEAVE",
         "DELETE", "RESTORE"}

(* The model follows the project through one deletion (once).  since: the      *)
(* membership's last change is not before that deletion.                       *)
(* History: overtaken, a request wrote although its check would have failed by *)
(* then; taken, the members the last deletion took out; before, those who had  *)
(* been removed before it was asked for; lost, the project was deleted for     *)
(* good while it was active.                                                   *)
Project == [life: {"ACTIVE", "DELETED", "PURGED"}, owner: Person, expired: BOOLEAN,
            once: BOOLEAN, taken: SUBSET Person, before: SUBSET Person,
            overtaken: BOOLEAN, lost: BOOLEAN]
MemberRow == [is: Membership, role: Role, since: BOOLEAN, invite: Invitation, withdrawn: BOOLEAN]
Asked == [kind: Kind, by: Person, of: Person, to: Role]

MembersTypeOK ==
  /\ project \in Project
  /\ member \in [Person -> MemberRow]
  /\ asked \in [Asker -> Asked]
  /\ purger \in {"idle", "loaded"}

(* ------------------------------ Helpers ---------------------------------- *)
NobodyAsks == [kind |-> "NONE", by |-> Founder, of |-> Founder, to |-> "MEMBER"]
Outsider == [is |-> "NONE", role |-> "MEMBER", since |-> FALSE, invite |-> "NONE",
             withdrawn |-> FALSE]
ActiveMember(m) == member[m].is = "ACTIVE"
Manages(m) == ActiveMember(m) /\ member[m].role \in {"OWNER", "ADMIN"}
(* Bound: the model follows the project up to the first overtaken write.        *)
Followed == ~project.overtaken
Exists == project.life # "PURGED" /\ Followed
Removed == {m \in Person : member[m].is = "REMOVED"}
Deleting == \E a \in Asker : asked[a].kind = "DELETE"

(* What each route checks before it writes.                                    *)
Permitted(q) ==
  CASE q.kind = "ACCEPT" -> member[q.by].invite = "PENDING" /\ ~ActiveMember(q.by)
    [] q.kind = "ROLE" ->
         /\ project.life = "ACTIVE" /\ Manages(q.by)
         /\ ActiveMember(q.of) /\ member[q.of].role \notin {"OWNER", q.to}
    [] q.kind = "TRANSFER" ->
         /\ project.life = "ACTIVE" /\ ActiveMember(q.by) /\ member[q.by].role = "OWNER"
         /\ ActiveMember(q.of) /\ member[q.of].role # "OWNER"
    [] q.kind = "HANDOVER" ->
         /\ ActiveMember(q.by) /\ member[q.by].role = "OWNER"
         /\ q.of # q.by /\ ActiveMember(q.of)
    [] q.kind = "REMOVE" -> Manages(q.by) /\ ActiveMember(q.of) /\ member[q.of].role # "OWNER"
    [] q.kind = "LEAVE" -> ActiveMember(q.by) /\ member[q.by].role # "OWNER"
    [] q.kind = "DELETE" -> member[q.by].role = "OWNER" /\ project.life = "ACTIVE"
    [] q.kind = "RESTORE" ->
         /\ ActiveMember(q.by) /\ member[q.by].role = "OWNER"
         /\ project.life = "DELETED" /\ ~project.expired
    [] OTHER -> FALSE

MembersInit ==
  /\ project = [life |-> "ACTIVE", owner |-> Founder, expired |-> FALSE, once |-> FALSE,
                taken |-> {}, before |-> {}, overtaken |-> FALSE, lost |-> FALSE]
  /\ member = [m \in Person |->
        IF m = Founder THEN [Outsider EXCEPT !.is = "ACTIVE", !.role = "OWNER"]
        ELSE [Outsider EXCEPT !.is = IF m \in Joined THEN "ACTIVE" ELSE @]]
  /\ asked = [a \in Asker |-> NobodyAsks]
  /\ purger = "idle"

(* --------------------------- Check, then write --------------------------- *)
Ask(a, q) ==
  /\ asked[a].kind = "NONE" /\ Exists /\ ~project.overtaken /\ Permitted(q) /\ ~member[q.by].withdrawn
  /\ q.kind = "DELETE" => ~project.once
  /\ asked' = [asked EXCEPT ![a] = q]
  /\ IF q.kind = "DELETE" /\ ~Deleting
       THEN /\ project' = [project EXCEPT !.before = Removed]
            /\ member' = [m \in Person |-> [member[m] EXCEPT !.since = FALSE]]
       ELSE UNCHANGED <<project, member>>
  /\ UNCHANGED purger

(* A write by key fails when the row is gone.                                  *)
Writes(a, kind) == asked[a].kind = kind /\ Exists
Answered(a) == asked' = [asked EXCEPT ![a] = NobodyAsks] /\ UNCHANGED purger
Noted(a, p) == project' = [p EXCEPT !.overtaken = @ \/ ~Permitted(asked[a])]
(* Every change is dated; the date matters once a deletion has taken its own.  *)
Dated(row) == [row EXCEPT !.since = (Deleting \/ project.once) /\ row.is = "REMOVED"]

AcceptInvitation(a) ==
  /\ Writes(a, "ACCEPT")
  /\ member' = [member EXCEPT ![asked[a].by] =
        [@ EXCEPT !.is = "ACTIVE", !.role = asked[a].to, !.invite = "NONE"]]
  /\ Noted(a, [project EXCEPT !.before = @ \ {asked[a].by}]) /\ Answered(a)

ChangeRole(a) ==
  /\ Writes(a, "ROLE")
  /\ member' = [member EXCEPT ![asked[a].of] = Dated([@ EXCEPT !.role = asked[a].to])]
  /\ Noted(a, project) /\ Answered(a)

(* Three rows change in one transaction.                                       *)
TransferOwnershipSlip(a) ==
  /\ Writes(a, "TRANSFER")
  /\ member' = [member EXCEPT ![asked[a].of] = Dated([@ EXCEPT !.role = "OWNER"])]
  /\ Noted(a, [project EXCEPT !.owner = asked[a].of]) /\ Answered(a)
TransferOwnership(a) ==
  /\ Writes(a, "TRANSFER")
  /\ member' = [member EXCEPT ![asked[a].of] = Dated([@ EXCEPT !.role = "OWNER"]),
                              ![asked[a].by] = Dated([@ EXCEPT !.role = "ADMIN"])]
  /\ Noted(a, [project EXCEPT !.owner = asked[a].of]) /\ Answered(a)

(* The old owner leaves and keeps the role in a row that no longer counts.     *)
TransferAndLeave(a) ==
  /\ Writes(a, "HANDOVER")
  /\ member' = [member EXCEPT ![asked[a].of] = Dated([@ EXCEPT !.role = "OWNER"]),
                              ![asked[a].by] = Dated([@ EXCEPT !.is = "LEFT"])]
  /\ Noted(a, [project EXCEPT !.owner = asked[a].of]) /\ Answered(a)

RemoveMember(a) ==
  /\ Writes(a, "REMOVE")
  /\ member' = [member EXCEPT ![asked[a].of] = Dated([@ EXCEPT !.is = "REMOVED"])]
  /\ Noted(a, project) /\ Answered(a)

Leave(a) ==
  /\ Writes(a, "LEAVE")
  /\ member' = [member EXCEPT ![asked[a].by] = Dated([@ EXCEPT !.is = "LEFT"])]
  /\ Noted(a, project) /\ Answered(a)

(* ---------------------- Deletion and restoration ------------------------- *)
(* The members taken out carry the time of the deletion, by which the          *)
(* restoration finds them again.  That time is read before the transaction:    *)
(* it may lie after the changes that came in between (later) or not.           *)
SoftDeleted(taken, later) ==
  /\ member' = [m \in Person |->
        IF m \in taken THEN [member[m] EXCEPT !.is = "REMOVED", !.since = TRUE]
        ELSE [member[m] EXCEPT !.since = @ /\ ~later]]
  /\ project' = [project EXCEPT !.life = "DELETED", !.expired = FALSE, !.taken = taken,
                                !.once = TRUE,
                                !.overtaken = @ \/ project.life # "ACTIVE"]

DeleteProject(a) ==
  /\ Writes(a, "DELETE")
  /\ \E later \in BOOLEAN : SoftDeleted({m \in Person : ActiveMember(m)} \ {asked[a].by}, later)
  /\ Answered(a)

RestoredSlip(m) == member[m].is = "REMOVED"
Restored(m) == member[m].is = "REMOVED" /\ member[m].since
RestoreProject(a) ==
  /\ Writes(a, "RESTORE")
  /\ member' = [m \in Person |-> [member[m] EXCEPT !.is = IF Restored(m) THEN "ACTIVE" ELSE @, !.since = TRUE]]
  /\ Noted(a, [project EXCEPT !.life = "ACTIVE", !.expired = FALSE,
                                   !.taken = {}, !.before = {}]) /\ Answered(a)

(* ----------------- One statement, or one transaction --------------------- *)
SetInvitation(m, to) ==
  /\ \E n \in Person : Manages(n) /\ ~member[n].withdrawn
  /\ member' = [member EXCEPT ![m].invite = to] /\ UNCHANGED <<project, asked, purger>>
Invite(m) ==
  /\ project.life = "ACTIVE" /\ Followed /\ ~ActiveMember(m) /\ ~member[m].withdrawn
  /\ member[m].invite # "PENDING" /\ SetInvitation(m, "PENDING")
(* Sending again looks neither at the deletion nor at the membership.          *)
ResendInvitation(m) == Exists /\ member[m].invite = "CLOSED" /\ SetInvitation(m, "PENDING")
CancelInvitation(m) == Exists /\ member[m].invite = "PENDING" /\ SetInvitation(m, "CLOSED")

(* A member leaves the service: the project goes with its owner.  Another      *)
(* membership is left in whatever state it is, when the member has an active   *)
(* one here or elsewhere.                                                      *)
WithdrawMember(m) ==
  LET gone == {n \in Person : ActiveMember(n)} IN
  /\ Exists /\ ~member[m].withdrawn
  /\ \/ /\ project.owner = m /\ project.life = "ACTIVE" /\ ~project.once
        /\ member' = [n \in Person |->
             [member[n] EXCEPT !.is = IF n \in gone THEN "REMOVED" ELSE @, !.since = n \in gone,
                               !.withdrawn = @ \/ n = m]]
        /\ project' = [project EXCEPT !.life = "DELETED", !.expired = FALSE, !.taken = gone,
                                      !.before = Removed, !.once = TRUE]
     \/ /\ project.owner = m /\ project.life = "DELETED"
        /\ member' = [member EXCEPT ![m].withdrawn = TRUE] /\ UNCHANGED project
     \/ /\ project.owner # m
        /\ \E elsewhere \in BOOLEAN :
             member' = [member EXCEPT ![m] =
               IF @.is # "NONE" /\ (ActiveMember(m) \/ elsewhere)
                 THEN Dated([@ EXCEPT !.is = "LEFT", !.withdrawn = TRUE])
                 ELSE [@ EXCEPT !.withdrawn = TRUE]]
        /\ UNCHANGED project
  /\ UNCHANGED <<asked, purger>>

(* ------------------------- Deletion for good ----------------------------- *)
RetentionEnds ==
  /\ project.life = "DELETED" /\ Followed /\ ~project.expired
  /\ project' = [project EXCEPT !.expired = TRUE]
  /\ UNCHANGED <<member, asked, purger>>

(* The nightly job takes expired projects, an administrator's run any deleted  *)
(* one; both delete the items of their list one by one, without looking again. *)
PurgeLoad ==
  /\ purger = "idle" /\ project.life = "DELETED" /\ Followed
  /\ purger' = "loaded" /\ UNCHANGED <<project, member, asked>>
HardDeleteProject ==
  /\ purger = "loaded" /\ Exists
  /\ project' = [project EXCEPT !.life = "PURGED", !.lost = @ \/ project.life = "ACTIVE"]
  /\ member' = [m \in Person |-> [Outsider EXCEPT !.withdrawn = member[m].withdrawn]]
  /\ purger' = "idle" /\ UNCHANGED asked

(* --------------------------- The specification --------------------------- *)
Questions ==
  {[kind |-> k, by |-> m, of |-> n, to |-> t] :
     k \in {"ACCEPT", "ROLE"}, m \in Person, n \in Person, t \in OtherRole} \cup
  {[kind |-> k, by |-> m, of |-> n, to |-> "MEMBER"] :
     k \in Kind \ {"NONE", "ACCEPT", "ROLE"}, m \in Person, n \in Person}
(* One form of each question: whom it is about matters to some kinds only.     *)
Question == {q \in Questions : q.kind \in {"ROLE", "TRANSFER", "HANDOVER", "REMOVE"} \/ q.of = Founder}

MembersNext ==
  \/ \E a \in Asker :
       \/ \E q \in Question : Ask(a, q)
       \/ AcceptInvitation(a) \/ ChangeRole(a) \/ TransferOwnership(a) \/ TransferAndLeave(a)
       \/ RemoveMember(a) \/ Leave(a) \/ DeleteProject(a) \/ RestoreProject(a)
  \/ \E m \in Person :
       Invite(m) \/ ResendInvitation(m) \/ CancelInvitation(m) \/ WithdrawMember(m)
  \/ RetentionEnds \/ PurgeLoad \/ HardDeleteProject

MembersSpec == MembersInit /\ [][MembersNext]_memberVars

(* ------------------------------ Properties ------------------------------- *)
Owners == {m \in Person : ActiveMember(m) /\ member[m].role = "OWNER"}

(* Role, transfer, removal and leaving: an active project has exactly one      *)
(* owner, the one its row names, as long as no request is overtaken between    *)
(* its check and its write.                                                    *)
OneOwnerUnlessOvertaken ==
  project.life = "ACTIVE" /\ ~project.overtaken => Owners = {project.owner}

(* restore: every member the deletion took out comes back, and none who had    *)
(* been removed before the deletion was asked for, as long as no request was   *)
(* overtaken.                                                                  *)
RestoreIsExact ==
  [][project.life = "DELETED" /\ project'.life = "ACTIVE" /\ ~project.overtaken =>
       \A m \in Person : member[m].is = "REMOVED" =>
         /\ m \in project.taken => member'[m].is = "ACTIVE"
         /\ m \in project.before \ project.taken => member'[m].is = "REMOVED"]_memberVars

(* cleanup/projects/execute: an active project is never deleted for good.      *)
ActiveNeverPurged == ~project.lost
===============================================================================
