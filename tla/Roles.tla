------------------------------- MODULE Roles -------------------------------
(***************************************************************************)
(* Who holds which role, and where it is made true.                        *)
(*                                                                         *)
(* A request of the web side or of the command line reads the state,       *)
(* judges what it was asked, waits for a passkey or a terminal, and writes *)
(* (crates/hlb-controller/src/accounts.rs and roles.rs, hlb-cli/src/       *)
(* roles.rs, hlb-privd/src/record.rs, hlb-state/src/roles.rs): roles       *)
(* given, levels changed, roles made and deleted, let into an app or kept  *)
(* out of it, invitations made and revoked, and accounts made from an      *)
(* invitation (hlb-privd/src/signup.rs) or by `hlb user add`.              *)
(*                                                                         *)
(* A pass reads the state and makes PocketID's groups and the app's client *)
(* match (hlb-engine/src/roles.rs): at once after a change, and from a     *)
(* loop of the daemon's, with nothing to keep two passes apart.            *)
(***************************************************************************)
EXTENDS Naturals, FiniteSets

CONSTANTS
    Person, Role,
    Admin,          \* the role an installation begins with
    Asker,          \* requests under way at once
    Syncer,         \* passes under way at once
    Floor,          \* the lowest level the app lets in, from its manifest
    MaxUses,        \* people an invitation lets in
    MaxAsk,         \* bound: requests
    MaxTrouble      \* bound: reads and calls that fail, requests cut short, changes by hand

ASSUME RolesAssumption ==
    /\ {"none", "absent"} \cap Role = {}
    /\ Admin \in Role
    /\ Floor \in {"user", "admin"}
    /\ MaxUses \in Nat \ {0}
    /\ {MaxAsk, MaxTrouble} \subseteq Nat

VARIABLES
    level,      \* roles: the level of each, "none" for one that does not exist
    held,       \* users: the role of each, "none" without one, "absent" without a row
    known,      \* the people whose PocketID identity is recorded
    allowed,    \* app_roles: the roles let into the app
    link,       \* the invitation: its role, and how many people it still lets in
    groups,     \* PocketID: the roles that have a group there
    members,    \* PocketID: who is in each
    client,     \* PocketID: the groups the app's client is restricted to
    ask,        \* each request: its step, and what it was asked
    pass,       \* each pass: its step, and what it read
    left,       \* what is left of each bound
    joined,     \* history: accounts made from the invitation there is
    crossed,    \* history: have two requests ever overlapped?
    blind,      \* history: what a request was not refused on, having failed to read it
    behind      \* history: has PocketID been made to match since the last change?

vars == <<level, held, known, allowed, link, groups, members, client, ask, pass, left,
          joined, crossed, blind, behind>>
people == <<held, known, link, joined>>
pocketid == <<groups, members, client>>

NoAsk == [pc |-> "idle", who |-> {}, role |-> "none", level |-> "none"]
NoPass == [pc |-> "idle", groups |-> {}, members |-> [r \in Role |-> {}], door |-> {},
           found |-> {}, todo |-> {}, ok |-> FALSE, clean |-> FALSE]

Existing == {r \in Role : level[r] # "none"}
Account == {p \in Person : held[p] # "absent"}
LevelOf(p) == IF held[p] \in Role THEN level[held[p]] ELSE "none"
Admins == {p \in Person : LevelOf(p) = "admin"}

-----------------------------------------------------------------------------
(* hlb_users::access::desired, for one app with a client of its own: a group *)
(* per role, its members the people with an identity who hold it, and the    *)
(* app's door: the roles let in that reach its floor, and nobody when one    *)
(* let in does not exist.                                                    *)
MembersWanted == [r \in Role |-> {p \in known : held[p] = r /\ r \in Existing}]
Below(r) == Floor = "admin" /\ level[r] = "user"
Door == IF allowed \subseteq Existing THEN {r \in allowed : ~Below(r)} ELSE {}

InSync ==
    /\ groups = Existing
    /\ \A r \in groups : members[r] = MembersWanted[r]
    /\ client = Door

Init ==
    /\ level = [r \in Role |-> IF r = Admin THEN "admin" ELSE "user"]
    /\ held \in [Person -> {Admin, "absent"}] /\ Admins # {}
    /\ known = Account
    /\ allowed = {Admin}
    /\ link \in [role : Role \ {Admin}, uses : {MaxUses}]
    /\ groups = Role /\ members = MembersWanted /\ client = allowed
    /\ ask = [a \in Asker |-> NoAsk]
    /\ pass = [s \in Syncer |-> NoPass]
    /\ left = [ask |-> MaxAsk, trouble |-> MaxTrouble]
    /\ joined = 0 /\ crossed = FALSE /\ blind = {} /\ behind = FALSE

Spend(b) == left[b] > 0 /\ left' = [left EXCEPT ![b] = @ - 1]

-----------------------------------------------------------------------------
(* What a request was judged on is read now, and applied later.              *)
Begins(a, pc, who, r, l) ==
    /\ ask[a].pc = "idle"
    /\ ask' = [ask EXCEPT ![a] = [pc |-> pc, who |-> who, role |-> r, level |-> l]]
    /\ crossed' = (crossed \/ \E b \in Asker : ask[b].pc # "idle")
    /\ UNCHANGED <<level, people, allowed, pocketid, pass, behind>>
Judged(a, pc, who, r, l) == Begins(a, pc, who, r, l) /\ Spend("ask") /\ UNCHANGED blind

\* What it would have been refused on could not be read, and it goes on all the same.
Unread(a, what, pc, who, r, l) ==
    /\ Begins(a, pc, who, r, l)
    /\ left.ask > 0 /\ left.trouble > 0
    /\ left' = [ask |-> left.ask - 1, trouble |-> left.trouble - 1]
    /\ blind' = blind \cup {what}

Answered(a) == ask' = [ask EXCEPT ![a] = NoAsk]

\* The state changes: PocketID is behind, and so is whatever a pass has read.
Changes ==
    /\ behind' = TRUE
    /\ pass' = [s \in Syncer |-> [pass[s] EXCEPT !.clean = FALSE]]

\* change_role, of one person: the last administrator is not demoted.  A role of theirs
\* that cannot be read is taken for none, which has nothing to keep.
AnyoneElse(who) == who # Person
AdminOutside(who) == Admins \ who # {}
JudgeRole(a) ==
    \E p \in Account, r \in Existing :
        \/ /\ p \in Admins /\ level[r] # "admin" => AdminOutside({p})
           /\ Judged(a, "giving", {p}, r, "none")
        \/ Unread(a, "role", "giving", {p}, r, "none")

\* change_roles: demoting every administrator there is is refused, the selection taken
\* whole, and so is a state that cannot be read.
JudgeRoles(a) ==
    \E who \in SUBSET Account \ {{}}, r \in Existing :
        /\ who \cap Admins # {} /\ level[r] # "admin" => AdminOutside(who)
        /\ Judged(a, "giving", who, r, "none")

\* set_user_role, one person at a time: the role must exist, nothing else is asked again.
GiveRole(a) ==
    /\ ask[a].pc = "giving"
    /\ \E p \in ask[a].who :
        /\ held' = IF ask[a].role \in Existing THEN [held EXCEPT ![p] = ask[a].role] ELSE held
        /\ ask' = [ask EXCEPT ![a] = IF ask[a].who = {p} THEN NoAsk
                                     ELSE [ask[a] EXCEPT !.who = @ \ {p}]]
    /\ Changes
    /\ UNCHANGED <<level, known, link, joined, allowed, pocketid, left, crossed, blind>>

\* put_role: the only role holding administrators keeps its level.  A role that cannot be
\* read is one to make, which has no level to keep.
Holders(r) == {p \in Person : held[p] = r}
KeepsAnAdmin(r) == Admins \ Holders(r) # {} \/ Holders(r) = {}
JudgeLevel(a) ==
    \E r \in Role, l \in {"admin", "user"} :
        /\ level[r] # l
        /\ \/ /\ level[r] = "admin" => KeepsAnAdmin(r)
              /\ Judged(a, "putting", {}, r, l)
           \/ Unread(a, "level", "putting", {}, r, l)

PutRole(a) ==
    /\ ask[a].pc = "putting"
    /\ level' = [level EXCEPT ![ask[a].role] = ask[a].level]
    /\ Answered(a) /\ Changes
    /\ UNCHANGED <<people, allowed, pocketid, left, crossed, blind>>

\* delete_role: role_in_use() names what still uses it; that it could not be read names
\* nothing.
InUseIgnoringLinks(r) == Holders(r) # {} \/ r \in allowed
InUse(r) == Holders(r) # {} \/ r \in allowed \/ (link.role = r /\ link.uses > 0)
JudgeDelete(a) ==
    \E r \in Existing :
        \/ ~InUse(r) /\ Judged(a, "deleting", {}, r, "none")
        \/ Unread(a, "use", "deleting", {}, r, "none")

DeleteRole(a) ==
    /\ ask[a].pc = "deleting"
    /\ level' = [level EXCEPT ![ask[a].role] = "none"]
    /\ Answered(a) /\ Changes
    /\ UNCHANGED <<people, allowed, pocketid, left, crossed, blind>>

\* allow_role, refused below the app's floor (access::refusal), and deny_role.
JudgeAllow(a) ==
    \E r \in Existing \ allowed : ~Below(r) /\ Judged(a, "allowing", {}, r, "none")
JudgeDeny(a) == \E r \in allowed : Judged(a, "denying", {}, r, "none")

AllowRole(a) ==
    /\ ask[a].pc \in {"allowing", "denying"}
    /\ allowed' = IF ask[a].pc = "allowing" THEN allowed \cup {ask[a].role}
                                            ELSE allowed \ {ask[a].role}
    /\ Answered(a) /\ Changes
    /\ UNCHANGED <<level, people, pocketid, left, crossed, blind>>

-----------------------------------------------------------------------------
\* create_invitation: for a role that exists, which it fixes.
JudgeInvite(a) ==
    /\ link.uses = 0
    /\ \E r \in Existing : Judged(a, "inviting", {}, r, "none")

Invite(a) ==
    /\ ask[a].pc = "inviting"
    /\ link' = [role |-> ask[a].role, uses |-> MaxUses]
    /\ joined' = 0
    /\ Answered(a)
    /\ UNCHANGED <<level, held, known, allowed, pocketid, pass, left, crossed, blind, behind>>

\* revoke_invitation, or its date: it lets nobody in any more.
Revoke ==
    /\ link.uses > 0
    /\ link' = [link EXCEPT !.uses = 0]
    /\ UNCHANGED <<level, held, known, allowed, pocketid, ask, pass, left, joined, crossed,
                   blind, behind>>

\* sign_up: the link opens, the name is free.
JudgeSignUp(a) ==
    \E p \in Person \ Account :
        /\ link.uses > 0
        /\ Judged(a, "consuming", {p}, "none", "none")

\* consume_invitation: read and marked in one transaction, before anything is made.
ConsumedWhateverIsLeft == link.role # "none"
Consumed == link.uses > 0
Consume(a) ==
    /\ ask[a].pc = "consuming"
    /\ IF Consumed
       THEN /\ link' = [link EXCEPT !.uses = IF @ > 0 THEN @ - 1 ELSE 0]
            /\ joined' = joined + 1
            /\ ask' = [ask EXCEPT ![a].pc = "creating", ![a].role = link.role]
       ELSE UNCHANGED <<link, joined>> /\ Answered(a)
    /\ UNCHANGED <<level, held, known, allowed, pocketid, pass, left, crossed, blind, behind>>

\* create_user: made, never written over.
CreateUser(a) ==
    /\ ask[a].pc = "creating"
    /\ IF ask[a].who \cap Account = {}
       THEN /\ held' = [p \in Person |-> IF p \in ask[a].who THEN ask[a].role ELSE held[p]]
            /\ ask' = [ask EXCEPT ![a].pc = "granting"]
            /\ Changes
       ELSE UNCHANGED <<held, pass, behind>> /\ Answered(a)
    /\ UNCHANGED <<level, known, link, joined, allowed, pocketid, left, crossed, blind>>

\* set_user_role again, for who granted it; that it could not be is ignored.
GrantedBy(a) ==
    /\ ask[a].pc = "granting"
    /\ held' = [p \in Person |-> IF p \in ask[a].who /\ ask[a].role \in Existing
                                 THEN ask[a].role ELSE held[p]]
    /\ ask' = [ask EXCEPT ![a].pc = "identifying"]
    /\ Changes
    /\ UNCHANGED <<level, known, link, joined, allowed, pocketid, left, crossed, blind>>

\* `hlb user add`: the role exists when it is read; an account there is keeps its own.
\* Without PocketID configured nothing follows.
JudgeAdd(a) == \E p \in Person, r \in Existing : Judged(a, "adding", {p}, r, "none")

AddUser(a) ==
    /\ ask[a].pc = "adding"
    /\ held' = [p \in Person |-> IF p \in ask[a].who \ Account THEN ask[a].role ELSE held[p]]
    /\ ask' = [ask EXCEPT ![a].pc = "identifying"] \/ Answered(a)
    /\ Changes
    /\ UNCHANGED <<level, known, link, joined, allowed, pocketid, left, crossed, blind>>

\* The PocketID identity, and its id recorded.
Identify(a) ==
    /\ ask[a].pc = "identifying"
    /\ known' = known \cup ask[a].who
    /\ Answered(a) /\ Changes
    /\ UNCHANGED <<level, held, link, joined, allowed, pocketid, left, crossed, blind>>

\* A request is refused by PocketID or the passkey, or its process is killed.
CutShort(a) ==
    /\ ask[a].pc # "idle"
    /\ Spend("trouble")
    /\ Answered(a)
    /\ UNCHANGED <<level, people, allowed, pocketid, pass, crossed, blind, behind>>

Request(a) ==
    \/ JudgeRole(a) \/ JudgeRoles(a) \/ JudgeLevel(a) \/ JudgeDelete(a)
    \/ JudgeAllow(a) \/ JudgeDeny(a) \/ JudgeInvite(a) \/ JudgeSignUp(a) \/ JudgeAdd(a)
Apply(a) ==
    \/ GiveRole(a) \/ PutRole(a) \/ DeleteRole(a) \/ AllowRole(a) \/ Invite(a)
    \/ Consume(a) \/ CreateUser(a) \/ GrantedBy(a) \/ AddUser(a) \/ Identify(a)

-----------------------------------------------------------------------------
(* A pass.  Two at once make neither's reading its last word.                *)
ReadInputs(s) ==
    /\ pass[s].pc = "idle"
    /\ pass' = [t \in Syncer |->
           IF t = s
           THEN [NoPass EXCEPT !.pc = "listing", !.groups = Existing,
                     !.members = MembersWanted, !.door = Door, !.ok = TRUE,
                     !.clean = \A u \in Syncer : pass[u].pc = "idle"]
           ELSE [pass[t] EXCEPT !.clean = FALSE]]
    /\ UNCHANGED <<level, people, allowed, pocketid, ask, left, crossed, blind, behind>>

Sync(s, p) == pass' = [pass EXCEPT ![s] = p]
Same == <<level, people, allowed, ask, crossed, blind>>

ListGroups(s) ==
    /\ pass[s].pc = "listing"
    /\ Sync(s, IF pass[s].groups = {}
               THEN [pass[s] EXCEPT !.pc = "deleting", !.found = groups, !.todo = groups]
               ELSE [pass[s] EXCEPT !.pc = "groups", !.found = groups,
                                    !.todo = pass[s].groups])
    /\ UNCHANGED <<Same, pocketid, left, behind>>

\* The groups of hlb's whose role no longer exists.
DepartedNever(s) == {}
Departed(s) == pass[s].found \ pass[s].groups

First(todo) == CHOOSE r \in todo : TRUE
Onward(s, r, ok) ==
    LET rest == pass[s].todo \ {r} IN
    Sync(s, IF pass[s].pc = "groups" /\ rest = {}
            THEN [pass[s] EXCEPT !.pc = "deleting", !.ok = @ /\ ok,
                                 !.todo = Departed(s)]
            ELSE [pass[s] EXCEPT !.todo = rest, !.ok = @ /\ ok])

\* set_group_members replaces whoever was there.
MembersOfANewGroup(s, r) == IF r \in groups THEN members[r] ELSE pass[s].members[r]
MembersGiven(s, r) == pass[s].members[r]

\* The group is made, with its members; or it is there, and its members are made those.
\* One made or deleted under the pass since it listed them ends it: an error, in full.
WriteGroup(s) ==
    /\ pass[s].pc = "groups" /\ pass[s].todo # {}
    /\ LET r == First(pass[s].todo) IN
       IF r \in pass[s].found <=> r \in groups
       THEN /\ groups' = groups \cup {r}
            /\ members' = [members EXCEPT ![r] = MembersGiven(s, r)]
            /\ Onward(s, r, TRUE)
       ELSE UNCHANGED <<groups, members>> /\ Sync(s, NoPass)
    /\ UNCHANGED <<Same, client, left, behind>>

\* A group whose role no longer exists is deleted, and leaves the client's restriction.
DeleteGroup(s) ==
    /\ pass[s].pc = "deleting" /\ pass[s].todo # {}
    /\ LET r == First(pass[s].todo) IN
       /\ groups' = groups \ {r} /\ client' = client \ {r}
       /\ members' = [members EXCEPT ![r] = {}]
       /\ Onward(s, r, r \in groups)
    /\ UNCHANGED <<Same, left, behind>>

\* restrict_client, to groups that must be there; the pass ends.
SaysDone(s) == pass[s].ok /\ pass[s].clean
Restrict(s) ==
    /\ pass[s].pc = "deleting" /\ pass[s].todo = {}
    /\ client' = IF pass[s].door \subseteq groups THEN pass[s].door ELSE client
    /\ behind' = (behind /\ ~(SaysDone(s) /\ pass[s].door \subseteq groups))
    /\ Sync(s, NoPass)
    /\ UNCHANGED <<Same, groups, members, left>>

\* A call PocketID refuses, or does not answer: reading or making a group ends the pass,
\* and leaves a group just made without its members; any other is noted, and the pass
\* goes on.
Refused(s) ==
    /\ Spend("trouble")
    /\ \/ /\ pass[s].pc \in {"listing", "groups"}
          /\ Sync(s, NoPass)
          /\ \/ UNCHANGED <<groups, members>>
             \/ /\ pass[s].pc = "groups" /\ pass[s].todo # {}
                /\ LET r == First(pass[s].todo) IN
                   /\ r \notin pass[s].found \cup groups
                   /\ groups' = groups \cup {r} /\ members' = [members EXCEPT ![r] = {}]
       \/ /\ pass[s].pc \in {"groups", "deleting"} /\ pass[s].todo # {}
          /\ Onward(s, First(pass[s].todo), FALSE)
          /\ UNCHANGED <<groups, members>>
       \/ /\ pass[s].pc = "deleting" /\ pass[s].todo = {}
          /\ Sync(s, NoPass)
          /\ UNCHANGED <<groups, members>>
    /\ UNCHANGED <<Same, client, behind>>

\* Someone changes a group or the client in PocketID itself.
ByHand ==
    /\ Spend("trouble")
    /\ \/ \E r \in groups, p \in known :
              /\ members' = [members EXCEPT ![r] = IF p \in @ THEN @ \ {p} ELSE @ \cup {p}]
              /\ UNCHANGED client
       \/ \E r \in groups :
              /\ client' = IF r \in client THEN client \ {r} ELSE client \cup {r}
              /\ UNCHANGED members
    /\ Changes
    /\ UNCHANGED <<level, people, allowed, groups, ask, crossed, blind>>

Pass(s) ==
    \/ ListGroups(s) \/ WriteGroup(s) \/ DeleteGroup(s) \/ Restrict(s)

Next ==
    \/ \E a \in Asker : Request(a) \/ Apply(a) \/ CutShort(a)
    \/ Revoke \/ ByHand
    \/ \E s \in Syncer : ReadInputs(s) \/ Pass(s) \/ Refused(s)

Spec == Init /\ [][Next]_vars

\* The daemon's loop passes again and again, and a pass goes on to its end.
FairSpec ==
    /\ Spec
    /\ WF_vars(\E s \in Syncer : ReadInputs(s))
    /\ \A s \in Syncer : WF_vars(Pass(s))

-----------------------------------------------------------------------------
\* However roles are given, remade, deleted and signed up to, one request after the
\* other, somebody is left who can grant rights (state/src/roles.rs, has_other_admin), as
\* long as every request read what it was to be refused on.
AdminRemains == crossed \/ blind # {} \/ Admins # {}

\* One request after the other, nobody holds a role that does not exist - which whoever
\* makes a role of that name later would be given rights through - unless a deletion could
\* not read what used its role.
RoleHeldExists == crossed \/ "use" \in blind \/ \A p \in Account : held[p] \in Existing

\* An invitation lets in as many people as it was made for, requests overlapping or not
\* (consume_invitation, marked before any creation).
LinkLetsInItsNumber == joined <= MaxUses

\* Once a pass that nothing changed under and nothing refused has ended, PocketID holds
\* the roles: its groups, who is in them and whom the app lets in.
SyncedIsTrue == behind \/ InSync

\* Whatever was changed, by hand or here, and however passes overlapped or failed, the
\* roles are true in PocketID in the end: no door said closed stays open.
Converges == <>[]InSync
=============================================================================
