---------------------------- MODULE RolesProofs ----------------------------
(***************************************************************************)
(* The roles, for any people, roles, requests and passes under way.        *)
(*                                                                         *)
(* What a request was judged on is read before it waits for a passkey, and *)
(* applied after it: as long as no two requests overlap, what was judged   *)
(* still holds when it is applied (Judgement), which is what leaves an     *)
(* administrator and keeps every role held in existence, except for a      *)
(* request judged on a read that failed (blind).  A link's count           *)
(* needs none of that, only its transaction.  And a pass that read the     *)
(* state as it still is, with no other under way, leaves behind it groups  *)
(* that are what it read (Progress).                                       *)
(***************************************************************************)
EXTENDS Roles, TLAPS

Level == {"none", "user", "admin"}
OnRole == {"giving", "putting", "deleting", "allowing", "denying", "inviting", "creating",
           "granting", "adding"}
Asked == [pc : OnRole \cup {"idle", "consuming", "identifying"}, who : SUBSET Person,
          role : Role \cup {"none"}, level : Level]

\* The state and the requests hold what the code can put there.
RolesTyped ==
    /\ level \in [Role -> Level]
    /\ held \in [Person -> Role \cup {"absent"}]
    /\ known \subseteq Person /\ allowed \subseteq Role
    /\ link \in [role : Role, uses : Nat]
    /\ ask \in [Asker -> Asked]
    /\ \A a \in Asker : ask[a].pc \in OnRole => ask[a].role \in Role
    /\ crossed \in BOOLEAN /\ blind \subseteq {"role", "level", "use"}

\* What a link has let in and what it still lets in never exceed what it was made for.
LinkCounted == joined \in Nat /\ joined + link.uses <= MaxUses

\* One request at a time.
Alone == \A a, b \in Asker : ask[a].pc # "idle" /\ ask[b].pc # "idle" => a = b

\* Somebody administers, unless a request went unread; nobody holds or is offered a role
\* that does not exist, unless a deletion did.
Sound ==
    /\ blind = {} => Admins # {}
    /\ "use" \notin blind => /\ \A p \in Account : held[p] \in Existing
                             /\ link.uses > 0 => link.role \in Existing

\* What a request was judged on, still true where it was read.
Judgement(a) ==
    /\ ask[a].pc = "giving" =>
          /\ ask[a].role \in Existing
          /\ blind = {} => level[ask[a].role] = "admin" \/ AdminOutside(ask[a].who)
    /\ ask[a].pc = "putting" =>
          /\ ask[a].level \in {"user", "admin"}
          /\ blind = {} => ask[a].level = "admin" \/ Admins \ Holders(ask[a].role) # {}
    /\ ask[a].pc = "deleting" /\ "use" \notin blind =>
          Holders(ask[a].role) = {} /\ ~(link.role = ask[a].role /\ link.uses > 0)
    /\ ask[a].pc \in {"inviting", "creating", "granting", "adding"} /\ "use" \notin blind =>
          ask[a].role \in Existing
    /\ ask[a].pc = "granting" => \A p \in ask[a].who : held[p] = ask[a].role

Uncrossed == ~crossed => Alone /\ Sound /\ \A a \in Asker : Judgement(a)

\* The passes hold what the code can put there.
Passes == [pc : {"idle", "listing", "groups", "deleting"}, groups : SUBSET Role,
           members : [Role -> SUBSET Person], door : SUBSET Role, found : SUBSET Role,
           todo : SUBSET Role, ok : BOOLEAN, clean : BOOLEAN]
SyncTyped ==
    /\ groups \subseteq Role /\ members \in [Role -> SUBSET Person] /\ client \subseteq Role
    /\ pass \in [Syncer -> Passes]
    /\ behind \in BOOLEAN

\* What a pass read is what the state says.
ReadIsCurrent(s) ==
    pass[s].groups = Existing /\ pass[s].members = MembersWanted /\ pass[s].door = Door

Written(s, r) == r \in groups /\ members[r] = pass[s].members[r]

\* What a pass that nothing disturbed and nothing refused has done so far.
Progress(s) ==
    /\ pass[s].pc # "idle" /\ ReadIsCurrent(s)
    /\ \A t \in Syncer : t # s => pass[t].pc = "idle"
    /\ pass[s].ok /\ pass[s].pc = "groups" =>
          /\ pass[s].todo \subseteq pass[s].groups
          /\ groups \subseteq pass[s].groups \cup pass[s].found
          /\ pass[s].found \subseteq groups
          /\ \A r \in pass[s].groups \ pass[s].todo : Written(s, r)
    /\ pass[s].ok /\ pass[s].pc = "deleting" =>
          /\ pass[s].todo \cap pass[s].groups = {}
          /\ groups \subseteq pass[s].groups \cup pass[s].todo
          /\ \A r \in pass[s].groups : Written(s, r)

\* Once PocketID matches, a pass finds what it would have written.
Idempotent(s) ==
    pass[s].pc # "idle" =>
        /\ ReadIsCurrent(s)
        /\ pass[s].pc = "groups" =>
              pass[s].found = Existing /\ pass[s].todo \subseteq Existing
        /\ pass[s].pc = "deleting" => pass[s].todo = {}

SyncInv ==
    /\ \A s \in Syncer : pass[s].clean => Progress(s)
    /\ ~behind => InSync /\ \A s \in Syncer : Idempotent(s)

IInv == RolesTyped /\ LinkCounted /\ Uncrossed
SInv == RolesTyped /\ SyncTyped /\ SyncInv

-----------------------------------------------------------------------------
(* The requests.                                                             *)

\* A pass, or a change made in PocketID, touches neither the state nor a request.
LEMMA PassesApart ==
    ASSUME ByHand \/ \E s \in Syncer : ReadInputs(s) \/ Pass(s) \/ Refused(s)
    PROVE  UNCHANGED Same
BY DEF ByHand, ReadInputs, Pass, ListGroups, WriteGroup, DeleteGroup, Restrict, Refused, Same

\* The initial states satisfy the requests' invariant.
LEMMA InitOK == Init => IInv
<1> SUFFICES ASSUME Init PROVE IInv
    OBVIOUS
<1> USE RolesAssumption
<1>1. RolesTyped
  <2>1. \A a \in Asker : ask[a] = NoAsk
      BY DEF Init
  <2>2. ask \in [Asker -> Asked]
      BY DEF Init, NoAsk, Asked, Level
  <2>3. known \subseteq Person /\ allowed \subseteq Role
      BY DEF Init, Account
  <2>4. level \in [Role -> Level] /\ held \in [Person -> Role \cup {"absent"}]
      BY DEF Init, Level
  <2>5. link \in [role : Role, uses : Nat] /\ crossed \in BOOLEAN /\ blind = {}
      BY DEF Init
  <2> QED BY <2>1, <2>2, <2>3, <2>4, <2>5 DEF RolesTyped, NoAsk, OnRole
<1>2. LinkCounted
    BY DEF Init, LinkCounted
<1>3. Uncrossed
  <2>1. \A a \in Asker : ask[a].pc = "idle"
      BY DEF Init, NoAsk
  <2>2. Alone /\ \A a \in Asker : Judgement(a)
      BY <2>1 DEF Alone, Judgement
  <2>3. Existing = Role
      BY DEF Init, Existing
  <2>4. Sound
      BY <1>1, <2>3 DEF Init, Sound, Account, RolesTyped
  <2> QED BY <2>2, <2>4 DEF Uncrossed
<1> QED BY <1>1, <1>2, <1>3 DEF IInv

\* What a request judged is of its type.
LEMMA JudgedTyped ==
    ASSUME RolesTyped, NEW a \in Asker, Request(a)
    PROVE  \E pc \in (OnRole \cup {"consuming"}), who \in SUBSET Person,
              r \in Role \cup {"none"}, l \in Level :
              /\ pc \in OnRole => r \in Role
              /\ Begins(a, pc, who, r, l)
              /\ blind \subseteq blind' /\ blind' \subseteq {"role", "level", "use"}
<1> USE DEF OnRole, Level, RolesTyped, Judged, Unread
<1>1. CASE JudgeRole(a)
    BY <1>1 DEF JudgeRole, Account, Existing
<1>2. CASE JudgeLevel(a)
  <2>1. PICK r \in Role, l \in {"admin", "user"} :
           \/ Judged(a, "putting", {}, r, l) \/ Unread(a, "level", "putting", {}, r, l)
      BY <1>2 DEF JudgeLevel
  <2>2. /\ Begins(a, "putting", {}, r, l)
        /\ blind \subseteq blind' /\ blind' \subseteq {"role", "level", "use"}
      BY <2>1
  <2>3. {} \in SUBSET Person /\ l \in Level
      OBVIOUS
  <2>4. "putting" \in OnRole
      OBVIOUS
  <2> HIDE DEF OnRole, Level
  <2> QED BY <2>2, <2>3, <2>4
<1>3. CASE JudgeDelete(a)
    BY <1>3 DEF JudgeDelete, Existing
<1>4. CASE JudgeAllow(a)
    BY <1>4 DEF JudgeAllow, Existing
<1>5. CASE JudgeDeny(a)
    BY <1>5 DEF JudgeDeny, RolesTyped
<1>6. CASE JudgeInvite(a)
    BY <1>6 DEF JudgeInvite, Existing
<1>7. CASE JudgeSignUp(a)
    BY <1>7 DEF JudgeSignUp
<1>8. CASE JudgeRoles(a)
    BY <1>8 DEF JudgeRoles, Account, Existing
<1>9. CASE JudgeAdd(a)
    BY <1>9 DEF JudgeAdd, Existing
<1> QED BY <1>1, <1>2, <1>3, <1>4, <1>5, <1>6, <1>7, <1>8, <1>9 DEF Request

\* Every step keeps the types of the state and of the requests.
LEMMA TypedStep == RolesTyped /\ [Next]_vars => RolesTyped'
<1> SUFFICES ASSUME RolesTyped, [Next]_vars PROVE RolesTyped'
    OBVIOUS
<1> USE RolesAssumption
<1>1. NoAsk \in Asked /\ NoAsk.pc = "idle"
    BY DEF NoAsk, Asked, Level
<1>2. ASSUME NEW a \in Asker, Answered(a) PROVE
          /\ ask' \in [Asker -> Asked]
          /\ \A b \in Asker : ask'[b].pc \in OnRole => ask'[b].role \in Role
    BY <1>1, <1>2 DEF Answered, RolesTyped, OnRole
<1>3. ASSUME NEW a \in Asker, Request(a) PROVE RolesTyped'
  <2>1. PICK pc \in (OnRole \cup {"consuming"}), who \in SUBSET Person,
             r \in Role \cup {"none"}, l \in Level :
             /\ pc \in OnRole => r \in Role
             /\ Begins(a, pc, who, r, l)
             /\ blind' \subseteq {"role", "level", "use"}
      BY <1>3, JudgedTyped
  <2>2. [pc |-> pc, who |-> who, role |-> r, level |-> l] \in Asked
      BY DEF Asked
  <2>3. /\ ask' \in [Asker -> Asked]
        /\ \A b \in Asker : ask'[b].pc \in OnRole => ask'[b].role \in Role
      BY <2>1, <2>2 DEF Begins, RolesTyped
  <2>4. crossed' \in BOOLEAN
      BY <2>1 DEF Begins
  <2> QED BY <2>1, <2>3, <2>4 DEF Begins, RolesTyped, people
<1>4. ASSUME NEW a \in Asker, GiveRole(a) PROVE RolesTyped'
  <2>1. PICK p \in ask[a].who :
           /\ held' = IF ask[a].role \in Existing
                      THEN [held EXCEPT ![p] = ask[a].role] ELSE held
           /\ ask' = [ask EXCEPT ![a] = IF ask[a].who = {p} THEN NoAsk
                                        ELSE [ask[a] EXCEPT !.who = @ \ {p}]]
      BY <1>4 DEF GiveRole
  <2>2. held' \in [Person -> Role \cup {"absent"}]
      BY <2>1 DEF RolesTyped, Existing
  <2>3. PICK n \in Asked : ask' = [ask EXCEPT ![a] = n]
    <3>1. [ask[a] EXCEPT !.who = @ \ {p}] \in Asked
        BY DEF RolesTyped, Asked
    <3>2. CASE ask[a].who = {p}
        BY <1>1, <2>1, <3>2
    <3>3. CASE ask[a].who # {p}
      <4>1. ask' = [ask EXCEPT ![a] = [ask[a] EXCEPT !.who = @ \ {p}]]
          BY <2>1, <3>3
      <4> QED BY <3>1, <4>1
    <3> QED BY <3>2, <3>3
  <2>4. ask' \in [Asker -> Asked]
      BY <2>3 DEF RolesTyped
  <2>5. \A b \in Asker : ask'[b].pc \in OnRole => ask'[b].role \in Role
      BY <1>1, <2>1 DEF RolesTyped, OnRole, Asked
  <2> QED BY <1>4, <2>2, <2>4, <2>5 DEF GiveRole, RolesTyped
<1>5. ASSUME NEW a \in Asker, PutRole(a) PROVE RolesTyped'
  <2>1. level' \in [Role -> Level]
      BY <1>5 DEF PutRole, RolesTyped, Asked, OnRole
  <2> QED BY <1>2, <1>5, <2>1 DEF PutRole, RolesTyped, people
<1>6. ASSUME NEW a \in Asker, DeleteRole(a) PROVE RolesTyped'
  <2>1. level' \in [Role -> Level]
      BY <1>6 DEF DeleteRole, RolesTyped, Level
  <2> QED BY <1>2, <1>6, <2>1 DEF DeleteRole, RolesTyped, people
<1>7. ASSUME NEW a \in Asker, AllowRole(a) PROVE RolesTyped'
  <2>1. allowed' \subseteq Role
      BY <1>7 DEF AllowRole, RolesTyped, OnRole
  <2> QED BY <1>2, <1>7, <2>1 DEF AllowRole, RolesTyped, people
<1>8. ASSUME NEW a \in Asker, Invite(a) PROVE RolesTyped'
  <2>1. link' \in [role : Role, uses : Nat]
      BY <1>8 DEF Invite, RolesTyped, OnRole
  <2> QED BY <1>2, <1>8, <2>1 DEF Invite, RolesTyped
<1>9. ASSUME NEW a \in Asker, Consume(a) PROVE RolesTyped'
  <2>1. CASE Consumed
    <3>1. link' \in [role : Role, uses : Nat]
        BY <1>9, <2>1 DEF Consume, RolesTyped
    <3>2. ask' \in [Asker -> Asked]
        BY <1>9, <2>1 DEF Consume, RolesTyped, Asked, OnRole
    <3>3. \A b \in Asker : ask'[b].pc \in OnRole => ask'[b].role \in Role
        BY <1>9, <2>1 DEF Consume, RolesTyped, Asked
    <3> QED BY <1>9, <3>1, <3>2, <3>3 DEF Consume, RolesTyped
  <2>2. CASE ~Consumed
      BY <1>2, <1>9, <2>2 DEF Consume, RolesTyped
  <2> QED BY <2>1, <2>2
<1>10. ASSUME NEW a \in Asker, CreateUser(a) PROVE RolesTyped'
  <2>1. CASE ask[a].who \cap Account = {}
    <3>1. held' \in [Person -> Role \cup {"absent"}]
        BY <1>10, <2>1 DEF CreateUser, RolesTyped, OnRole
    <3>2. ask' \in [Asker -> Asked]
        BY <1>10, <2>1 DEF CreateUser, RolesTyped, Asked, OnRole
    <3>3. \A b \in Asker : ask'[b].pc \in OnRole => ask'[b].role \in Role
        BY <1>10, <2>1 DEF CreateUser, RolesTyped, Asked, OnRole
    <3> QED BY <1>10, <3>1, <3>2, <3>3 DEF CreateUser, RolesTyped
  <2>2. CASE ~(ask[a].who \cap Account = {})
      BY <1>2, <1>10, <2>2 DEF CreateUser, RolesTyped
  <2> QED BY <2>1, <2>2
<1>11. ASSUME NEW a \in Asker, GrantedBy(a) PROVE RolesTyped'
  <2>1. held' \in [Person -> Role \cup {"absent"}]
      BY <1>11 DEF GrantedBy, RolesTyped, Existing
  <2>2. ask' \in [Asker -> Asked]
      BY <1>11 DEF GrantedBy, RolesTyped, Asked
  <2>3. \A b \in Asker : ask'[b].pc \in OnRole => ask'[b].role \in Role
      BY <1>11 DEF GrantedBy, RolesTyped, Asked, OnRole
  <2> QED BY <1>11, <2>1, <2>2, <2>3 DEF GrantedBy, RolesTyped
<1>12. ASSUME NEW a \in Asker, Identify(a) PROVE RolesTyped'
  <2>1. known' \subseteq Person
      BY <1>12 DEF Identify, RolesTyped, Asked
  <2> QED BY <1>2, <1>12, <2>1 DEF Identify, RolesTyped
<1>13. ASSUME NEW a \in Asker, CutShort(a) PROVE RolesTyped'
    BY <1>2, <1>13 DEF CutShort, RolesTyped, people
<1>14. CASE Revoke
  <2>1. link' \in [role : Role, uses : Nat]
      BY <1>14 DEF Revoke, RolesTyped
  <2> QED BY <1>14, <2>1 DEF Revoke, RolesTyped
<1>15. CASE \/ ByHand \/ \E s \in Syncer : ReadInputs(s) \/ Pass(s) \/ Refused(s)
            \/ UNCHANGED vars
  <2>1. UNCHANGED Same
      BY <1>15, PassesApart DEF vars, Same, people
  <2> QED BY <2>1 DEF Same, people, RolesTyped
<1>16. ASSUME NEW a \in Asker, AddUser(a) PROVE RolesTyped'
  <2>1. held' \in [Person -> Role \cup {"absent"}]
      BY <1>16 DEF AddUser, RolesTyped, OnRole
  <2>2. CASE Answered(a)
      BY <1>2, <1>16, <2>1, <2>2 DEF AddUser, RolesTyped
  <2>3. CASE ask' = [ask EXCEPT ![a].pc = "identifying"]
    <3>1. ask' \in [Asker -> Asked]
        BY <2>3 DEF RolesTyped, Asked
    <3>2. \A b \in Asker : ask'[b].pc \in OnRole => ask'[b].role \in Role
        BY <2>3 DEF RolesTyped, Asked, OnRole
    <3> QED BY <1>16, <2>1, <3>1, <3>2 DEF AddUser, RolesTyped
  <2> QED BY <1>16, <2>2, <2>3 DEF AddUser
<1> QED
    BY <1>3, <1>4, <1>5, <1>6, <1>7, <1>8, <1>9, <1>10, <1>11, <1>12, <1>13, <1>14, <1>15,
       <1>16
    DEF Next, Apply

\* Every step keeps the count of the link: reading it and marking it are one step.
LEMMA LinkStep == RolesTyped /\ LinkCounted /\ [Next]_vars => LinkCounted'
<1> SUFFICES ASSUME RolesTyped, LinkCounted, [Next]_vars PROVE LinkCounted'
    OBVIOUS
<1> USE RolesAssumption
<1>1. link.uses \in Nat /\ joined \in Nat
    BY DEF RolesTyped, LinkCounted
<1>2. ASSUME NEW a \in Asker, Invite(a) PROVE LinkCounted'
    BY <1>2 DEF Invite, LinkCounted
<1>3. ASSUME NEW a \in Asker, Consume(a) PROVE LinkCounted'
  <2>1. CASE Consumed
    <3>1. link'.uses = link.uses - 1 /\ joined' = joined + 1
        BY <1>1, <1>3, <2>1 DEF Consume, Consumed, RolesTyped
    <3> QED BY <1>1, <3>1 DEF LinkCounted
  <2>2. CASE ~Consumed
      BY <1>3, <2>2 DEF Consume, LinkCounted
  <2> QED BY <2>1, <2>2
<1>4. CASE Revoke
  <2>1. link'.uses = 0 /\ joined' = joined
      BY <1>4 DEF Revoke, RolesTyped
  <2> QED BY <1>1, <2>1 DEF LinkCounted
<1>5. CASE \/ \E a \in Asker : Request(a) \/ CutShort(a)
           \/ \E a \in Asker : \/ GiveRole(a) \/ PutRole(a) \/ DeleteRole(a) \/ AllowRole(a)
                              \/ CreateUser(a) \/ GrantedBy(a) \/ AddUser(a)
                              \/ Identify(a)
           \/ ByHand \/ \E s \in Syncer : ReadInputs(s) \/ Pass(s) \/ Refused(s)
           \/ UNCHANGED vars
  <2>1. UNCHANGED <<link, joined>>
    <3>1. ASSUME NEW a \in Asker, Request(a) PROVE UNCHANGED <<link, joined>>
        BY <3>1, JudgedTyped DEF Begins, people
    <3>2. CASE ByHand \/ \E s \in Syncer : ReadInputs(s) \/ Pass(s) \/ Refused(s)
        BY <3>2, PassesApart DEF Same, people
    <3> QED BY <1>5, <3>1, <3>2 DEF CutShort, GiveRole, PutRole, DeleteRole, AllowRole,
                CreateUser, GrantedBy, AddUser, Identify, vars, people
  <2> QED BY <2>1 DEF LinkCounted
<1> QED BY <1>2, <1>3, <1>4, <1>5 DEF Next, Apply

\* A request that begins while no other is under way is judged on the state it will be
\* applied to.
LEMMA JudgedSound ==
    ASSUME RolesTyped, Uncrossed, NEW a \in Asker, Request(a)
    PROVE  Uncrossed'
<1> SUFFICES ASSUME ~crossed' PROVE Alone' /\ Sound' /\ \A b \in Asker : Judgement(b)'
    BY DEF Uncrossed
<1> USE RolesAssumption
<1>1. PICK pc \in (OnRole \cup {"consuming"}), who \in SUBSET Person,
           r \in Role \cup {"none"}, l \in Level :
           Begins(a, pc, who, r, l) /\ blind \subseteq blind'
    BY JudgedTyped
<1>2. /\ UNCHANGED <<level, held, link>> /\ ~crossed /\ blind \subseteq blind'
      /\ \A b \in Asker : ask[b].pc = "idle"
      /\ \A b \in Asker : b # a => ask'[b] = ask[b]
    BY <1>1 DEF Begins, people, RolesTyped
<1>3. Sound
    BY <1>2 DEF Uncrossed
<1>4. Sound'
    BY <1>2, <1>3 DEF Sound, Admins, Account, LevelOf, Existing
<1>5. Alone'
    BY <1>2 DEF Alone
<1>6. \A b \in Asker : b # a => Judgement(b)'
    BY <1>2 DEF Judgement
<1>7. Judgement(a)'
  <2> USE DEF RolesTyped
  <2>1. ASSUME NEW w \in SUBSET Account, NEW q \in Existing,
               Begins(a, "giving", w, q, "none"),
               blind' = {} => (w \cap Admins # {} /\ level[q] # "admin" => AdminOutside(w))
        PROVE  Judgement(a)'
    <3>1. blind' = {} => level[q] = "admin" \/ AdminOutside(w)
        BY <1>2, <1>3, <2>1 DEF Sound, AdminOutside
    <3>2. ask'[a].pc = "giving" /\ ask'[a].who = w /\ ask'[a].role = q
        BY <2>1 DEF Begins
    <3> QED BY <1>2, <2>1, <3>1, <3>2
            DEF Judgement, AdminOutside, Admins, LevelOf, Existing
  <2>2. CASE JudgeRole(a)
    <3>1. PICK p \in Account, q \in Existing :
             /\ Begins(a, "giving", {p}, q, "none")
             /\ blind' = {} => (p \in Admins /\ level[q] # "admin" => AdminOutside({p}))
        BY <2>2 DEF JudgeRole, Judged, Unread
    <3>2. {p} \in SUBSET Account /\ ({p} \cap Admins # {} => p \in Admins)
        OBVIOUS
    <3> QED BY <2>1, <3>1, <3>2
  <2>3. CASE JudgeRoles(a)
      BY <2>1, <2>3 DEF JudgeRoles, Judged
  <2>4. CASE JudgeLevel(a)
    <3>1. PICK q \in Role, m \in {"admin", "user"} :
             /\ blind' = {} => (level[q] = "admin" => KeepsAnAdmin(q))
             /\ Begins(a, "putting", {}, q, m)
        BY <2>4 DEF JudgeLevel, Judged, Unread
    <3>2. blind' = {} => Admins \ Holders(q) # {} \/ Admins \cap Holders(q) # {}
        BY <1>2, <1>3 DEF Sound
    <3>3. blind' = {} => m = "admin" \/ Admins \ Holders(q) # {}
        BY <3>1, <3>2 DEF KeepsAnAdmin, Admins, LevelOf, Holders
    <3>4. ask'[a].pc = "putting" /\ ask'[a].role = q /\ ask'[a].level = m
        BY <3>1 DEF Begins
    <3> QED BY <1>2, <3>1, <3>3, <3>4 DEF Judgement, Admins, LevelOf, Holders
  <2>5. CASE JudgeDelete(a)
    <3>1. PICK q \in Existing : /\ "use" \notin blind' => ~InUse(q)
                                /\ Begins(a, "deleting", {}, q, "none")
        BY <2>5 DEF JudgeDelete, Judged, Unread
    <3>2. ask'[a].pc = "deleting" /\ ask'[a].role = q
        BY <3>1 DEF Begins
    <3> QED BY <1>2, <3>1, <3>2 DEF Judgement, InUse, Holders
  <2>6. CASE JudgeInvite(a) \/ JudgeAdd(a)
    <3>1. PICK q \in Existing, c \in {"inviting", "adding"}, w \in SUBSET Person :
             Begins(a, c, w, q, "none")
        BY <2>6 DEF JudgeInvite, JudgeAdd, Judged
    <3>2. ask'[a].pc \in {"inviting", "adding"} /\ ask'[a].role = q
        BY <3>1 DEF Begins
    <3> QED BY <1>2, <3>1, <3>2 DEF Judgement, Existing
  <2>7. CASE JudgeAllow(a) \/ JudgeDeny(a) \/ JudgeSignUp(a)
    <3>1. ask'[a].pc \in {"allowing", "denying", "consuming"}
        BY <2>7 DEF JudgeAllow, JudgeDeny, JudgeSignUp, Judged, Begins
    <3> QED BY <3>1 DEF Judgement
  <2> QED BY <2>2, <2>3, <2>4, <2>5, <2>6, <2>7 DEF Request
<1> QED BY <1>4, <1>5, <1>6, <1>7

\* What a step of one request that leaves the others alone has to show.
LEMMA OneAtATime ==
    ASSUME RolesTyped, Uncrossed, ~crossed', ~crossed,
           NEW a \in Asker, ask[a].pc # "idle",
           \A b \in Asker : b # a => ask'[b] = ask[b],
           Sound /\ Judgement(a) => Sound' /\ Judgement(a)'
    PROVE  Uncrossed'
<1>1. Alone /\ Sound /\ \A b \in Asker : Judgement(b)
    BY DEF Uncrossed
<1>2. \A b \in Asker : b # a => ask'[b].pc = "idle"
    BY <1>1 DEF Alone
<1> QED BY <1>1, <1>2 DEF Uncrossed, Alone, Judgement

\* A request answered is judged on nothing.
LEMMA AnsweredIdle ==
    ASSUME RolesTyped, NEW a \in Asker, Answered(a)
    PROVE  /\ ask'[a].pc = "idle"
           /\ \A b \in Asker : b # a => ask'[b] = ask[b]
BY DEF Answered, RolesTyped, NoAsk

\* Every step of requests that follow each other keeps an administrator, every role held
\* in existence, and what was judged.
LEMMA UncrossedStep == RolesTyped /\ Uncrossed /\ [Next]_vars => Uncrossed'
<1> SUFFICES ASSUME RolesTyped, Uncrossed, [Next]_vars PROVE Uncrossed'
    OBVIOUS
<1> USE RolesAssumption
<1>1. ASSUME NEW a \in Asker, GiveRole(a), ~crossed PROVE Uncrossed'
  <2>1. PICK p \in ask[a].who :
           /\ held' = IF ask[a].role \in Existing
                      THEN [held EXCEPT ![p] = ask[a].role] ELSE held
           /\ ask' = [ask EXCEPT ![a] = IF ask[a].who = {p} THEN NoAsk
                                        ELSE [ask[a] EXCEPT !.who = @ \ {p}]]
      BY <1>1 DEF GiveRole
  <2>2. /\ UNCHANGED <<level, link, crossed, blind>> /\ ask[a].pc = "giving"
        /\ p \in Person /\ ask[a].role \in Role
      BY <1>1 DEF GiveRole, RolesTyped, Asked, OnRole
  <2>3. /\ \A b \in Asker : b # a => ask'[b] = ask[b]
        /\ ask'[a].pc \in {"idle", "giving"}
        /\ ask'[a].pc = "giving" => /\ ask'[a].role = ask[a].role
                                    /\ ask'[a].who = ask[a].who \ {p}
      BY <2>1, <2>2 DEF RolesTyped, NoAsk, Asked
  <2>4. ASSUME Sound, Judgement(a) PROVE Sound' /\ Judgement(a)'
    <3>1. /\ ask[a].role \in Existing
          /\ blind = {} => level[ask[a].role] = "admin" \/ AdminOutside(ask[a].who)
        BY <2>2, <2>4 DEF Judgement
    <3>2. /\ \A q \in Person \ {p} : held'[q] = held[q]
          /\ held'[p] = ask[a].role
        BY <2>1, <2>2, <3>1 DEF RolesTyped
    <3>3. Existing' = Existing
        BY <2>2 DEF Existing
    <3>4. level[ask[a].role] = "admin" => p \in Admins'
        BY <2>2, <3>2 DEF Admins, LevelOf
    <3>5. \A q \in Admins : q # p => q \in Admins'
        BY <2>2, <3>2 DEF Admins, LevelOf
    <3>6. blind = {} => Admins' # {}
        BY <3>1, <3>4, <3>5, <2>1 DEF AdminOutside
    <3>7. Sound'
        BY <2>2, <2>4, <3>1, <3>2, <3>3, <3>6 DEF Sound, Account
    <3>8. Judgement(a)'
        BY <2>2, <2>3, <3>1, <3>3, <3>5, <2>1 DEF Judgement, AdminOutside
    <3> QED BY <3>7, <3>8
  <2> QED BY <1>1, <2>2, <2>3, <2>4, OneAtATime
<1>2. ASSUME NEW a \in Asker, PutRole(a), ~crossed PROVE Uncrossed'
  <2>1. /\ level' = [level EXCEPT ![ask[a].role] = ask[a].level]
        /\ UNCHANGED <<held, link, crossed, blind>> /\ ask[a].pc = "putting"
        /\ ask[a].role \in Role /\ Answered(a)
      BY <1>2 DEF PutRole, people, RolesTyped, OnRole
  <2>2. ASSUME Sound, Judgement(a) PROVE Sound'
    <3>1. /\ ask[a].level \in {"user", "admin"}
          /\ blind = {} => ask[a].level = "admin" \/ Admins \ Holders(ask[a].role) # {}
        BY <2>1, <2>2 DEF Judgement
    <3>2. Existing \subseteq Existing'
        BY <2>1, <3>1 DEF Existing, RolesTyped
    <3>3. \A q \in Admins : q \notin Holders(ask[a].role) \/ ask[a].level = "admin"
              => q \in Admins'
        BY <2>1 DEF Admins, LevelOf, Holders, RolesTyped
    <3>4. blind = {} => Admins' # {}
        BY <2>2, <3>1, <3>3 DEF Sound
    <3> QED BY <2>1, <2>2, <3>2, <3>4 DEF Sound, Account
  <2>3. Judgement(a)'
      BY <2>1, AnsweredIdle DEF Judgement
  <2> QED BY <1>2, <2>1, <2>2, <2>3, AnsweredIdle, OneAtATime
<1>3. ASSUME NEW a \in Asker, DeleteRole(a), ~crossed PROVE Uncrossed'
  <2>1. /\ level' = [level EXCEPT ![ask[a].role] = "none"]
        /\ UNCHANGED <<held, link, crossed, blind>> /\ ask[a].pc = "deleting"
        /\ ask[a].role \in Role /\ Answered(a)
      BY <1>3 DEF DeleteRole, people, RolesTyped, OnRole
  <2>2. ASSUME Sound, Judgement(a) PROVE Sound'
    <3>1. "use" \notin blind =>
             Holders(ask[a].role) = {} /\ ~(link.role = ask[a].role /\ link.uses > 0)
        BY <2>1, <2>2 DEF Judgement
    <3>2. Existing' = Existing \ {ask[a].role}
        BY <2>1 DEF Existing, RolesTyped
    <3>3. "use" \notin blind => Admins' = Admins
        BY <2>1, <3>1 DEF Admins, LevelOf, Holders, RolesTyped
    <3>4. "use" \notin blind => \A q \in Person : held[q] # ask[a].role
        BY <3>1 DEF Holders
    <3> QED BY <2>1, <2>2, <3>1, <3>2, <3>3, <3>4 DEF Sound, Account
  <2>3. Judgement(a)'
      BY <2>1, AnsweredIdle DEF Judgement
  <2> QED BY <1>3, <2>1, <2>2, <2>3, AnsweredIdle, OneAtATime
<1>4. ASSUME NEW a \in Asker, AllowRole(a) \/ Identify(a) \/ CutShort(a), ~crossed
      PROVE Uncrossed'
  <2>1. UNCHANGED <<level, held, link, crossed, blind>> /\ Answered(a) /\ ask[a].pc # "idle"
      BY <1>4 DEF AllowRole, Identify, CutShort, people
  <2>2. Sound => Sound'
      BY <2>1 DEF Sound, Admins, LevelOf, Account, Existing
  <2>3. Judgement(a)'
      BY <2>1, AnsweredIdle DEF Judgement
  <2> QED BY <1>4, <2>1, <2>2, <2>3, AnsweredIdle, OneAtATime
<1>5. ASSUME NEW a \in Asker, Invite(a), ~crossed PROVE Uncrossed'
  <2>1. /\ UNCHANGED <<level, held, crossed, blind>> /\ Answered(a) /\ ask[a].pc = "inviting"
        /\ link' = [role |-> ask[a].role, uses |-> MaxUses]
      BY <1>5 DEF Invite
  <2>2. Sound /\ Judgement(a) => Sound'
      BY <2>1 DEF Sound, Judgement, Admins, LevelOf, Account, Existing
  <2>3. Judgement(a)'
      BY <2>1, AnsweredIdle DEF Judgement
  <2> QED BY <1>5, <2>1, <2>2, <2>3, AnsweredIdle, OneAtATime
<1>6. ASSUME NEW a \in Asker, Consume(a), ~crossed PROVE Uncrossed'
  <2>1. CASE Consumed
    <3>1. /\ UNCHANGED <<level, held, crossed, blind>> /\ ask[a].pc = "consuming"
          /\ ask' = [ask EXCEPT ![a].pc = "creating", ![a].role = link.role]
          /\ link'.role = link.role /\ link'.uses \in Nat /\ link.uses > 0
        BY <1>6, <2>1 DEF Consume, Consumed, RolesTyped
    <3>2. /\ \A b \in Asker : b # a => ask'[b] = ask[b]
          /\ ask'[a].pc = "creating" /\ ask'[a].role = link.role
        BY <3>1 DEF RolesTyped, Asked
    <3>3. Existing' = Existing /\ Admins' = Admins
        BY <3>1 DEF Existing, Admins, LevelOf
    <3>4. Sound => Sound'
        BY <3>1, <3>3 DEF Sound, Account, RolesTyped
    <3>5. Sound /\ "use" \notin blind => ask'[a].role \in Existing'
        BY <3>1, <3>2, <3>3 DEF Sound
    <3>6. Sound => Judgement(a)'
        BY <3>1, <3>2, <3>5 DEF Judgement
    <3> QED BY <1>6, <3>1, <3>2, <3>4, <3>6, OneAtATime
  <2>2. CASE ~Consumed
    <3>1. UNCHANGED <<level, held, link, crossed, blind>> /\ Answered(a) /\ ask[a].pc # "idle"
        BY <1>6, <2>2 DEF Consume
    <3>2. Sound => Sound'
        BY <3>1 DEF Sound, Admins, LevelOf, Account, Existing
    <3>3. Judgement(a)'
        BY <3>1, AnsweredIdle DEF Judgement
    <3> QED BY <1>6, <3>1, <3>2, <3>3, AnsweredIdle, OneAtATime
  <2> QED BY <2>1, <2>2
<1>7. ASSUME NEW a \in Asker, CreateUser(a), ~crossed PROVE Uncrossed'
  <2>1. CASE ask[a].who \cap Account = {}
    <3>1. /\ UNCHANGED <<level, link, crossed, blind>> /\ ask[a].pc = "creating"
          /\ held' = [p \in Person |-> IF p \in ask[a].who THEN ask[a].role ELSE held[p]]
          /\ ask' = [ask EXCEPT ![a].pc = "granting"]
        BY <1>7, <2>1 DEF CreateUser
    <3>2. /\ \A b \in Asker : b # a => ask'[b] = ask[b]
          /\ ask'[a].pc = "granting" /\ ask'[a].role = ask[a].role
          /\ ask'[a].who = ask[a].who /\ ask[a].who \subseteq Person
        BY <3>1 DEF RolesTyped, Asked
    <3>3. Existing' = Existing
        BY <3>1 DEF Existing
    <3>4. Admins \subseteq Admins'
      <4>1. Admins \subseteq Account
          BY DEF Admins, LevelOf, Account
      <4> QED BY <2>1, <3>1, <4>1 DEF Admins, LevelOf
    <3>5. Sound /\ Judgement(a) => Sound'
        BY <3>1, <3>3, <3>4 DEF Sound, Judgement, Account
    <3>6. Judgement(a) => Judgement(a)'
        BY <3>1, <3>2, <3>3 DEF Judgement
    <3> QED BY <1>7, <3>1, <3>2, <3>5, <3>6, OneAtATime
  <2>2. CASE ~(ask[a].who \cap Account = {})
    <3>1. UNCHANGED <<level, held, link, crossed, blind>> /\ Answered(a) /\ ask[a].pc # "idle"
        BY <1>7, <2>2 DEF CreateUser
    <3>2. Sound => Sound'
        BY <3>1 DEF Sound, Admins, LevelOf, Account, Existing
    <3>3. Judgement(a)'
        BY <3>1, AnsweredIdle DEF Judgement
    <3> QED BY <1>7, <3>1, <3>2, <3>3, AnsweredIdle, OneAtATime
  <2> QED BY <2>1, <2>2
<1>8. ASSUME NEW a \in Asker, GrantedBy(a), ~crossed PROVE Uncrossed'
  <2>1. /\ UNCHANGED <<level, link, crossed, blind>> /\ ask[a].pc = "granting"
        /\ held' = [p \in Person |-> IF p \in ask[a].who /\ ask[a].role \in Existing
                                     THEN ask[a].role ELSE held[p]]
        /\ ask' = [ask EXCEPT ![a].pc = "identifying"]
      BY <1>8 DEF GrantedBy
  <2>2. /\ \A b \in Asker : b # a => ask'[b] = ask[b]
        /\ ask'[a].pc = "identifying"
      BY <2>1 DEF RolesTyped, Asked
  <2>3. ASSUME Sound, Judgement(a) PROVE Sound'
    <3>1. \A p \in Person : held'[p] = held[p]
        BY <2>1, <2>3 DEF Judgement
    <3> QED BY <2>1, <2>3, <3>1 DEF Sound, Admins, LevelOf, Account, Existing
  <2>4. Judgement(a)'
      BY <2>2 DEF Judgement
  <2> QED BY <1>8, <2>1, <2>2, <2>3, <2>4, OneAtATime
<1>9. CASE Revoke
  <2>1. /\ UNCHANGED <<level, held, ask, crossed, blind>>
        /\ link'.role = link.role /\ link'.uses = 0
      BY <1>9 DEF Revoke, RolesTyped
  <2>2. Alone => Alone'
      BY <2>1 DEF Alone
  <2>3. Sound => Sound'
      BY <2>1 DEF Sound, Admins, LevelOf, Account, Existing
  <2>4. ASSUME NEW a \in Asker, Judgement(a) PROVE Judgement(a)'
      BY <2>1, <2>4 DEF Judgement, Admins, LevelOf, Holders, Existing, AdminOutside
  <2> QED BY <2>1, <2>2, <2>3, <2>4 DEF Uncrossed
<1>10. CASE \/ ByHand \/ \E s \in Syncer : ReadInputs(s) \/ Pass(s) \/ Refused(s)
            \/ UNCHANGED vars
  <2>1. UNCHANGED <<level, held, link, ask, crossed, blind>>
      BY <1>10, PassesApart DEF Same, vars, people
  <2>2. Alone => Alone'
      BY <2>1 DEF Alone
  <2>3. Sound => Sound'
      BY <2>1 DEF Sound, Admins, LevelOf, Account, Existing
  <2>4. ASSUME NEW a \in Asker, Judgement(a) PROVE Judgement(a)'
      BY <2>1, <2>4 DEF Judgement, Admins, LevelOf, Holders, Existing, AdminOutside
  <2> QED BY <2>1, <2>2, <2>3, <2>4 DEF Uncrossed
<1>11. ASSUME NEW a \in Asker, Request(a) PROVE Uncrossed'
    BY <1>11, JudgedSound
<1>12. ASSUME NEW a \in Asker, Apply(a) \/ CutShort(a), crossed PROVE Uncrossed'
  <2>1. crossed' = crossed
      BY <1>12 DEF Apply, CutShort, GiveRole, PutRole, DeleteRole, AllowRole, Invite, Consume,
                  CreateUser, GrantedBy, AddUser, Identify
  <2> QED BY <1>12, <2>1 DEF Uncrossed
<1>13. ASSUME NEW a \in Asker, AddUser(a), ~crossed PROVE Uncrossed'
  <2>1. /\ UNCHANGED <<level, link, crossed, blind>> /\ ask[a].pc = "adding"
        /\ held' = [p \in Person |-> IF p \in ask[a].who \ Account THEN ask[a].role
                                     ELSE held[p]]
        /\ ask' = [ask EXCEPT ![a].pc = "identifying"] \/ Answered(a)
      BY <1>13 DEF AddUser
  <2>2. /\ \A b \in Asker : b # a => ask'[b] = ask[b]
        /\ ask'[a].pc \in {"identifying", "idle"}
      BY <2>1, AnsweredIdle DEF RolesTyped, Asked
  <2>3. Existing' = Existing
      BY <2>1 DEF Existing
  <2>4. Admins \subseteq Admins'
    <3>1. Admins \subseteq Account
        BY DEF Admins, LevelOf, Account
    <3> QED BY <2>1, <3>1 DEF Admins, LevelOf
  <2>5. Sound /\ Judgement(a) => Sound'
      BY <2>1, <2>3, <2>4 DEF Sound, Judgement, Account
  <2>6. Judgement(a)'
      BY <2>2 DEF Judgement
  <2> QED BY <1>13, <2>1, <2>2, <2>5, <2>6, OneAtATime
<1> QED
    BY <1>1, <1>2, <1>3, <1>4, <1>5, <1>6, <1>7, <1>8, <1>9, <1>10, <1>11, <1>12, <1>13
    DEF Next, Apply

\* The invariant of the requests holds in every state they reach.
LEMMA Invariance == Spec => []IInv
<1>1. IInv /\ [Next]_vars => IInv'
    BY TypedStep, LinkStep, UncrossedStep DEF IInv
<1> QED BY InitOK, <1>1, PTL DEF Spec

\* An invitation lets in as many people as it was made for, however many sign up with it
\* at once: consume_invitation reads and marks it in one transaction.
THEOREM LinkNeverOverdrawn == Spec => []LinkLetsInItsNumber
<1>1. IInv => LinkLetsInItsNumber
    BY RolesAssumption DEF IInv, LinkCounted, RolesTyped, LinkLetsInItsNumber
<1> QED BY <1>1, Invariance, PTL

\* Requests that follow each other leave an administrator: has_other_admin and its like,
\* read before the passkey, are enough when nothing is written in between.
THEOREM SomebodyAdministers == Spec => []AdminRemains
<1>1. IInv => AdminRemains
    BY DEF IInv, Uncrossed, Sound, AdminRemains, RolesTyped
<1> QED BY <1>1, Invariance, PTL

\* Requests that follow each other leave nobody with a role that does not exist:
\* role_in_use names every way a role is held or offered.
THEOREM RolesHeldExist == Spec => []RoleHeldExists
<1>1. IInv => RoleHeldExists
    BY DEF IInv, Uncrossed, Sound, RoleHeldExists, RolesTyped
<1> QED BY <1>1, Invariance, PTL

-----------------------------------------------------------------------------
(* The passes.                                                               *)

\* What hlb wants of PocketID is of its type.
LEMMA WantedTyped ==
    ASSUME RolesTyped
    PROVE  /\ Existing \subseteq Role /\ Door \subseteq Existing
           /\ MembersWanted \in [Role -> SUBSET Person]
BY DEF RolesTyped, Existing, Door, MembersWanted

\* What hlb wants of PocketID changes only with the state.
LEMMA WantedSame ==
    ASSUME UNCHANGED <<level, held, known, allowed>>
    PROVE  Existing' = Existing /\ MembersWanted' = MembersWanted /\ Door' = Door
<1>1. Existing' = Existing
    BY DEF Existing
<1> QED BY <1>1 DEF MembersWanted, Door, Below

\* A pass that has ended is of its type, and reads nothing.
LEMMA NoPassTyped == NoPass \in Passes /\ NoPass.pc = "idle" /\ NoPass.clean = FALSE
BY DEF NoPass, Passes

\* The initial states satisfy the passes' invariant.
LEMMA SyncInit == Init => SInv
<1> SUFFICES ASSUME Init PROVE SInv
    OBVIOUS
<1> USE RolesAssumption
<1>1. RolesTyped
    BY InitOK DEF IInv
<1>2. Existing = Role
    BY DEF Init, Existing
<1>3. SyncTyped
    BY <1>1, NoPassTyped, WantedTyped DEF Init, SyncTyped
<1>4. InSync
  <2>1. ~Below(Admin) /\ allowed = {Admin} /\ allowed \subseteq Existing
      BY <1>2 DEF Init, Below
  <2> QED BY <1>2, <2>1 DEF Init, InSync, Door
<1>5. \A s \in Syncer : pass[s].pc = "idle" /\ pass[s].clean = FALSE
    BY NoPassTyped DEF Init
<1> QED BY <1>1, <1>3, <1>4, <1>5 DEF SInv, SyncInv, Idempotent

\* A change of the state makes whatever was read stale, and PocketID behind.
LEMMA ChangesOK ==
    ASSUME SyncTyped, Changes
    PROVE  SyncInv' /\ pass' \in [Syncer -> Passes] /\ behind' \in BOOLEAN
<1>1. \A s \in Syncer : pass'[s].clean = FALSE
    BY DEF Changes, SyncTyped, Passes
<1>2. pass' \in [Syncer -> Passes]
  <2>1. \A s \in Syncer : [pass[s] EXCEPT !.clean = FALSE] \in Passes
      BY DEF SyncTyped, Passes
  <2> QED BY <2>1 DEF Changes
<1> QED BY <1>1, <1>2 DEF Changes, SyncInv

\* A pass that goes on to its next group.
LEMMA OnwardIs ==
    ASSUME SyncTyped, NEW s \in Syncer, NEW r, NEW ok \in BOOLEAN, Onward(s, r, ok)
    PROVE  /\ pass' \in [Syncer -> Passes]
           /\ \A t \in Syncer : t # s => pass'[t] = pass[t]
           /\ pass'[s].groups = pass[s].groups /\ pass'[s].members = pass[s].members
           /\ pass'[s].door = pass[s].door /\ pass'[s].found = pass[s].found
           /\ pass'[s].clean = pass[s].clean
           /\ pass'[s].ok = (pass[s].ok /\ ok)
           /\ IF pass[s].pc = "groups" /\ pass[s].todo \ {r} = {}
              THEN pass'[s].pc = "deleting" /\ pass'[s].todo = Departed(s)
              ELSE pass'[s].pc = pass[s].pc /\ pass'[s].todo = pass[s].todo \ {r}
<1>1. pass[s] \in Passes
    BY DEF SyncTyped
<1>2. CASE pass[s].pc = "groups" /\ pass[s].todo \ {r} = {}
  <2>1. pass' = [pass EXCEPT ![s] = [pass[s] EXCEPT !.pc = "deleting",
                                        !.ok = pass[s].ok /\ ok, !.todo = Departed(s)]]
      BY <1>2 DEF Onward, Sync
  <2>2. [pass[s] EXCEPT !.pc = "deleting", !.ok = pass[s].ok /\ ok, !.todo = Departed(s)]
           \in Passes
      BY <1>1 DEF Passes, Departed
  <2> QED BY <1>1, <1>2, <2>1, <2>2 DEF SyncTyped, Passes
<1>3. CASE ~(pass[s].pc = "groups" /\ pass[s].todo \ {r} = {})
  <2>1. pass' = [pass EXCEPT ![s] = [pass[s] EXCEPT !.todo = pass[s].todo \ {r},
                                        !.ok = pass[s].ok /\ ok]]
      BY <1>3 DEF Onward, Sync
  <2>2. [pass[s] EXCEPT !.todo = pass[s].todo \ {r}, !.ok = pass[s].ok /\ ok] \in Passes
      BY <1>1 DEF Passes
  <2> QED BY <1>1, <1>3, <2>1, <2>2 DEF SyncTyped, Passes
<1> QED BY <1>2, <1>3

\* What a step of one pass has to show.
LEMMA PassMoves ==
    ASSUME SInv, NEW s \in Syncer, pass[s].pc # "idle", behind' \in BOOLEAN,
           \A t \in Syncer : t # s => pass'[t] = pass[t],
           UNCHANGED <<level, held, known, allowed>>,
           pass'[s].clean => pass[s].clean /\ Progress(s)',
           ~behind' => /\ InSync' /\ Idempotent(s)'
                       /\ \A t \in Syncer : t # s => ~behind \/ pass[t].pc = "idle"
    PROVE  SyncInv'
<1>1. ASSUME NEW t \in Syncer, t # s PROVE ~pass[t].clean
    BY <1>1 DEF SInv, SyncInv, Progress
<1>2. ASSUME NEW t \in Syncer, pass'[t].clean PROVE Progress(t)'
    BY <1>1, <1>2 DEF SInv, SyncInv, Progress
<1>3. ASSUME ~behind', NEW t \in Syncer PROVE Idempotent(t)'
  <2>1. CASE t = s
      BY <1>3, <2>1
  <2>2. CASE t # s
      BY <1>3, <2>2, WantedSame DEF SInv, SyncInv, Idempotent, ReadIsCurrent
  <2> QED BY <2>1, <2>2
<1> QED BY <1>2, <1>3 DEF SyncInv

\* A pass reads: what it read is current, and it is clean only when it is alone.
LEMMA ReadStep ==
    ASSUME SInv, NEW s \in Syncer, ReadInputs(s)
    PROVE  SyncTyped' /\ SyncInv'
<1> DEFINE n == [NoPass EXCEPT !.pc = "listing", !.groups = Existing,
                     !.members = MembersWanted, !.door = Door, !.ok = TRUE,
                     !.clean = \A u \in Syncer : pass[u].pc = "idle"]
<1>1. /\ UNCHANGED <<level, held, known, allowed, groups, members, client, behind>>
      /\ pass' = [t \in Syncer |-> IF t = s THEN n ELSE [pass[t] EXCEPT !.clean = FALSE]]
    BY DEF ReadInputs, people, pocketid
<1>2. n \in Passes
    BY WantedTyped DEF SInv, NoPass, Passes
<1>3. /\ n.pc = "listing" /\ n.groups = Existing /\ n.members = MembersWanted
      /\ n.door = Door /\ n.clean = \A u \in Syncer : pass[u].pc = "idle"
    BY DEF NoPass
<1> HIDE DEF n
<1>4. \A t \in Syncer : [pass[t] EXCEPT !.clean = FALSE] \in Passes
    BY DEF SInv, SyncTyped, Passes
<1>5. SyncTyped'
    BY <1>1, <1>2, <1>4 DEF SInv, SyncTyped
<1>6. /\ pass'[s] = n
      /\ \A t \in Syncer : t # s => /\ pass'[t].clean = FALSE
                                   /\ pass'[t].pc = pass[t].pc
                                   /\ pass'[t].groups = pass[t].groups
                                   /\ pass'[t].members = pass[t].members
                                   /\ pass'[t].door = pass[t].door
                                   /\ pass'[t].found = pass[t].found
                                   /\ pass'[t].todo = pass[t].todo
    BY <1>1 DEF SInv, SyncTyped, Passes
<1>7. Existing' = Existing /\ MembersWanted' = MembersWanted /\ Door' = Door
    BY <1>1, WantedSame
<1>8. ASSUME NEW t \in Syncer, pass'[t].clean PROVE Progress(t)'
  <2>1. t = s
      BY <1>6, <1>8
  <2> QED BY <1>3, <1>6, <1>7, <1>8, <2>1 DEF Progress, ReadIsCurrent
<1>9. ASSUME ~behind' PROVE InSync'
    BY <1>1, <1>7, <1>9 DEF SInv, SyncInv, InSync
<1>10. ASSUME ~behind', NEW t \in Syncer PROVE Idempotent(t)'
  <2>1. CASE t = s
      BY <1>3, <1>6, <1>7, <2>1 DEF Idempotent, ReadIsCurrent
  <2>2. CASE t # s
    <3>1. Idempotent(t)
        BY <1>1, <1>10 DEF SInv, SyncInv
    <3>2. UNCHANGED <<pass[t].pc, pass[t].groups, pass[t].members, pass[t].door,
                      pass[t].found, pass[t].todo>>
        BY <1>6, <2>2
    <3> QED BY <1>7, <3>1, <3>2 DEF Idempotent, ReadIsCurrent
  <2> QED BY <2>1, <2>2
<1> QED BY <1>5, <1>8, <1>9, <1>10 DEF SyncInv

\* A pass that ends without having finished leaves PocketID as it found it, or behind.
LEMMA PassEnds ==
    ASSUME SInv, NEW s \in Syncer, pass[s].pc # "idle", Sync(s, NoPass),
           UNCHANGED <<level, held, known, allowed, behind>>,
           ~behind => InSync'
    PROVE  pass' \in [Syncer -> Passes] /\ SyncInv'
<1>1. pass' \in [Syncer -> Passes]
    BY NoPassTyped DEF Sync, SInv, SyncTyped
<1>2. /\ pass'[s].pc = "idle" /\ pass'[s].clean = FALSE
      /\ \A t \in Syncer : t # s => pass'[t] = pass[t]
    BY NoPassTyped DEF Sync, SInv, SyncTyped
<1>3. Idempotent(s)'
    BY <1>2 DEF Idempotent
<1>4. behind' \in BOOLEAN
    BY DEF SInv, SyncTyped
<1> QED BY <1>1, <1>2, <1>3, <1>4, PassMoves

\* PocketID matches as long as nothing in it changes.
LEMMA StillInSync ==
    ASSUME SInv, ~behind, UNCHANGED <<level, held, known, allowed, groups, members, client>>
    PROVE  InSync'
BY WantedSame DEF SInv, SyncInv, InSync

\* The groups are listed, then each made what the pass read.
LEMMA ListStep ==
    ASSUME SInv, NEW s \in Syncer, ListGroups(s)
    PROVE  SyncTyped' /\ SyncInv'
<1> DEFINE n == IF pass[s].groups = {}
                THEN [pass[s] EXCEPT !.pc = "deleting", !.found = groups, !.todo = groups]
                ELSE [pass[s] EXCEPT !.pc = "groups", !.found = groups,
                                     !.todo = pass[s].groups]
<1>1. /\ UNCHANGED <<level, held, known, allowed, groups, members, client, behind>>
      /\ pass[s].pc = "listing" /\ pass' = [pass EXCEPT ![s] = n]
    BY DEF ListGroups, Same, people, pocketid, Sync
<1>2. pass[s] \in Passes
    BY DEF SInv, SyncTyped
<1>3. /\ n \in Passes /\ n.found = groups /\ n.clean = pass[s].clean
      /\ n.groups = pass[s].groups /\ n.members = pass[s].members /\ n.door = pass[s].door
      /\ \/ pass[s].groups = {} /\ n.pc = "deleting" /\ n.todo = groups
         \/ n.pc = "groups" /\ n.todo = pass[s].groups
    BY <1>2 DEF SInv, SyncTyped, Passes
<1> HIDE DEF n
<1>4. SyncTyped'
    BY <1>1, <1>3 DEF SInv, SyncTyped
<1>5. pass'[s] = n /\ \A t \in Syncer : t # s => pass'[t] = pass[t]
    BY <1>1 DEF SInv, SyncTyped
<1>6. Existing' = Existing /\ MembersWanted' = MembersWanted /\ Door' = Door
    BY <1>1, WantedSame
<1>7. ASSUME pass'[s].clean PROVE pass[s].clean /\ Progress(s)'
  <2>1. pass[s].clean /\ Progress(s)
      BY <1>3, <1>5, <1>7 DEF SInv, SyncInv
  <2>2. /\ pass'[s].pc # "idle" /\ ReadIsCurrent(s)'
        /\ \A t \in Syncer : t # s => pass'[t].pc = "idle"
      BY <1>3, <1>5, <1>6, <2>1 DEF Progress, ReadIsCurrent
  <2>3. CASE pass[s].groups = {} /\ n.pc = "deleting" /\ n.todo = groups
      BY <1>1, <1>3, <1>5, <2>1, <2>2, <2>3 DEF Progress
  <2>4. CASE n.pc = "groups" /\ n.todo = pass[s].groups
      BY <1>1, <1>3, <1>5, <2>1, <2>2, <2>4 DEF Progress
  <2> QED BY <1>3, <2>3, <2>4
<1>8. ~behind' => InSync' /\ Idempotent(s)'
    BY <1>1, <1>3, <1>5, <1>6, StillInSync
    DEF SInv, SyncInv, Idempotent, ReadIsCurrent, InSync
<1>9. SyncInv'
    BY <1>1, <1>4, <1>5, <1>7, <1>8, PassMoves DEF SyncTyped
<1> QED BY <1>4, <1>9

\* One of what is left to do is done next.
LEMMA FirstIn == \A todo : todo # {} => First(todo) \in todo
BY DEF First

\* A group is made or its members replaced: those of the pass that read last.
LEMMA WriteStep ==
    ASSUME SInv, NEW s \in Syncer, WriteGroup(s)
    PROVE  SyncTyped' /\ SyncInv'
<1> DEFINE r == First(pass[s].todo)
<1>1. /\ UNCHANGED <<level, held, known, allowed, client, behind>>
      /\ pass[s].pc = "groups" /\ pass[s].todo # {}
    BY DEF WriteGroup, Same, people
<1>2. r \in pass[s].todo /\ r \in Role /\ pass[s] \in Passes
    BY <1>1, FirstIn DEF SInv, SyncTyped, Passes
<1> HIDE DEF r
<1>3. CASE r \in pass[s].found <=> r \in groups
  <2>1. /\ groups' = groups \cup {r}
        /\ members' = [members EXCEPT ![r] = pass[s].members[r]]
        /\ Onward(s, r, TRUE)
      BY <1>3 DEF WriteGroup, MembersGiven, r
  <2>2. /\ pass' \in [Syncer -> Passes]
        /\ \A t \in Syncer : t # s => pass'[t] = pass[t]
        /\ pass'[s].groups = pass[s].groups /\ pass'[s].members = pass[s].members
        /\ pass'[s].door = pass[s].door /\ pass'[s].found = pass[s].found
        /\ pass'[s].clean = pass[s].clean /\ pass'[s].ok = pass[s].ok
        /\ \/ /\ pass[s].todo \ {r} = {}
              /\ pass'[s].pc = "deleting" /\ pass'[s].todo = pass[s].found \ pass[s].groups
           \/ pass'[s].pc = "groups" /\ pass'[s].todo = pass[s].todo \ {r}
    <3>1. pass[s].ok \in BOOLEAN
        BY <1>2 DEF Passes
    <3> QED BY <1>1, <2>1, <3>1, OnwardIs DEF SInv, Departed
  <2>3. SyncTyped'
    <3>1. pass[s].members[r] \subseteq Person
        BY <1>2 DEF Passes
    <3> QED BY <1>1, <1>2, <2>1, <2>2, <3>1 DEF SInv, SyncTyped
  <2>4. Existing' = Existing /\ MembersWanted' = MembersWanted /\ Door' = Door
      BY <1>1, WantedSame
  <2>5. /\ members'[r] = pass[s].members[r]
        /\ \A q \in Role : q # r => members'[q] = members[q]
      BY <1>2, <2>1 DEF SInv, SyncTyped
  <2>6. ASSUME pass'[s].clean PROVE pass[s].clean /\ Progress(s)'
    <3>1. pass[s].clean /\ Progress(s)
        BY <2>2, <2>6 DEF SInv, SyncInv
    <3>2. /\ pass'[s].pc # "idle" /\ ReadIsCurrent(s)'
          /\ \A t \in Syncer : t # s => pass'[t].pc = "idle"
        BY <2>2, <2>4, <3>1 DEF Progress, ReadIsCurrent
    <3>3. ASSUME pass'[s].ok PROVE
            /\ pass[s].todo \subseteq pass[s].groups
            /\ groups' \subseteq pass[s].groups \cup pass[s].found
            /\ pass[s].found \subseteq groups'
            /\ \A q \in pass[s].groups \ (pass[s].todo \ {r}) : Written(s, q)'
      <4>1. /\ pass[s].todo \subseteq pass[s].groups
            /\ groups \subseteq pass[s].groups \cup pass[s].found
            /\ pass[s].found \subseteq groups
            /\ \A q \in pass[s].groups \ pass[s].todo : Written(s, q)
          BY <1>1, <2>2, <3>1, <3>3 DEF Progress
      <4>2. pass[s].groups \subseteq Role
          BY <1>2 DEF Passes
      <4> QED BY <1>2, <2>1, <2>2, <2>5, <4>1, <4>2 DEF Written
    <3> QED BY <2>2, <3>1, <3>2, <3>3 DEF Progress
  <2>7. ASSUME ~behind' PROVE InSync' /\ Idempotent(s)'
    <3>1. InSync /\ Idempotent(s) /\ pass[s].pc # "idle"
        BY <1>1, <2>7 DEF SInv, SyncInv
    <3>2. groups' = groups
        BY <1>1, <1>2, <2>1, <3>1 DEF InSync, Idempotent
    <3>3. \A q \in groups : members'[q] = MembersWanted[q]
        BY <2>5, <3>1 DEF InSync, Idempotent, ReadIsCurrent, SInv, SyncTyped
    <3>4. Idempotent(s)'
        BY <1>1, <2>2, <2>4, <3>1 DEF Idempotent, ReadIsCurrent
    <3> QED BY <1>1, <2>4, <3>1, <3>2, <3>3, <3>4 DEF InSync
  <2>8. SyncInv'
      BY <1>1, <2>2, <2>3, <2>6, <2>7, PassMoves DEF SyncTyped
  <2> QED BY <2>3, <2>8
<1>4. CASE ~(r \in pass[s].found <=> r \in groups)
  <2>1. UNCHANGED <<groups, members>> /\ Sync(s, NoPass)
      BY <1>4 DEF WriteGroup, r
  <2>2. pass' \in [Syncer -> Passes] /\ SyncInv'
      BY <1>1, <2>1, StillInSync, PassEnds
  <2> QED BY <1>1, <2>1, <2>2 DEF SInv, SyncTyped
<1> QED BY <1>3, <1>4

\* A group deleted is none of those the pass read.
LEMMA DeleteStep ==
    ASSUME SInv, NEW s \in Syncer, DeleteGroup(s)
    PROVE  SyncTyped' /\ SyncInv'
<1> DEFINE r == First(pass[s].todo)
<1>1. /\ UNCHANGED <<level, held, known, allowed, behind>>
      /\ pass[s].pc = "deleting" /\ pass[s].todo # {}
      /\ groups' = groups \ {r} /\ client' = client \ {r}
      /\ members' = [members EXCEPT ![r] = {}]
      /\ Onward(s, r, r \in groups)
    BY DEF DeleteGroup, Same, people
<1>2. r \in pass[s].todo /\ r \in Role /\ pass[s] \in Passes
    BY <1>1, FirstIn DEF SInv, SyncTyped, Passes
<1> HIDE DEF r
<1>3. /\ pass' \in [Syncer -> Passes]
      /\ \A t \in Syncer : t # s => pass'[t] = pass[t]
      /\ pass'[s].groups = pass[s].groups /\ pass'[s].members = pass[s].members
      /\ pass'[s].door = pass[s].door /\ pass'[s].found = pass[s].found
      /\ pass'[s].clean = pass[s].clean /\ (pass'[s].ok => pass[s].ok)
      /\ pass'[s].pc = "deleting" /\ pass'[s].todo = pass[s].todo \ {r}
  <2>1. (r \in groups) \in BOOLEAN
      OBVIOUS
  <2> QED BY <1>1, <2>1, OnwardIs, ZenonT(40) DEF SInv
<1>4. SyncTyped'
    BY <1>1, <1>2, <1>3 DEF SInv, SyncTyped
<1>5. Existing' = Existing /\ MembersWanted' = MembersWanted /\ Door' = Door
    BY <1>1, WantedSame
<1>6. \A q \in Role : q # r => members'[q] = members[q]
    BY <1>1, <1>2 DEF SInv, SyncTyped
<1>7. ASSUME pass'[s].clean PROVE pass[s].clean /\ Progress(s)'
  <2>1. pass[s].clean /\ Progress(s)
      BY <1>3, <1>7 DEF SInv, SyncInv
  <2>2. /\ pass'[s].pc # "idle" /\ ReadIsCurrent(s)'
        /\ \A t \in Syncer : t # s => pass'[t].pc = "idle"
      BY <1>3, <1>5, <2>1 DEF Progress, ReadIsCurrent
  <2>3. ASSUME pass'[s].ok PROVE
          /\ (pass[s].todo \ {r}) \cap pass[s].groups = {}
          /\ groups' \subseteq pass[s].groups \cup (pass[s].todo \ {r})
          /\ \A q \in pass[s].groups : Written(s, q)'
    <3>1. /\ pass[s].todo \cap pass[s].groups = {}
          /\ groups \subseteq pass[s].groups \cup pass[s].todo
          /\ \A q \in pass[s].groups : Written(s, q)
        BY <1>1, <1>3, <2>1, <2>3 DEF Progress
    <3>2. pass[s].groups \subseteq Role
        BY <1>2 DEF Passes
    <3> QED BY <1>1, <1>2, <1>3, <1>6, <3>1, <3>2 DEF Written
  <2> QED BY <1>3, <2>1, <2>2, <2>3 DEF Progress
<1>8. behind
    BY <1>1 DEF SInv, SyncInv, Idempotent
<1>9. SyncInv'
    BY <1>1, <1>3, <1>4, <1>7, <1>8, PassMoves DEF SyncTyped
<1> QED BY <1>4, <1>9

\* The app's door, last: a pass that says it is done has made everything match.
LEMMA RestrictStep ==
    ASSUME SInv, NEW s \in Syncer, Restrict(s)
    PROVE  SyncTyped' /\ SyncInv'
<1>1. /\ UNCHANGED <<level, held, known, allowed, groups, members>>
      /\ pass[s].pc = "deleting" /\ pass[s].todo = {}
      /\ client' = IF pass[s].door \subseteq groups THEN pass[s].door ELSE client
      /\ behind' = (behind /\ ~(SaysDone(s) /\ pass[s].door \subseteq groups))
      /\ pass' = [pass EXCEPT ![s] = NoPass]
    BY DEF Restrict, Same, people, Sync
<1>2. pass[s] \in Passes
    BY DEF SInv, SyncTyped
<1>3. pass[s].door \subseteq Role
    BY <1>2 DEF Passes
<1>4. SyncTyped'
    BY <1>1, <1>3, NoPassTyped DEF SInv, SyncTyped
<1>5. /\ \A t \in Syncer : t # s => pass'[t] = pass[t]
      /\ pass'[s].pc = "idle" /\ pass'[s].clean = FALSE
    BY <1>1, NoPassTyped DEF SInv, SyncTyped
<1>6. Existing' = Existing /\ MembersWanted' = MembersWanted /\ Door' = Door
    BY <1>1, WantedSame
<1>7. ASSUME ~behind' PROVE InSync' /\ \A t \in Syncer : t # s => ~behind \/ pass[t].pc = "idle"
  <2>1. CASE ~behind
    <3>1. InSync /\ pass[s].door = Door
        BY <1>1, <2>1 DEF SInv, SyncInv, Idempotent, ReadIsCurrent
    <3>2. client' = Door
        BY <1>1, <3>1 DEF InSync
    <3> QED BY <1>1, <1>6, <2>1, <3>1, <3>2 DEF InSync
  <2>2. CASE behind
    <3>1. pass[s].ok /\ pass[s].clean /\ pass[s].door \subseteq groups
        BY <1>1, <1>7, <2>2 DEF SaysDone
    <3>2. Progress(s)
        BY <3>1 DEF SInv, SyncInv
    <3>3. /\ groups = Existing /\ client' = Door
          /\ \A r \in groups : members[r] = MembersWanted[r]
        BY <1>1, <3>1, <3>2 DEF Progress, ReadIsCurrent, Written
    <3>4. InSync'
        BY <1>1, <1>6, <3>3 DEF InSync
    <3> QED BY <3>2, <3>4 DEF Progress
  <2> QED BY <2>1, <2>2 DEF SInv, SyncTyped
<1>8. Idempotent(s)'
    BY <1>5 DEF Idempotent
<1>9. SyncInv'
    BY <1>1, <1>4, <1>5, <1>7, <1>8, PassMoves DEF SyncTyped
<1> QED BY <1>4, <1>9

\* A call PocketID refuses ends the pass, or keeps it from saying it is done.
LEMMA RefusedStep ==
    ASSUME SInv, NEW s \in Syncer, Refused(s)
    PROVE  SyncTyped' /\ SyncInv'
<1> DEFINE r == First(pass[s].todo)
<1>1. UNCHANGED <<level, held, known, allowed, client, behind>>
    BY DEF Refused, Same, people
<1>2. CASE /\ pass[s].pc \in {"listing", "groups", "deleting"} /\ Sync(s, NoPass)
           /\ UNCHANGED <<groups, members>>
  <2>1. pass' \in [Syncer -> Passes] /\ SyncInv'
      BY <1>1, <1>2, StillInSync, PassEnds
  <2> QED BY <1>1, <1>2, <2>1 DEF SInv, SyncTyped
<1>3. CASE /\ pass[s].pc = "groups" /\ pass[s].todo # {} /\ Sync(s, NoPass)
           /\ r \notin pass[s].found \cup groups
           /\ groups' = groups \cup {r} /\ members' = [members EXCEPT ![r] = {}]
  <2>1. r \in pass[s].todo /\ r \in Role
      BY <1>3, FirstIn DEF SInv, SyncTyped, Passes
  <2>2. behind
      BY <1>3, <2>1 DEF SInv, SyncInv, InSync, Idempotent
  <2>3. pass' \in [Syncer -> Passes] /\ SyncInv'
      BY <1>1, <1>3, <2>2, PassEnds
  <2> QED BY <1>1, <1>3, <2>1, <2>3 DEF SInv, SyncTyped
<1>4. CASE /\ pass[s].pc \in {"groups", "deleting"} /\ pass[s].todo # {}
           /\ Onward(s, r, FALSE) /\ UNCHANGED <<groups, members>>
  <2>1. /\ pass' \in [Syncer -> Passes]
        /\ \A t \in Syncer : t # s => pass'[t] = pass[t]
        /\ pass'[s].groups = pass[s].groups /\ pass'[s].members = pass[s].members
        /\ pass'[s].door = pass[s].door /\ pass'[s].found = pass[s].found
        /\ pass'[s].clean = pass[s].clean /\ ~pass'[s].ok
        /\ \/ /\ pass[s].pc = "groups" /\ pass'[s].pc = "deleting"
              /\ pass'[s].todo = pass[s].found \ pass[s].groups
           \/ pass'[s].pc = pass[s].pc /\ pass'[s].todo = pass[s].todo \ {r}
      BY <1>4, OnwardIs DEF SInv, Departed
  <2>2. SyncTyped'
      BY <1>1, <1>4, <2>1 DEF SInv, SyncTyped
  <2>3. Existing' = Existing /\ MembersWanted' = MembersWanted /\ Door' = Door
      BY <1>1, WantedSame
  <2>4. ASSUME pass'[s].clean PROVE pass[s].clean /\ Progress(s)'
    <3>1. pass[s].clean /\ Progress(s)
        BY <2>1, <2>4 DEF SInv, SyncInv
    <3>2. ReadIsCurrent(s)'
        BY <2>1, <2>3, <3>1 DEF Progress, ReadIsCurrent
    <3>3. pass'[s].pc # "idle" /\ \A t \in Syncer : t # s => pass'[t].pc = "idle"
        BY <1>4, <2>1, <3>1 DEF Progress
    <3> QED BY <2>1, <3>1, <3>2, <3>3 DEF Progress
  <2>5. ASSUME ~behind' PROVE InSync' /\ Idempotent(s)'
    <3>1. InSync'
        BY <1>1, <1>4, <2>5, StillInSync
    <3>2. Idempotent(s)'
        BY <1>1, <1>4, <2>1, <2>3, <2>5 DEF SInv, SyncInv, Idempotent, ReadIsCurrent
    <3> QED BY <3>1, <3>2
  <2>6. SyncInv'
      BY <1>1, <1>4, <2>1, <2>2, <2>4, <2>5, PassMoves DEF SyncTyped
  <2> QED BY <2>2, <2>6
<1> QED BY <1>2, <1>3, <1>4 DEF Refused

\* Every step keeps the passes' invariant.
LEMMA SyncStep == SInv /\ [Next]_vars => SInv'
<1> SUFFICES ASSUME SInv, [Next]_vars PROVE SInv'
    OBVIOUS
<1>1. RolesTyped'
    BY TypedStep DEF SInv
<1>2. ASSUME UNCHANGED <<level, held, known, allowed, groups, members, client, pass, behind>>
      PROVE  SyncTyped' /\ SyncInv'
  <2>1. Existing' = Existing /\ MembersWanted' = MembersWanted /\ Door' = Door
      BY <1>2, WantedSame
  <2>2. SyncTyped'
      BY <1>2 DEF SInv, SyncTyped
  <2>3. ASSUME NEW s \in Syncer PROVE /\ Progress(s) => Progress(s)'
                                      /\ Idempotent(s) => Idempotent(s)'
      BY <1>2, <2>1 DEF Progress, Idempotent, ReadIsCurrent, Written
  <2>4. InSync => InSync'
      BY <1>2, <2>1 DEF InSync
  <2> QED BY <1>2, <2>2, <2>3, <2>4 DEF SInv, SyncInv
<1>3. ASSUME NEW a \in Asker, \/ Request(a) \/ CutShort(a) \/ Invite(a) \/ Consume(a)
      PROVE SyncTyped' /\ SyncInv'
  <2>1. CASE Request(a)
      BY <1>2, <2>1, JudgedTyped DEF SInv, Begins, people, pocketid
  <2>2. CASE CutShort(a) \/ Invite(a) \/ Consume(a)
      BY <1>2, <2>2 DEF CutShort, Invite, Consume, people, pocketid
  <2> QED BY <1>3, <2>1, <2>2
<1>4. ASSUME NEW a \in Asker, \/ GiveRole(a) \/ PutRole(a) \/ DeleteRole(a) \/ AllowRole(a)
                              \/ CreateUser(a) \/ GrantedBy(a) \/ AddUser(a)
                              \/ Identify(a)
      PROVE SyncTyped' /\ SyncInv'
  <2>1. \/ UNCHANGED <<level, held, known, allowed, groups, members, client, pass, behind>>
        \/ Changes /\ UNCHANGED <<groups, members, client>>
      BY <1>4 DEF GiveRole, PutRole, DeleteRole, AllowRole, CreateUser, GrantedBy, AddUser,
                  Identify, people, pocketid
  <2>2. CASE Changes /\ UNCHANGED <<groups, members, client>>
      BY <2>2, ChangesOK DEF SInv, SyncTyped
  <2> QED BY <1>2, <2>1, <2>2
<1>5. CASE Revoke \/ UNCHANGED vars
  <2>1. UNCHANGED <<level, held, known, allowed, groups, members, client, pass, behind>>
      BY <1>5 DEF Revoke, vars, pocketid
  <2> QED BY <1>1, <1>2, <2>1 DEF SInv
<1>6. CASE ByHand
  <2>1. Changes /\ groups' = groups
      BY <1>6 DEF ByHand
  <2>2. client' \subseteq Role
      BY <1>6 DEF ByHand, SInv, SyncTyped
  <2>3. members' \in [Role -> SUBSET Person]
    <3>1. ASSUME NEW r \in groups, NEW p \in known,
                 members' = [members EXCEPT ![r] = IF p \in @ THEN @ \ {p} ELSE @ \cup {p}]
          PROVE  members' \in [Role -> SUBSET Person]
        BY <3>1 DEF SInv, SyncTyped, RolesTyped
    <3>2. CASE UNCHANGED members
        BY <3>2 DEF SInv, SyncTyped
    <3> QED BY <1>6, <3>1, <3>2 DEF ByHand
  <2> QED BY <1>1, <2>1, <2>2, <2>3, ChangesOK DEF SInv, SyncTyped
<1>7. ASSUME NEW s \in Syncer, ReadInputs(s) \/ Pass(s) \/ Refused(s)
      PROVE SyncTyped' /\ SyncInv'
    BY <1>7, ReadStep, ListStep, WriteStep, DeleteStep, RestrictStep, RefusedStep DEF Pass
<1> QED BY <1>1, <1>3, <1>4, <1>5, <1>6, <1>7 DEF Next, Apply, SInv

\* Once a pass of sync_roles that nothing changed under and nothing refused has ended,
\* PocketID holds the roles, and no pass that follows or overlaps undoes it: its groups,
\* who is in them, and whom the app lets in.
THEOREM SyncHolds == Spec => []SyncedIsTrue
<1>1. SInv => SyncedIsTrue
    BY DEF SInv, SyncInv, SyncTyped, SyncedIsTrue
<1> QED BY <1>1, SyncInit, SyncStep, PTL DEF Spec
=============================================================================
