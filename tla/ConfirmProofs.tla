--------------------------- MODULE ConfirmProofs ---------------------------
(***************************************************************************)
(* Confirm implements Mandate, whatever the numbers of confirmations,      *)
(* intents, accounts and requests.  A confirmation taken out of the table  *)
(* is held by one request alone (HeldApart): that is what makes its use    *)
(* exclusive while the request waits for PocketID, and it is inductive     *)
(* together with the types.                                                *)
(***************************************************************************)
EXTENDS Confirm, TLAPS

\* What a role that changes leaves true of the requests under way.
AllowedSinceBegun ==
    /\ \A c \in Confirmation : c \in granted => passkey[c] # None
    /\ \A p \in Process : pc[p] \in {"judging", "acting"} => Who(p) # None
    /\ \A p \in Process : pc[p] # "idle" =>
          \A a \in Account : asked[p] \in may[a] => a \in allowed[p]

IInv == TypeOK /\ HeldApart

\* The initial states satisfy the invariant.
LEMMA InitOK == Init => IInv
BY ConfirmAssumption DEF Init, IInv, TypeOK, HeldApart, PC

\* Making room only drops entries.
LEMMA RoomDrops == \A others \in RoomMade : others \subseteq open
BY DEF RoomMade, Kept

\* A request that is over holds nothing, and disturbs no other.
LEMMA DropOK ==
    ASSUME TypeOK, NEW p \in Process, Drop(p)
    PROVE  /\ pc' \in [Process -> PC]
           /\ conf' \in [Process -> Confirmation \cup {None}]
           /\ asked' \in [Process -> Intent \cup {None}]
           /\ asOf' \in [Process -> Nat]
           /\ held' \in [Process -> SUBSET Intent]
           /\ allowed' \in [Process -> SUBSET Account]
           /\ pc'[p] = "idle" /\ held'[p] = {}
           /\ \A q \in Process : q # p => /\ pc'[q] = pc[q] /\ conf'[q] = conf[q]
                                        /\ asked'[q] = asked[q] /\ held'[q] = held[q]
                                        /\ allowed'[q] = allowed[q]
BY DEF Drop, TypeOK, PC

\* Every action keeps the types.
LEMMA TypeStep == TypeOK /\ HeldApart /\ [Next]_vars => TypeOK'
<1> SUFFICES ASSUME TypeOK, HeldApart, [Next]_vars PROVE TypeOK'
    OBVIOUS
<1> USE ConfirmAssumption
<1>1. ASSUME NEW c \in Confirmation, NEW is \in SUBSET Intent, Begin(c, is) PROVE TypeOK'
    BY <1>1, RoomDrops DEF Begin, TypeOK, pocketid, request
<1>2. ASSUME NEW c \in Confirmation, NEW a \in Account, Present(c, a) PROVE TypeOK'
    BY <1>2 DEF Present, TypeOK, table, request
<1>3. ASSUME NEW p \in Process, NEW c \in Confirmation, NEW i \in Intent, Take(p, c, i)
      PROVE TypeOK'
    BY <1>3 DEF Take, Taken, TypeOK, pocketid, request, PC
<1>4. ASSUME NEW p \in Process, Exchange(p) PROVE TypeOK'
  <2>1. CASE Drop(p) /\ UNCHANGED granted
      BY <1>4, <2>1, DropOK DEF Exchange, TypeOK, pocketid
  <2>2. CASE ~(Drop(p) /\ UNCHANGED granted)
      BY <1>4, <2>2 DEF Exchange, TypeOK, HeldApart, pocketid, PC
  <2> QED BY <2>1, <2>2
<1>5. ASSUME NEW p \in Process, Judge(p) PROVE TypeOK'
  <2> USE DEF PC
  <2>1. pc[p] = "judging" /\ conf[p] \in begun /\ asked[p] \in held[p]
      BY <1>5 DEF Judge, HeldApart
  <2>2. CASE Granted(p)
      BY <1>5, <2>1, <2>2 DEF Judge, PutBack, TypeOK, pocketid
  <2>3. CASE ~Granted(p)
      BY <1>5, <2>1, <2>3 DEF Judge, Drop, TypeOK, pocketid
  <2> QED BY <2>2, <2>3
<1>6. ASSUME NEW p \in Process, Act(p) PROVE TypeOK'
  <2>1. conf[p] \in begun /\ asked[p] \in held[p]
      BY <1>6 DEF Act, HeldApart
  <2> QED BY <1>6, <2>1 DEF Act, Drop, TypeOK, table, pocketid, PC
<1>7. ASSUME NEW a \in Account, NEW is \in {{}, Intent}, SetRole(a, is) PROVE TypeOK'
  <2>1. allowed' \in [Process -> SUBSET Account]
      BY <1>7 DEF SetRole, TypeOK
  <2> QED BY <1>7, <2>1 DEF SetRole, TypeOK, table, pocketid, request
<1>8. CASE Restart
    BY <1>8 DEF Restart, TypeOK, pocketid, PC
<1>9. CASE Tick
    BY <1>9 DEF Tick, TypeOK, table, pocketid, request
<1>10. CASE UNCHANGED vars
    BY <1>10 DEF TypeOK, vars, table, pocketid, request
<1> QED
    BY <1>1, <1>2, <1>3, <1>4, <1>5, <1>6, <1>7, <1>8, <1>9, <1>10 DEF Next

\* Every action leaves each confirmation with one holder at most.
LEMMA HeldStep == TypeOK /\ HeldApart /\ [Next]_vars => HeldApart'
<1> SUFFICES ASSUME TypeOK, HeldApart, [Next]_vars PROVE HeldApart'
    OBVIOUS
<1> USE ConfirmAssumption
<1>1. ASSUME NEW c \in Confirmation, NEW is \in SUBSET Intent, Begin(c, is)
      PROVE HeldApart'
    BY <1>1, RoomDrops DEF Begin, TypeOK, HeldApart, pocketid, request
<1>2. ASSUME NEW c \in Confirmation, NEW a \in Account, Present(c, a) PROVE HeldApart'
    BY <1>2 DEF Present, HeldApart, table, request
<1>3. ASSUME NEW p \in Process, NEW c \in Confirmation, NEW i \in Intent, Take(p, c, i)
      PROVE HeldApart'
  <2>1. CASE UNCHANGED request
      BY <1>3, <2>1 DEF Take, Taken, HeldApart, request
  <2>2. CASE ~UNCHANGED request
    <3>1. /\ c \in open /\ c \in begun /\ i \in left[c] /\ pc[p] = "idle"
          /\ open' = open \ {c} /\ UNCHANGED <<begun, left>>
        BY <1>3, <2>2 DEF Take, Taken, TypeOK
    <3>2. /\ pc'[p] \in {"exchanging", "judging"}
          /\ conf'[p] = c /\ asked'[p] = i /\ held'[p] = left[c]
        BY <1>3, <2>2 DEF Take, TypeOK
    <3>3. \A q \in Process : q # p => /\ pc'[q] = pc[q] /\ conf'[q] = conf[q]
                                     /\ asked'[q] = asked[q] /\ held'[q] = held[q]
        BY <1>3, <2>2 DEF Take, TypeOK
    <3>4. \A q \in Process : q # p /\ pc[q] # "idle" /\ conf[q] = c =>
              pc[q] = "acting" /\ held[q] = {asked[q]} /\ asked[q] \notin left[c]
        BY <3>1 DEF HeldApart, TypeOK, PC
    <3> QED BY <3>1, <3>2, <3>3, <3>4 DEF HeldApart
  <2> QED BY <2>1, <2>2
<1>4. ASSUME NEW p \in Process, Exchange(p) PROVE HeldApart'
  <2>1. CASE Drop(p) /\ UNCHANGED granted
    <3>1. UNCHANGED <<begun, open, left>>
        BY <1>4 DEF Exchange
    <3> QED BY <2>1, <3>1, DropOK DEF HeldApart
  <2>2. CASE ~(Drop(p) /\ UNCHANGED granted)
      BY <1>4, <2>2 DEF Exchange, TypeOK, HeldApart, pocketid
  <2> QED BY <2>1, <2>2
<1>5. ASSUME NEW p \in Process, Judge(p) PROVE HeldApart'
  <2>1. CASE Granted(p)
      BY <1>5, <2>1 DEF Judge, PutBack, TypeOK, HeldApart, pocketid
  <2>2. CASE ~Granted(p)
    <3>1. Drop(p) /\ UNCHANGED <<begun, open, left>>
        BY <1>5, <2>2 DEF Judge
    <3> QED BY <3>1, DropOK DEF HeldApart
  <2> QED BY <2>1, <2>2
<1>6. ASSUME NEW p \in Process, Act(p) PROVE HeldApart'
    BY <1>6 DEF Act, Drop, TypeOK, HeldApart, table, pocketid
<1>7. ASSUME NEW a \in Account, NEW is \in {{}, Intent}, SetRole(a, is) PROVE HeldApart'
    BY <1>7 DEF SetRole, HeldApart, table, pocketid, request
<1>8. CASE Restart
    BY <1>8 DEF Restart, TypeOK, HeldApart
<1>9. CASE Tick
    BY <1>9 DEF Tick, HeldApart, table, pocketid, request
<1>10. CASE UNCHANGED vars
    BY <1>10 DEF HeldApart, vars, table, pocketid, request
<1> QED
    BY <1>1, <1>2, <1>3, <1>4, <1>5, <1>6, <1>7, <1>8, <1>9, <1>10 DEF Next

\* A request is the only one that holds the confirmation it took out of the table,
\* through every interleaving of consume() with itself, begin() and a restart.
THEOREM OneHolder == Spec => [](TypeOK /\ HeldApart)
<1>1. IInv /\ [Next]_vars => IInv'
    BY TypeStep, HeldStep DEF IInv
<1>2. Spec => []IInv
    BY InitOK, <1>1, PTL DEF Spec
<1> QED BY <1>2, PTL DEF IInv

-----------------------------------------------------------------------------
\* A role given or taken away since the request came is counted.
LEMMA AllowedStep == IInv /\ AllowedSinceBegun /\ [Next]_vars => AllowedSinceBegun'
<1> SUFFICES ASSUME IInv, AllowedSinceBegun, [Next]_vars PROVE AllowedSinceBegun'
    OBVIOUS
<1> USE ConfirmAssumption DEF IInv
<1>1. ASSUME NEW c \in Confirmation, NEW is \in SUBSET Intent, Begin(c, is)
      PROVE AllowedSinceBegun'
    BY <1>1 DEF Begin, AllowedSinceBegun, pocketid, request, Who
<1>2. ASSUME NEW c \in Confirmation, NEW a \in Account, Present(c, a)
      PROVE AllowedSinceBegun'
    BY <1>2 DEF Present, TypeOK, HeldApart, AllowedSinceBegun, table, request, Who
<1>3. ASSUME NEW p \in Process, NEW c \in Confirmation, NEW i \in Intent, Take(p, c, i)
      PROVE AllowedSinceBegun'
  <2>1. CASE UNCHANGED <<request, allowed>>
      BY <1>3, <2>1 DEF Take, AllowedSinceBegun, pocketid, request, Who
  <2>2. CASE ~UNCHANGED <<request, allowed>>
      BY <1>3, <2>2 DEF Take, TypeOK, AllowedSinceBegun, pocketid, Who
  <2> QED BY <2>1, <2>2
<1>4. ASSUME NEW p \in Process, Exchange(p) PROVE AllowedSinceBegun'
  <2>1. CASE Drop(p) /\ UNCHANGED granted
      BY <1>4, <2>1, DropOK DEF Exchange, AllowedSinceBegun, pocketid, Who
  <2>2. CASE ~(Drop(p) /\ UNCHANGED granted)
      BY <1>4, <2>2 DEF Exchange, TypeOK, AllowedSinceBegun, pocketid, Who
  <2> QED BY <2>1, <2>2
<1>5. ASSUME NEW p \in Process, Judge(p) PROVE AllowedSinceBegun'
  <2>1. CASE Granted(p)
      BY <1>5, <2>1 DEF Judge, TypeOK, AllowedSinceBegun, pocketid, Who
  <2>2. CASE ~Granted(p)
      BY <1>5, <2>2, DropOK DEF Judge, AllowedSinceBegun, pocketid, Who
  <2> QED BY <2>1, <2>2
<1>6. ASSUME NEW p \in Process, Act(p) PROVE AllowedSinceBegun'
    BY <1>6, DropOK DEF Act, AllowedSinceBegun, table, pocketid, Who
<1>7. ASSUME NEW a \in Account, NEW is \in {{}, Intent}, SetRole(a, is)
      PROVE AllowedSinceBegun'
    BY <1>7 DEF SetRole, TypeOK, AllowedSinceBegun, table, pocketid, request, Who
<1>8. CASE Restart
    BY <1>8 DEF Restart, AllowedSinceBegun, pocketid
<1>9. CASE Tick
    BY <1>9 DEF Tick, AllowedSinceBegun, table, pocketid, request, Who
<1>10. CASE UNCHANGED vars
    BY <1>10 DEF AllowedSinceBegun, vars, table, pocketid, request, Who
<1> QED
    BY <1>1, <1>2, <1>3, <1>4, <1>5, <1>6, <1>7, <1>8, <1>9, <1>10 DEF Next

\* The account a request acts for is one the role allowed since the request came.
LEMMA RoleStep ==
    IInv /\ AllowedSinceBegun /\ RoleReadNow /\ [Next]_vars => RoleReadNow'
<1> SUFFICES ASSUME IInv, AllowedSinceBegun, RoleReadNow, [Next]_vars PROVE RoleReadNow'
    OBVIOUS
<1> USE ConfirmAssumption DEF IInv
<1>1. ASSUME NEW c \in Confirmation, NEW is \in SUBSET Intent, Begin(c, is)
      PROVE RoleReadNow'
    BY <1>1 DEF Begin, RoleReadNow, pocketid, request, Who
<1>2. ASSUME NEW c \in Confirmation, NEW a \in Account, Present(c, a) PROVE RoleReadNow'
    BY <1>2 DEF Present, TypeOK, AllowedSinceBegun, RoleReadNow, table, request, Who
<1>3. ASSUME NEW p \in Process, NEW c \in Confirmation, NEW i \in Intent, Take(p, c, i)
      PROVE RoleReadNow'
  <2>1. CASE UNCHANGED <<request, allowed>>
      BY <1>3, <2>1 DEF Take, RoleReadNow, pocketid, request, Who
  <2>2. CASE ~UNCHANGED <<request, allowed>>
      BY <1>3, <2>2 DEF Take, TypeOK, RoleReadNow, pocketid, Who
  <2> QED BY <2>1, <2>2
<1>4. ASSUME NEW p \in Process, Exchange(p) PROVE RoleReadNow'
  <2>1. CASE Drop(p) /\ UNCHANGED granted
      BY <1>4, <2>1, DropOK DEF Exchange, RoleReadNow, pocketid, Who
  <2>2. CASE ~(Drop(p) /\ UNCHANGED granted)
      BY <1>4, <2>2 DEF Exchange, TypeOK, RoleReadNow, pocketid, Who
  <2> QED BY <2>1, <2>2
<1>5. ASSUME NEW p \in Process, Judge(p) PROVE RoleReadNow'
  <2>1. CASE Granted(p)
    <3>1. Who(p) \in Account /\ asked[p] \in may[Who(p)]
        BY <1>5, <2>1 DEF Judge, Granted, HeldApart, TypeOK, AllowedSinceBegun, Who
    <3>2. Who(p) \in allowed[p]
        BY <1>5, <3>1 DEF Judge, AllowedSinceBegun
    <3> QED BY <1>5, <2>1, <3>2 DEF Judge, TypeOK, RoleReadNow, pocketid, Who
  <2>2. CASE ~Granted(p)
      BY <1>5, <2>2, DropOK DEF Judge, RoleReadNow, pocketid, Who
  <2> QED BY <2>1, <2>2
<1>6. ASSUME NEW p \in Process, Act(p) PROVE RoleReadNow'
    BY <1>6, DropOK DEF Act, RoleReadNow, table, pocketid, Who
<1>7. ASSUME NEW a \in Account, NEW is \in {{}, Intent}, SetRole(a, is)
      PROVE RoleReadNow'
    BY <1>7 DEF SetRole, TypeOK, RoleReadNow, table, pocketid, request, Who
<1>8. CASE Restart
    BY <1>8 DEF Restart, RoleReadNow
<1>9. CASE Tick
    BY <1>9 DEF Tick, RoleReadNow, table, pocketid, request, Who
<1>10. CASE UNCHANGED vars
    BY <1>10 DEF RoleReadNow, vars, table, pocketid, request, Who
<1> QED
    BY <1>1, <1>2, <1>3, <1>4, <1>5, <1>6, <1>7, <1>8, <1>9, <1>10 DEF Next

\* consume() reads the role after the passkey was presented: nothing is done for an
\* account whose role did not allow it at some moment since the request came.
THEOREM RoleCounted == Spec => []RoleReadNow
<1>1. Init => AllowedSinceBegun /\ RoleReadNow
    BY DEF Init, AllowedSinceBegun, RoleReadNow
<1>2. Spec => []IInv
    BY OneHolder, PTL DEF IInv
<1>3. IInv /\ AllowedSinceBegun /\ RoleReadNow /\ [Next]_vars
         => AllowedSinceBegun' /\ RoleReadNow'
    BY AllowedStep, RoleStep
<1> QED BY <1>1, <1>2, <1>3, PTL DEF Spec

-----------------------------------------------------------------------------
\* What is left to do under a confirmation, entry and requests in turn.
LEMMA MandateOf ==
    ASSUME NEW c \in Confirmation
    PROVE  \A i : i \in StillMandated[c] <=>
              \/ c \in open /\ i \in left[c]
              \/ \E q \in Process : conf[q] = c /\ i \in held[q]
BY DEF StillMandated

LEMMA MandateOfNext ==
    ASSUME NEW c \in Confirmation
    PROVE  \A i : i \in StillMandated'[c] <=>
              \/ c \in open' /\ i \in left'[c]
              \/ \E q \in Process : conf'[q] = c /\ i \in held'[q]
BY DEF StillMandated

\* Every step of the daemon is a step of the promise, or leaves it alone.
LEMMA StepPromised == IInv /\ [Next]_vars => [Promise!Next]_(Promise!vars)
<1> SUFFICES ASSUME IInv, [Next]_vars PROVE Promise!Next \/ UNCHANGED Promise!vars
    OBVIOUS
<1> USE ConfirmAssumption DEF IInv
<1>0. ASSUME UNCHANGED <<begun, acted>>,
             \A c \in Confirmation : StillMandated'[c] \subseteq StillMandated[c]
      PROVE  Promise!Next
    BY <1>0 DEF Promise!Next, Promise!Withdraw
<1>00. ASSUME UNCHANGED <<begun, open, left, request, acted>> PROVE UNCHANGED Promise!vars
    BY <1>00 DEF Promise!vars, StillMandated, request
<1>1. ASSUME NEW c \in Confirmation, NEW is \in SUBSET Intent, Begin(c, is)
      PROVE Promise!Next
  <2>1. ASSUME NEW d \in Confirmation \ {c}
        PROVE  StillMandated'[d] \subseteq StillMandated[d]
    <3>1. (d \in open' => d \in open) /\ left'[d] = left[d] /\ UNCHANGED <<conf, held>>
        BY <1>1, <2>1, RoomDrops DEF Begin, TypeOK, request
    <3> QED BY <3>1, MandateOf, MandateOfNext
  <2>2. Promise!Give(c)
      BY <1>1, <2>1 DEF Begin, Promise!Give
  <2> QED BY <2>2 DEF Promise!Next
<1>2. ASSUME NEW c \in Confirmation, NEW a \in Account, Present(c, a)
      PROVE UNCHANGED Promise!vars
    BY <1>2, <1>00 DEF Present, table
<1>3. ASSUME NEW p \in Process, NEW c \in Confirmation, NEW i \in Intent, Take(p, c, i)
      PROVE Promise!Next
  <2>1. /\ c \in open /\ open' = open \ {c} /\ UNCHANGED <<begun, left, acted>>
      BY <1>3 DEF Take, Taken
  <2>2. \A q \in Process : \/ conf'[q] = conf[q] /\ held'[q] = held[q]
                           \/ conf'[q] = c /\ held'[q] = left[c]
    <3>1. \/ conf' = conf /\ held' = held
          \/ conf' = [conf EXCEPT ![p] = c] /\ held' = [held EXCEPT ![p] = left[c]]
        BY <1>3 DEF Take, request
    <3>2. conf \in [Process -> Confirmation \cup {None}] /\ held \in [Process -> SUBSET Intent]
        BY DEF TypeOK
    <3>3. CASE conf' = conf /\ held' = held
        BY <3>3
    <3>4. CASE conf' = [conf EXCEPT ![p] = c] /\ held' = [held EXCEPT ![p] = left[c]]
        BY <3>2, <3>4
    <3> QED BY <3>1, <3>3, <3>4
  <2>3. \A d \in Confirmation : StillMandated'[d] \subseteq StillMandated[d]
      BY <2>1, <2>2, MandateOf, MandateOfNext
  <2> QED BY <1>0, <2>1, <2>3
<1>4. ASSUME NEW p \in Process, Exchange(p) PROVE Promise!Next
  <2>1. UNCHANGED <<begun, open, left, acted>>
      BY <1>4 DEF Exchange
  <2>2. \A q \in Process : \/ conf'[q] = conf[q] /\ held'[q] = held[q]
                           \/ held'[q] = {}
      BY <1>4, DropOK DEF Exchange
  <2>3. \A d \in Confirmation : StillMandated'[d] \subseteq StillMandated[d]
      BY <2>1, <2>2, MandateOf, MandateOfNext
  <2> QED BY <1>0, <2>1, <2>3
<1>5. ASSUME NEW p \in Process, Judge(p) PROVE Promise!Next
  <2>1. UNCHANGED <<begun, acted>> /\ pc[p] = "judging"
      BY <1>5 DEF Judge
  <2>2. ASSUME NEW d \in Confirmation
        PROVE  StillMandated'[d] \subseteq StillMandated[d]
    <3>1. CASE Granted(p)
      <4>1. \A q \in Process : conf'[q] = conf[q] /\ held'[q] \subseteq held[q]
          BY <1>5, <3>1 DEF Judge, TypeOK, HeldApart
      <4>2. d # conf[p] => (d \in open' <=> d \in open) /\ left'[d] = left[d]
          BY <1>5, <3>1 DEF Judge, TypeOK
      <4>3. d = conf[p] => left'[d] \subseteq held[p]
          BY <1>5, <3>1 DEF Judge, PutBack, TypeOK
      <4> QED BY <4>1, <4>2, <4>3, MandateOf, MandateOfNext
    <3>2. CASE ~Granted(p)
      <4>1. UNCHANGED <<open, left>>
          BY <1>5, <3>2 DEF Judge
      <4>2. \A q \in Process : \/ conf'[q] = conf[q] /\ held'[q] = held[q]
                               \/ held'[q] = {}
          BY <1>5, <3>2, DropOK DEF Judge
      <4> QED BY <4>1, <4>2, MandateOf, MandateOfNext
    <3> QED BY <3>1, <3>2
  <2> QED BY <1>0, <2>1, <2>2
<1>6. ASSUME NEW p \in Process, Act(p) PROVE Promise!Next
  <2> DEFINE c == conf[p]
             i == asked[p]
  <2>1. /\ pc[p] = "acting" /\ Drop(p) /\ acted' = acted \cup {<<c, i>>}
        /\ UNCHANGED <<begun, open, left>>
      BY <1>6 DEF Act, table
  <2>2. held[p] = {i} /\ c \in Confirmation /\ i \in Intent
      BY <2>1 DEF HeldApart, TypeOK
  <2>3. (c \in open => i \notin left[c]) /\ held'[p] = {}
      BY <2>1, DropOK DEF HeldApart
  <2>4. \A q \in Process : q # p => conf'[q] = conf[q] /\ held'[q] = held[q]
      BY <2>1, DropOK
  <2>5. \A q \in Process : q # p /\ conf[q] = c => i \notin held[q]
      BY <2>1, <2>2 DEF HeldApart
  <2>6. i \in StillMandated[c]
      BY <2>2, MandateOf
  <2>7. StillMandated' = [StillMandated EXCEPT ![c] = @ \ {i}]
    <3>1. \A d \in Confirmation :
            StillMandated'[d] = IF d = c THEN StillMandated[d] \ {i} ELSE StillMandated[d]
      <4> TAKE d \in Confirmation
      <4>1. ASSUME NEW j PROVE j \in StillMandated'[d] <=>
                                  j \in StillMandated[d] /\ ~(d = c /\ j = i)
          BY <2>1, <2>2, <2>3, <2>4, <2>5, MandateOf, MandateOfNext
      <4> HIDE DEF c, i
      <4>2. CASE d = c
          BY <4>1, <4>2
      <4>3. CASE d # c
          BY <4>1, <4>3
      <4> QED BY <4>2, <4>3
    <3>2. /\ StillMandated = [d \in Confirmation |-> StillMandated[d]]
          /\ StillMandated' = [d \in Confirmation |-> StillMandated'[d]]
        BY DEF StillMandated
    <3> QED BY <2>2, <3>1, <3>2
  <2>8. Promise!Act(c, i)
      BY <2>1, <2>6, <2>7 DEF Promise!Act
  <2> QED BY <2>2, <2>8 DEF Promise!Next
<1>7. ASSUME NEW a \in Account, NEW is \in {{}, Intent}, SetRole(a, is)
      PROVE UNCHANGED Promise!vars
    BY <1>7, <1>00 DEF SetRole, table
<1>8. CASE Restart
  <2>1. UNCHANGED <<begun, left, acted>> /\ open' = {}
        /\ \A q \in Process : held'[q] = {}
      BY <1>8 DEF Restart
  <2>2. \A d \in Confirmation : StillMandated'[d] \subseteq StillMandated[d]
      BY <2>1, MandateOf, MandateOfNext
  <2> QED BY <1>0, <2>1, <2>2
<1>9. CASE Tick
    BY <1>9, <1>00 DEF Tick, table
<1>10. CASE UNCHANGED vars
    BY <1>10, <1>00 DEF vars, table
<1> QED
    BY <1>1, <1>2, <1>3, <1>4, <1>5, <1>6, <1>7, <1>8, <1>9, <1>10 DEF Next

\* The daemon keeps the promise: a passkey lets each intent it was presented for act
\* once and nothing else act, whatever requests, evictions and restarts interleave.
THEOREM PromiseKept == Spec => OncePerPasskey
<1>1. Init => Promise!Init
  <2>1. ASSUME Init PROVE StillMandated = [c \in Confirmation |-> {}]
      BY <2>1 DEF Init, StillMandated
  <2> QED BY <2>1 DEF Init, Promise!Init
<1>2. Spec => []IInv
    BY OneHolder, PTL DEF IInv
<1> QED BY <1>1, <1>2, StepPromised, PTL DEF Spec, OncePerPasskey, Promise!Spec
============================================================================
