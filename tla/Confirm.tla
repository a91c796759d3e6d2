------------------------------ MODULE Confirm ------------------------------
(***************************************************************************)
(* The passkey a destruction takes (crates/hlb-privd/src/confirm.rs): the  *)
(* web side begins a confirmation for some intents, the person presents    *)
(* their passkey at PocketID, and each intent comes back with the code.    *)
(* The daemon keeps the confirmations begun in a bounded table in memory.  *)
(*                                                                         *)
(* A request takes its confirmation out of the table, asks PocketID and    *)
(* the state, and puts back what is left: between two awaits any other     *)
(* request runs, an account's role changes, or the daemon restarts.        *)
(***************************************************************************)
EXTENDS Integers, FiniteSets

CONSTANTS
    Confirmation,   \* the states of confirmations: random, never drawn twice
    Intent,         \* the intents that destroy
    Account,
    Owner,          \* Owner[i]: who alone may confirm i, None when anyone may
    None,
    Process,        \* requests the daemon answers at once
    MaxOpen,        \* MAX_OPEN
    Timeout,        \* REQUEST_TIMEOUT_S
    MaxAge,         \* CONFIRMATION_MAX_AGE_S
    MaxNow          \* bound: the clock

ASSUME ConfirmAssumption ==
    /\ Owner \in [Intent -> Account \cup {None}]
    /\ None \notin Account \cup Confirmation \cup Intent
    /\ {MaxOpen, Timeout, MaxAge, MaxNow} \subseteq Nat
    /\ MaxOpen > 0

VARIABLES
    now,        \* the clock
    begun,      \* the states drawn
    open,       \* the table: the states in it
    left,       \* left[c]: the digests begun and not acted on, in c's entry
    created,    \* created[c]: when c was begun
    passkey,    \* passkey[c]: whose passkey PocketID saw for c, None before
    seenAt,     \* seenAt[c]: when
    granted,    \* entries whose code was exchanged already
    may,        \* may[a]: the intents a's role allows
    pc,         \* where each request stands
    conf,       \* the confirmation it took
    asked,      \* the intent it is about
    asOf,       \* the time it read
    held,       \* what it took out of the table and may act on
    allowed,    \* history: accounts whose role allowed it since it began
    acted       \* history: what acted under which confirmation

table == <<begun, open, left, created, granted>>
pocketid == <<passkey, seenAt>>
request == <<pc, conf, asked, asOf, held>>
vars == <<now, table, pocketid, may, request, allowed, acted>>

PC == {"idle", "exchanging", "judging", "acting"}

Init ==
    /\ now = 0
    /\ begun = {} /\ open = {} /\ granted = {}
    /\ left = [c \in Confirmation |-> {}]
    /\ created = [c \in Confirmation |-> 0]
    /\ passkey = [c \in Confirmation |-> None]
    /\ seenAt = [c \in Confirmation |-> 0]
    /\ may \in [Account -> {{}, Intent}]
    /\ pc = [p \in Process |-> "idle"]
    /\ conf = [p \in Process |-> None] /\ asked = [p \in Process |-> None]
    /\ asOf = [p \in Process |-> 0]
    /\ held = [p \in Process |-> {}]
    /\ allowed = [p \in Process |-> {}]
    /\ acted = {}

Expired(c) == now - created[c] > Timeout

-----------------------------------------------------------------------------
\* begin(): expired entries go, then the oldest when the table is full, then the
\* new one is inserted; one lock covers the three.
Kept == {c \in open : ~Expired(c)}
RoomMade ==
    IF Cardinality(Kept) < MaxOpen
    THEN {Kept}
    ELSE {Kept \ {o} : o \in {c \in Kept : \A d \in Kept : created[c] <= created[d]}}

Begin(c, is) ==
    /\ c \notin begun
    /\ is # {}
    /\ begun' = begun \cup {c}
    /\ \E others \in RoomMade : open' = others \cup {c}
    /\ left' = [left EXCEPT ![c] = is]
    /\ created' = [created EXCEPT ![c] = now]
    /\ UNCHANGED <<now, granted, pocketid, may, request, allowed, acted>>

\* The person presents their passkey for what was begun.
Present(c, a) ==
    /\ c \in begun
    /\ passkey[c] = None
    /\ passkey' = [passkey EXCEPT ![c] = a]
    /\ seenAt' = [seenAt EXCEPT ![c] = now]
    /\ UNCHANGED <<now, table, may, request, allowed, acted>>

-----------------------------------------------------------------------------
\* consume(): the entry leaves the table whatever comes next.  An intent it was
\* not begun for, or a code other than the one exchanged, loses it.
TakenInCopy(c) == open
Taken(c) == open \ {c}
Take(p, c, i) ==
    /\ pc[p] = "idle"
    /\ c \in open
    /\ open' = Taken(c)
    /\ \/ /\ i \in left[c]
          /\ pc' = [pc EXCEPT ![p] = IF c \in granted THEN "judging" ELSE "exchanging"]
          /\ conf' = [conf EXCEPT ![p] = c]
          /\ asked' = [asked EXCEPT ![p] = i]
          /\ asOf' = [asOf EXCEPT ![p] = now]
          /\ held' = [held EXCEPT ![p] = left[c]]
          /\ allowed' = [allowed EXCEPT ![p] = {a \in Account : i \in may[a]}]
       \/ /\ i \notin left[c] \/ c \in granted
          /\ UNCHANGED <<request, allowed>>
    /\ UNCHANGED <<now, begun, left, created, granted, pocketid, may, acted>>

\* The request is over, and with it what it held.
Drop(p) ==
    /\ pc' = [pc EXCEPT ![p] = "idle"]
    /\ conf' = [conf EXCEPT ![p] = None]
    /\ asked' = [asked EXCEPT ![p] = None]
    /\ asOf' = [asOf EXCEPT ![p] = 0]
    /\ held' = [held EXCEPT ![p] = {}]
    /\ allowed' = [allowed EXCEPT ![p] = {}]

\* finish_confirming(), then the account bound to the identity: the request must
\* not have expired when it came, PocketID know the code it came with, an account
\* exist.
Exchange(p) ==
    /\ pc[p] = "exchanging"
    /\ \/ /\ asOf[p] - created[conf[p]] <= Timeout
          /\ passkey[conf[p]] # None /\ seenAt[conf[p]] <= asOf[p]
          /\ granted' = granted \cup {conf[p]}
          /\ pc' = [pc EXCEPT ![p] = "judging"]
          /\ UNCHANGED <<conf, asked, asOf, held, allowed>>
       \/ /\ Drop(p)
          /\ UNCHANGED granted
    /\ UNCHANGED <<now, begun, open, left, created, pocketid, may, acted>>

\* The passkey's age, then the role as it is now, then whose intent it is; what is
\* left goes back in the table, whose bound is not looked at.
Who(p) == passkey[conf[p]]
GrantedOnce(p) == asOf[p] - seenAt[conf[p]] <= MaxAge
Granted(p) ==
    /\ asOf[p] - seenAt[conf[p]] <= MaxAge
    /\ asked[p] \in may[Who(p)]
    /\ Owner[asked[p]] \in {None, Who(p)}
PutBackWhole(p) == held[p]
PutBack(p) == held[p] \ {asked[p]}

Judge(p) ==
    /\ pc[p] = "judging"
    /\ \/ /\ Granted(p)
          /\ pc' = [pc EXCEPT ![p] = "acting"]
          /\ left' = [left EXCEPT ![conf[p]] = PutBack(p)]
          /\ open' = IF PutBack(p) # {} THEN open \cup {conf[p]} ELSE open
          /\ held' = [held EXCEPT ![p] = {asked[p]}]
          /\ UNCHANGED <<conf, asked, asOf, allowed>>
       \/ /\ ~Granted(p)
          /\ Drop(p)
          /\ UNCHANGED <<open, left>>
    /\ UNCHANGED <<now, begun, created, granted, pocketid, may, acted>>

\* act(): the intent itself.
Act(p) ==
    /\ pc[p] = "acting"
    /\ acted' = acted \cup {<<conf[p], asked[p]>>}
    /\ Drop(p)
    /\ UNCHANGED <<now, table, pocketid, may>>

-----------------------------------------------------------------------------
\* A role is given or taken away.
SetRole(a, is) ==
    /\ may' = [may EXCEPT ![a] = is]
    /\ allowed' = [p \in Process |->
                     IF pc[p] # "idle" /\ asked[p] \in is THEN allowed[p] \cup {a}
                                                         ELSE allowed[p]]
    /\ UNCHANGED <<now, table, pocketid, request, acted>>

\* The daemon restarts: the table and the requests were in memory.
Restart ==
    /\ open' = {}
    /\ pc' = [p \in Process |-> "idle"]
    /\ conf' = [p \in Process |-> None] /\ asked' = [p \in Process |-> None]
    /\ asOf' = [p \in Process |-> 0]
    /\ held' = [p \in Process |-> {}]
    /\ allowed' = [p \in Process |-> {}]
    /\ UNCHANGED <<now, begun, left, created, granted, pocketid, may, acted>>

Tick ==
    /\ now < MaxNow
    /\ now' = now + 1
    /\ UNCHANGED <<table, pocketid, may, request, allowed, acted>>

Next ==
    \/ \E c \in Confirmation, is \in SUBSET Intent : Begin(c, is)
    \/ \E c \in Confirmation, a \in Account : Present(c, a)
    \/ \E p \in Process, c \in Confirmation, i \in Intent : Take(p, c, i)
    \/ \E p \in Process : Exchange(p) \/ Judge(p) \/ Act(p)
    \/ \E a \in Account, is \in {{}, Intent} : SetRole(a, is)
    \/ Restart \/ Tick

Spec == Init /\ [][Next]_vars

-----------------------------------------------------------------------------
\* Every variable holds what the code can put there.
TypeOK ==
    /\ now \in Nat
    /\ begun \subseteq Confirmation /\ open \subseteq begun /\ granted \subseteq begun
    /\ left \in [Confirmation -> SUBSET Intent]
    /\ created \in [Confirmation -> Nat] /\ seenAt \in [Confirmation -> Nat]
    /\ passkey \in [Confirmation -> Account \cup {None}]
    /\ may \in [Account -> SUBSET Intent]
    /\ pc \in [Process -> PC]
    /\ conf \in [Process -> Confirmation \cup {None}]
    /\ asked \in [Process -> Intent \cup {None}]
    /\ asOf \in [Process -> Nat]
    /\ held \in [Process -> SUBSET Intent]
    /\ allowed \in [Process -> SUBSET Account]
    /\ acted \subseteq Confirmation \X Intent

\* What may still be done under c: what its entry holds, and what the requests that
\* took it out hold until they act or give up.
StillMandated ==
    [c \in Confirmation |->
        (IF c \in open THEN left[c] ELSE {})
        \cup UNION {held[p] : p \in {q \in Process : conf[q] = c}}]

Promise == INSTANCE Mandate WITH given <- begun, mandate <- StillMandated

\* A passkey lets each intent it was presented for act once, and no other, through
\* requests at once, retries, evictions and restarts.
OncePerPasskey == Promise!Spec

\* The role counts as it is: no request acts for an account whose role never allowed
\* it since the request came, whatever it allowed when the passkey was presented or
\* an earlier intent of the same confirmation acted.
RoleReadNow == \A p \in Process : pc[p] = "acting" => Who(p) \in allowed[p]

\* A request is the only one that holds its confirmation, and what it may do with it
\* is neither in the table nor another's.
HeldApart ==
    /\ \A p \in Process : pc[p] = "idle" => held[p] = {}
    /\ \A p \in Process : pc[p] # "idle" => asked[p] \in held[p]
    /\ \A p \in Process :
          /\ pc[p] \in {"exchanging", "judging"} => conf[p] \notin open
          /\ pc[p] = "acting" => held[p] = {asked[p]}
          /\ pc[p] # "idle" => conf[p] \in begun
          /\ pc[p] = "acting" /\ conf[p] \in open => asked[p] \notin left[conf[p]]
    /\ \A p, q \in Process :
          p # q /\ pc[p] # "idle" /\ pc[q] # "idle" /\ conf[p] = conf[q] =>
              /\ held[p] \cap held[q] = {}
              /\ ~(pc[p] # "acting" /\ pc[q] # "acting")
============================================================================
