-------------------------- MODULE SelfUpdateProofs --------------------------
(***************************************************************************)
(* hlb replacing itself, for any number of releases and whatever           *)
(* migrations each ships.  A power cut leaves any directory there has been *)
(* since the last flush, so everything is said of all of them (DirOK), and *)
(* what makes the schema openable is one release that every one of them    *)
(* holds, at least as late as what their path names (Common).              *)
(***************************************************************************)
EXTENDS SelfUpdate, TLAPS

File == [version : 0..MaxVersion, flushed : BOOLEAN]
Updating == {"writing", "filling", "keeping", "linking", "putting"}
Filled == {"keeping", "linking", "putting"}
OnHlb == Updating \cup {"checking", "clearing", "aside"}
PC == OnHlb \cup {"idle", "syncing", "restoring", "undoing"}

\* Every variable holds what the code can put there, and the directory is one of those
\* a power cut may leave.
TypeOK ==
    /\ durable \subseteq [Name -> File] /\ names \in durable
    /\ links \in BOOLEAN /\ rolled \in BOOLEAN
    /\ schema \in Nat
    /\ command \in [pc : PC, version : 0..MaxVersion, target : 0..MaxVersion]
    /\ replaced \in 0..MaxVersion

\* What every directory a power cut may leave has: outside a rollback the path names a
\* binary on the disk; with hard links the path, or what was set aside from it, is whole,
\* everything but the download is on the disk, and the previous one is not a later one.
DirOK(d) ==
    /\ ~rolled => Whole(d["hlb"]) /\ d["hlb"].flushed
    /\ links =>
          /\ \A n \in Name \ {"new"} : d[n].flushed
          /\ Whole(d["new"]) => d["new"].flushed
          /\ Whole(d["hlb"]) \/ Whole(d["failed"])
          /\ d["previous"].version <= IF Whole(d["hlb"]) THEN d["hlb"].version
                                                         ELSE d["failed"].version

\* What a command knows at each of its steps.
StepOK ==
    /\ command.pc \in OnHlb =>
          /\ Whole(names["hlb"]) /\ names["hlb"].version = command.version
          /\ schema = Ships[command.version]
    /\ command.pc \in Updating => command.target > command.version
    /\ command.pc = "undoing" => command.target \in Version
    /\ command.pc \in Filled =>
          \A d \in durable : d["hlb"] = names["hlb"] /\ d["new"] = Binary(command.target)
    /\ command.pc \in {"linking", "putting"} => replaced = 0
    /\ command.pc = "putting" /\ links => names["previous"] = Binary(command.version)
    /\ command.pc \in {"clearing", "aside", "restoring"} => names["previous"] # Absent
    /\ command.pc = "restoring" =>
          /\ names["hlb"] = Absent /\ replaced = 0 /\ rolled
          /\ links => names["failed"] = Binary(command.version)
          /\ schema = Ships[command.version]

\* The predecessor is beside its successor in every directory that names the successor.
PredecessorEverywhere ==
    links /\ replaced # 0 =>
        \A d \in durable : d["hlb"] = names["hlb"] => d["previous"] = Binary(replaced)

\* A release every directory holds, no earlier than what any of them would run.
Carries(d, m) ==
    /\ \E n \in Name : d[n] = Binary(m)
    /\ d["hlb"].version <= m /\ d["previous"].version <= m
Common(m) == \A d \in durable : Carries(d, m)

\* It is at the path, or was set aside from it.
AtHand(m) ==
    \/ names["hlb"] = Binary(m)
    \/ names["failed"] = Binary(m) /\ (~Whole(names["hlb"]) \/ names["previous"] = Absent)

SchemaHeld ==
    links => /\ \E m \in Version : Common(m) /\ schema <= Ships[m]
             /\ \E m \in Version : Common(m) /\ AtHand(m)

DirsOK == \A d \in durable : DirOK(d)
IInv == TypeOK /\ DirsOK /\ StepOK /\ PredecessorEverywhere /\ SchemaHeld

-----------------------------------------------------------------------------
\* What a file is: nothing flushed without a release, or a release flushed or not.
LEMMA FileIs ==
    /\ \A v \in 0..MaxVersion : Binary(v) \in File
    /\ \A v : Binary(v).version = v /\ Binary(v).flushed = TRUE
    /\ Absent = Binary(0) /\ Absent \in File
    /\ Torn \in File /\ Torn.version = 0 /\ Torn.flushed = FALSE
    /\ \A f \in File : /\ f.version \in 0..MaxVersion /\ f.flushed \in BOOLEAN
                       /\ f.flushed => f = Binary(f.version)
    /\ \A f : Whole(f) <=> f.version # 0
BY SelfUpdateAssumption DEF File, Binary, Absent, Torn, Whole

\* What a later release ships is no less.
LEMMA ShipsGrows ==
    /\ \A v \in Version : Ships[v] \in Nat /\ v \in Nat /\ v # 0
    /\ \A v, w \in Version : v <= w => Ships[v] <= Ships[w]
    /\ \A v : v \in 0..MaxVersion /\ v # 0 => v \in Version
BY SelfUpdateAssumption DEF Version

\* The initial states satisfy the invariant.
LEMMA InitOK == Init => IInv
<1> SUFFICES ASSUME Init PROVE IInv
    OBVIOUS
<1> USE DEF Name
<1>1. PICK v \in Version :
         /\ names = [n \in Name |-> IF n = "hlb" THEN Binary(v) ELSE Absent]
         /\ durable = {names} /\ links \in BOOLEAN /\ schema = Ships[v]
         /\ command = Idle /\ replaced = 0 /\ rolled = FALSE
    BY DEF Init
<1>2. v \in 0..MaxVersion /\ v # 0 /\ 0 \in 0..MaxVersion /\ Ships[v] \in Nat
    BY SelfUpdateAssumption DEF Version
<1>3. /\ names["hlb"] = Binary(v) /\ names["new"] = Absent
      /\ names["previous"] = Absent /\ names["failed"] = Absent
    BY <1>1
<1>4. names \in [Name -> File]
    BY <1>1, <1>2, FileIs
<1>5. TypeOK
    BY <1>1, <1>2, <1>4 DEF TypeOK, Idle, PC
<1>6. DirsOK
  <2>1. DirOK(names)
      BY <1>2, <1>3, FileIs DEF DirOK
  <2> QED BY <1>1, <2>1 DEF DirsOK
<1>7. StepOK /\ PredecessorEverywhere
    BY <1>1 DEF StepOK, PredecessorEverywhere, Idle, OnHlb, Updating, Filled
<1>8. SchemaHeld
  <2>1. Common(v)
      BY <1>1, <1>2, <1>3, FileIs DEF Common, Carries
  <2>2. AtHand(v)
      BY <1>3 DEF AtHand
  <2> QED BY <1>1, <1>2, <2>1, <2>2 DEF SchemaHeld
<1> QED BY <1>5, <1>6, <1>7, <1>8 DEF IInv

-----------------------------------------------------------------------------
(* The steps that leave the directory alone.                                 *)

\* What the directory has shows nothing of the command.
LEMMA DirSame ==
    ASSUME IInv, UNCHANGED <<names, durable, links, replaced, rolled>>
    PROVE  /\ DirsOK' /\ PredecessorEverywhere'
           /\ \A m : Common(m)' <=> Common(m)
           /\ \A m : AtHand(m)' <=> AtHand(m)
BY DEF IInv, DirsOK, DirOK, PredecessorEverywhere, Common, AtHand

\* Any release common to the directories is at least the one the path names.
LEMMA CommonOpens ==
    ASSUME IInv, NEW m \in Version, Common(m), Whole(names["hlb"])
    PROVE  /\ names["hlb"].version \in Version
           /\ Ships[names["hlb"].version] \in Nat /\ Ships[m] \in Nat
           /\ Ships[names["hlb"].version] <= Ships[m]
<1>1. names["hlb"] \in File /\ names["hlb"].version <= m
    BY DEF IInv, TypeOK, Common, Carries, Name
<1>2. names["hlb"].version \in 0..MaxVersion /\ names["hlb"].version # 0
    BY <1>1, FileIs
<1> QED BY <1>1, <1>2, ShipsGrows

\* A command begins: the state is migrated to what the binary at the path ships.
LEMMA BeginStep ==
    ASSUME IInv, NEW pc \in {"writing", "checking", "undoing"}, NEW t \in 0..MaxVersion,
           Begin(pc, t), pc = "writing" => t > names["hlb"].version,
           pc = "undoing" => t \in Version
    PROVE  IInv'
<1>1. /\ Whole(names["hlb"])
      /\ command' = [pc |-> pc, version |-> names["hlb"].version, target |-> t]
      /\ schema' = Ships[names["hlb"].version]
      /\ UNCHANGED <<names, durable, links, replaced, rolled>>
    BY DEF Begin
<1>2. /\ names["hlb"] \in File
      /\ names["hlb"].version \in 0..MaxVersion /\ names["hlb"].version \in Version
      /\ Ships[names["hlb"].version] \in Nat
  <2>1. names["hlb"] \in File
      BY DEF IInv, TypeOK, Name
  <2> QED BY <1>1, <2>1, FileIs, ShipsGrows
<1>3. TypeOK'
    BY <1>1, <1>2 DEF IInv, TypeOK, PC, OnHlb, Updating
<1>4. StepOK'
    BY <1>1 DEF StepOK, Filled, Updating
<1>5. SchemaHeld'
  <2> SUFFICES ASSUME links PROVE SchemaHeld'
      BY <1>1 DEF SchemaHeld
  <2>1. PICK m \in Version : Common(m) /\ AtHand(m)
      BY DEF IInv, SchemaHeld
  <2>2. schema' <= Ships[m]
      BY <1>1, <2>1, CommonOpens
  <2> QED BY <1>1, <2>1, <2>2, DirSame DEF SchemaHeld
<1> QED BY <1>1, <1>3, <1>4, <1>5, DirSame DEF IInv

\* An opening killed halfway applied some of the migrations.
LEMMA OpenCutStep == IInv /\ OpenCut => IInv'
<1> SUFFICES ASSUME IInv, OpenCut PROVE IInv'
    OBVIOUS
<1>1. /\ command.pc = "idle" /\ Whole(names["hlb"])
      /\ schema' \in (schema + 1)..Ships[names["hlb"].version]
      /\ UNCHANGED <<names, durable, links, command, replaced, rolled>>
    BY DEF OpenCut, At
<1>2. names["hlb"] \in File /\ schema \in Nat
    BY DEF IInv, TypeOK, Name
<1>3. Ships[names["hlb"].version] \in Nat
    BY <1>1, <1>2, FileIs, ShipsGrows
<1>4. schema' \in Nat /\ schema' <= Ships[names["hlb"].version]
    BY <1>1, <1>2, <1>3
<1>5. TypeOK'
    BY <1>1, <1>4 DEF IInv, TypeOK
<1>6. StepOK'
    BY <1>1 DEF StepOK, OnHlb, Updating, Filled
<1>7. SchemaHeld'
  <2> SUFFICES ASSUME links PROVE SchemaHeld'
      BY <1>1 DEF SchemaHeld
  <2>1. PICK m \in Version : Common(m) /\ AtHand(m)
      BY DEF IInv, SchemaHeld
  <2>2. schema' <= Ships[m]
      BY <1>1, <1>3, <1>4, <2>1, CommonOpens
  <2> QED BY <1>1, <2>1, <2>2, DirSame DEF SchemaHeld
<1> QED BY <1>1, <1>5, <1>6, <1>7, DirSame DEF IInv

\* Undoing migrations, giving up and being stopped only lower the schema.
LEMMA QuietStep == IInv /\ (Undo \/ CheckPrevious \/ Stop) => IInv'
<1> SUFFICES ASSUME IInv, Undo \/ CheckPrevious \/ Stop PROVE IInv'
    OBVIOUS
<1>1. UNCHANGED <<names, durable, links, replaced, rolled>>
    BY DEF Undo, CheckPrevious, Stop
<1>2. schema' \in Nat /\ schema' <= schema
  <2>1. CASE Undo
    <3>1. command.target \in Version
        BY <2>1 DEF Undo, At, IInv, StepOK
    <3> QED BY <2>1, <3>1, ShipsGrows DEF Undo, IInv, TypeOK
  <2>2. CASE CheckPrevious \/ Stop
      BY <2>2 DEF CheckPrevious, Stop, IInv, TypeOK
  <2> QED BY <2>1, <2>2
<1>3. SchemaHeld'
  <2> SUFFICES ASSUME links PROVE SchemaHeld'
      BY <1>1 DEF SchemaHeld
  <2>1. PICK m \in Version : Common(m) /\ AtHand(m)
      BY DEF IInv, SchemaHeld
  <2>2. PICK k \in Version : Common(k) /\ schema <= Ships[k]
      BY DEF IInv, SchemaHeld
  <2>3. schema' <= Ships[k]
      BY <1>2, <2>2, ShipsGrows DEF IInv, TypeOK
  <2> QED BY <1>1, <2>1, <2>2, <2>3, DirSame DEF SchemaHeld
<1>4. CASE command' = Idle
  <2>1. TypeOK'
      BY <1>1, <1>2, <1>4, SelfUpdateAssumption DEF IInv, TypeOK, Idle, PC
  <2>2. StepOK'
      BY <1>4 DEF StepOK, Idle, OnHlb, Updating, Filled
  <2> QED BY <1>1, <1>3, <2>1, <2>2, DirSame DEF IInv
<1>5. CASE CheckPrevious /\ command' # Idle
  <2>1. /\ names["previous"] # Absent /\ command' = [command EXCEPT !.pc = "clearing"]
        /\ command.pc = "checking" /\ schema' = schema
      BY <1>5 DEF CheckPrevious, At, Goto, Ends
  <2>2. command'.pc = "clearing" /\ command'.version = command.version
      BY <2>1 DEF IInv, TypeOK
  <2>3. TypeOK'
      BY <1>1, <2>1 DEF IInv, TypeOK, PC, OnHlb
  <2>4. StepOK'
      BY <1>1, <2>1, <2>2 DEF IInv, StepOK, OnHlb, Updating, Filled
  <2> QED BY <1>1, <1>3, <2>3, <2>4, DirSame DEF IInv
<1> QED BY <1>4, <1>5 DEF Undo, CheckPrevious, Stop, Ends

-----------------------------------------------------------------------------
(* The steps that change the directory.                                      *)

\* A directory's four names.
LEMMA DirIs ==
    /\ \A d \in [Name -> File] : /\ d["hlb"] \in File /\ d["new"] \in File
                                 /\ d["previous"] \in File /\ d["failed"] \in File
    /\ \A n : n \in Name <=> n = "hlb" \/ n = "new" \/ n = "previous" \/ n = "failed"
BY DEF Name

\* A change of the directory adds the new one to those a power cut may leave.
LEMMA BecomeOK ==
    ASSUME IInv, NEW dir \in [Name -> File], Become(dir), UNCHANGED links,
           rolled' \in BOOLEAN, rolled => rolled', DirOK(dir)'
    PROVE  /\ durable' \subseteq [Name -> File] /\ names' \in durable' /\ names' = dir
           /\ DirsOK'
           /\ \A m : Common(m) /\ Carries(dir, m) => Common(m)'
<1>1. names' = dir /\ durable' = durable \cup {dir}
    BY DEF Become
<1>2. \A d \in durable : DirOK(d)'
    BY DEF IInv, DirsOK, DirOK, TypeOK
<1> QED BY <1>1, <1>2 DEF DirsOK, Common, IInv, TypeOK

\* What a command's step knows, for those on a binary at the path.
LEMMA OnHlbFacts ==
    ASSUME IInv, command.pc \in OnHlb
    PROVE  /\ names \in [Name -> File] /\ names["hlb"] \in File
           /\ names["hlb"].version = command.version /\ Whole(names["hlb"])
           /\ command.version \in Version /\ command.version \in Nat
           /\ schema = Ships[command.version]
           /\ links => names["hlb"] = Binary(command.version)
           /\ DirOK(names)
           /\ \A m \in Version : Common(m) => schema <= Ships[m]
<1>1. names \in [Name -> File] /\ names["hlb"] \in File /\ DirOK(names)
    BY DirIs DEF IInv, TypeOK, DirsOK
<1>2. /\ names["hlb"].version = command.version /\ Whole(names["hlb"])
      /\ schema = Ships[command.version]
    BY DEF IInv, StepOK
<1>3. command.version \in Version /\ command.version \in Nat
    BY <1>1, <1>2, FileIs, ShipsGrows
<1>4. links => names["hlb"] = Binary(command.version)
    BY <1>1, <1>2, FileIs, DirIs DEF DirOK
<1>5. \A m \in Version : Common(m) => schema <= Ships[m]
    BY <1>2, CommonOpens
<1> QED BY <1>1, <1>2, <1>3, <1>4, <1>5

\* A command that goes on keeps its release and its target.
LEMMA GotoIs ==
    ASSUME TypeOK, NEW pc \in PC, Goto(pc)
    PROVE  /\ command' \in [pc : PC, version : 0..MaxVersion, target : 0..MaxVersion]
           /\ command'.pc = pc /\ command'.version = command.version
           /\ command'.target = command.target
BY DEF Goto, TypeOK

\* hlb.new is created, empty: nothing but a download is lost by it.
LEMMA CreateStep == IInv /\ Create => IInv'
<1> SUFFICES ASSUME IInv, Create PROVE IInv'
    OBVIOUS
<1>0. PICK dir : dir = [names EXCEPT !["new"] = Torn]
    OBVIOUS
<1>1. /\ command.pc = "writing" /\ Become(dir) /\ Goto("filling")
      /\ UNCHANGED <<links, schema, replaced, rolled>>
    BY <1>0 DEF Create, At
<1>2. command.pc \in OnHlb
    BY <1>1 DEF OnHlb, Updating
<1>3. /\ dir \in [Name -> File] /\ dir["hlb"] = names["hlb"] /\ dir["new"] = Torn
      /\ dir["previous"] = names["previous"] /\ dir["failed"] = names["failed"]
    BY <1>0, <1>2, OnHlbFacts, FileIs, DirIs
<1>4. DirOK(dir)'
    BY <1>1, <1>2, <1>3, OnHlbFacts, FileIs, DirIs DEF DirOK
<1>5. /\ durable' \subseteq [Name -> File] /\ names' \in durable' /\ names' = dir
      /\ DirsOK'
      /\ \A m : Common(m) /\ Carries(dir, m) => Common(m)'
    BY <1>1, <1>3, <1>4, BecomeOK DEF IInv, TypeOK
<1>6. /\ command' \in [pc : PC, version : 0..MaxVersion, target : 0..MaxVersion]
      /\ command'.pc = "filling" /\ command'.version = command.version
      /\ command'.target = command.target
    BY <1>1, GotoIs DEF IInv, PC, OnHlb, Updating
<1>7. TypeOK'
    BY <1>1, <1>5, <1>6 DEF IInv, TypeOK
<1>8. StepOK'
    BY <1>1, <1>3, <1>5, <1>6 DEF IInv, StepOK, OnHlb, Updating, Filled
<1>9. PredecessorEverywhere'
    BY <1>1, <1>3, <1>5 DEF IInv, TypeOK, PredecessorEverywhere, Become
<1>10. SchemaHeld'
  <2> SUFFICES ASSUME links PROVE SchemaHeld'
      BY <1>1 DEF SchemaHeld
  <2>1. PICK m \in Version : Common(m) /\ AtHand(m)
      BY DEF IInv, SchemaHeld
  <2>2. AtHand(m)'
      BY <1>3, <1>5, <2>1 DEF AtHand
  <2>3. Carries(names, m)
      BY <2>1 DEF Common, IInv, TypeOK
  <2>4. Carries(dir, m)
      BY <1>3, <2>1, <2>3, DirIs DEF Carries, AtHand
  <2>5. schema' <= Ships[m]
      BY <1>1, <1>2, <2>1, OnHlbFacts
  <2> QED BY <1>5, <2>1, <2>2, <2>4, <2>5 DEF SchemaHeld
<1> QED BY <1>5, <1>7, <1>8, <1>9, <1>10 DEF IInv

\* hlb.new is filled and flushed, and the directory with it: one directory is left.
LEMMA FillStep == IInv /\ Fill => IInv'
<1> SUFFICES ASSUME IInv, Fill PROVE IInv'
    OBVIOUS
<1>0. PICK dir : dir = [names EXCEPT !["new"] = Binary(command.target)]
    OBVIOUS
<1>1. /\ command.pc = "filling" /\ Goto("keeping")
      /\ UNCHANGED <<links, schema, replaced, rolled>>
      /\ names' = dir
      /\ durable' = IF names'["new"].flushed THEN {names'} ELSE durable \cup {names'}
    BY <1>0 DEF Fill, At, Written
<1>2. command.pc \in OnHlb /\ command.target \in 0..MaxVersion
    BY <1>1 DEF OnHlb, Updating, IInv, TypeOK
<1>3. /\ dir \in [Name -> File] /\ dir["hlb"] = names["hlb"]
      /\ dir["new"] = Binary(command.target)
      /\ dir["previous"] = names["previous"] /\ dir["failed"] = names["failed"]
    BY <1>0, <1>2, OnHlbFacts, FileIs, DirIs
<1>4. durable' = {dir}
    BY <1>1, <1>3, FileIs
<1>5. DirOK(dir)'
    BY <1>1, <1>2, <1>3, OnHlbFacts, FileIs, DirIs DEF DirOK
<1>6. /\ command' \in [pc : PC, version : 0..MaxVersion, target : 0..MaxVersion]
      /\ command'.pc = "keeping" /\ command'.version = command.version
      /\ command'.target = command.target
    BY <1>1, GotoIs DEF IInv, PC, OnHlb, Updating
<1>7. TypeOK'
    BY <1>1, <1>3, <1>4, <1>6 DEF IInv, TypeOK
<1>8. DirsOK'
    BY <1>4, <1>5 DEF DirsOK
<1>9. StepOK'
    BY <1>1, <1>3, <1>4, <1>6 DEF IInv, StepOK, OnHlb, Updating, Filled
<1>10. PredecessorEverywhere'
    BY <1>1, <1>3, <1>4 DEF IInv, TypeOK, PredecessorEverywhere
<1>11. SchemaHeld'
  <2> SUFFICES ASSUME links PROVE SchemaHeld'
      BY <1>1 DEF SchemaHeld
  <2>0. PICK v : v = command.version
      OBVIOUS
  <2>1. v \in Version /\ names["hlb"] = Binary(v) /\ schema = Ships[v] /\ Ships[v] \in Nat
      BY <1>2, <2>0, OnHlbFacts, ShipsGrows
  <2>2. names["previous"].version <= v
      BY <1>2, <2>0, OnHlbFacts, FileIs DEF DirOK
  <2>3. Carries(dir, v)
      BY <1>3, <2>1, <2>2, FileIs, DirIs, ShipsGrows DEF Carries
  <2>4. Common(v)' /\ AtHand(v)'
      BY <1>1, <1>3, <1>4, <2>1, <2>3 DEF Common, AtHand
  <2> QED BY <1>1, <2>1, <2>4 DEF SchemaHeld
<1> QED BY <1>7, <1>8, <1>9, <1>10, <1>11 DEF IInv

\* Between hlb.new's flush and its rename, every directory has the same binary at the
\* path, which its previous one does not exceed.
LEMMA FilledCommon ==
    ASSUME IInv, links, command.pc \in Filled, NEW v, v = command.version,
           NEW dir \in [Name -> File], dir["hlb"] = names["hlb"],
           dir["previous"].version <= v
    PROVE  v \in Version /\ Common(v) /\ Carries(dir, v) /\ names["hlb"] = Binary(v)
<1>1. /\ v \in Version /\ v \in Nat /\ v # 0 /\ names["hlb"] = Binary(v)
    BY OnHlbFacts, ShipsGrows DEF OnHlb, Updating, Filled
<1>2. ASSUME NEW d \in durable PROVE Carries(d, v)
  <2>1. d["hlb"] = Binary(v) /\ DirOK(d)
      BY <1>1 DEF IInv, StepOK, DirsOK
  <2>2. d["previous"].version <= v
      BY <1>1, <2>1, FileIs DEF DirOK
  <2> QED BY <1>1, <2>1, <2>2, FileIs, DirIs DEF Carries
<1>3. Carries(dir, v)
    BY <1>1, FileIs, DirIs DEF Carries
<1> QED BY <1>1, <1>2, <1>3 DEF Common

\* The previous binary is removed: the current one is still at the path.
LEMMA RemovePreviousStep == IInv /\ RemovePrevious => IInv'
<1> SUFFICES ASSUME IInv, RemovePrevious PROVE IInv'
    OBVIOUS
<1>0. PICK dir : dir = [names EXCEPT !["previous"] = Absent]
    OBVIOUS
<1>1. /\ command.pc = "keeping" /\ Become(dir) /\ replaced' = 0 /\ Goto("linking")
      /\ UNCHANGED <<links, schema, rolled>>
    BY <1>0 DEF RemovePrevious, At
<1>2. command.pc \in OnHlb /\ command.pc \in Filled
    BY <1>1 DEF OnHlb, Updating, Filled
<1>3. /\ dir \in [Name -> File] /\ dir["hlb"] = names["hlb"]
      /\ dir["new"] = names["new"] /\ dir["new"] = Binary(command.target)
      /\ dir["previous"] = Absent /\ dir["failed"] = names["failed"]
  <2>1. names["new"] = Binary(command.target)
      BY <1>2 DEF IInv, StepOK, TypeOK
  <2> QED BY <1>0, <1>2, <2>1, OnHlbFacts, FileIs, DirIs
<1>4. DirOK(dir)'
    BY <1>1, <1>2, <1>3, OnHlbFacts, FileIs, DirIs DEF DirOK
<1>5. /\ durable' \subseteq [Name -> File] /\ names' \in durable' /\ names' = dir
      /\ DirsOK'
      /\ \A m : Common(m) /\ Carries(dir, m) => Common(m)'
    BY <1>1, <1>3, <1>4, BecomeOK DEF IInv, TypeOK
<1>6. /\ command' \in [pc : PC, version : 0..MaxVersion, target : 0..MaxVersion]
      /\ command'.pc = "linking" /\ command'.version = command.version
      /\ command'.target = command.target
    BY <1>1, GotoIs DEF IInv, PC, OnHlb, Updating
<1>7. TypeOK'
    BY <1>1, <1>5, <1>6, SelfUpdateAssumption DEF IInv, TypeOK
<1>8. StepOK'
    BY <1>1, <1>3, <1>5, <1>6 DEF IInv, StepOK, OnHlb, Updating, Filled, Become
<1>9. PredecessorEverywhere'
    BY <1>1 DEF PredecessorEverywhere
<1>10. SchemaHeld'
  <2> SUFFICES ASSUME links PROVE SchemaHeld'
      BY <1>1 DEF SchemaHeld
  <2>0. PICK v : v = command.version
      OBVIOUS
  <2>1. v \in Version /\ schema = Ships[v] /\ Ships[v] \in Nat /\ v \in Nat
      BY <1>2, <2>0, OnHlbFacts, ShipsGrows
  <2>2. Common(v) /\ Carries(dir, v) /\ names["hlb"] = Binary(v)
    <3>1. dir["previous"].version <= v
        BY <1>3, <2>1, FileIs
    <3> QED BY <1>2, <1>3, <2>0, <3>1, FilledCommon
  <2>3. Common(v)' /\ AtHand(v)'
      BY <1>3, <1>5, <2>2 DEF AtHand
  <2> QED BY <1>1, <2>1, <2>3 DEF SchemaHeld
<1> QED BY <1>5, <1>7, <1>8, <1>9, <1>10 DEF IInv

\* The current binary gets its second name, or a copy that nothing flushes, or half of it.
LEMMA KeepStep == IInv /\ (Keep \/ CopyCut) => IInv'
<1> SUFFICES ASSUME IInv, Keep \/ CopyCut PROVE IInv'
    OBVIOUS
<1>k. PICK f \in File : /\ Become([names EXCEPT !["previous"] = f])
                        /\ links => f = names["hlb"] /\ Goto("putting")
                        /\ Goto("putting") \/ Ends
  <2>0. names["hlb"] \in File
      BY DirIs DEF IInv, TypeOK
  <2>1. CASE Keep /\ links
      BY <2>0, <2>1 DEF Keep, Kept
  <2>2. CASE Keep /\ ~links
    <3>1. [names["hlb"] EXCEPT !.flushed = FALSE] \in File
        BY <2>0 DEF File
    <3> QED BY <2>2, <3>1 DEF Keep, Kept
  <2>3. CASE CopyCut
      BY <2>3, FileIs DEF CopyCut
  <2> QED BY <2>1, <2>2, <2>3 DEF IInv, TypeOK
<1>0. PICK dir : /\ dir = [names EXCEPT !["previous"] = f] /\ Become(dir)
                 /\ links => f = names["hlb"] /\ Goto("putting")
                 /\ Goto("putting") \/ Ends
    BY <1>k
<1>1. command.pc = "linking" /\ UNCHANGED <<links, schema, replaced, rolled>>
    BY DEF Keep, CopyCut, At
<1>2. command.pc \in OnHlb /\ command.pc \in Filled
    BY <1>1 DEF OnHlb, Updating, Filled
<1>3. /\ dir \in [Name -> File] /\ dir["hlb"] = names["hlb"]
      /\ dir["new"] = names["new"] /\ dir["new"] = Binary(command.target)
      /\ dir["previous"] = f /\ dir["failed"] = names["failed"]
  <2>1. names["new"] = Binary(command.target)
      BY <1>2 DEF IInv, StepOK, TypeOK
  <2> QED BY <1>0, <1>2, <2>1, OnHlbFacts, FileIs, DirIs
<1>4. DirOK(dir)'
    BY <1>0, <1>1, <1>2, <1>3, OnHlbFacts, FileIs, DirIs DEF DirOK
<1>5. /\ durable' \subseteq [Name -> File] /\ names' \in durable' /\ names' = dir
      /\ DirsOK'
      /\ \A m : Common(m) /\ Carries(dir, m) => Common(m)'
    BY <1>0, <1>1, <1>3, <1>4, BecomeOK DEF IInv, TypeOK
<1>6. /\ command' \in [pc : PC, version : 0..MaxVersion, target : 0..MaxVersion]
      /\ \/ /\ command'.pc = "putting" /\ command'.version = command.version
            /\ command'.target = command.target
         \/ ~links /\ command'.pc = "idle"
  <2>1. CASE Goto("putting")
      BY <2>1, GotoIs DEF IInv, PC, OnHlb, Updating
  <2>2. CASE Ends /\ ~links
      BY <2>2, SelfUpdateAssumption DEF Ends, Idle, PC
  <2> QED BY <1>0, <2>1, <2>2
<1>7. TypeOK'
    BY <1>1, <1>5, <1>6 DEF IInv, TypeOK
<1>8. StepOK'
  <2>1. links => names["hlb"] = Binary(command.version)
      BY <1>2, OnHlbFacts
  <2> QED BY <1>0, <1>1, <1>3, <1>5, <1>6, <2>1
          DEF IInv, StepOK, OnHlb, Updating, Filled, Become
<1>9. PredecessorEverywhere'
    BY <1>1 DEF IInv, StepOK, PredecessorEverywhere
<1>10. SchemaHeld'
  <2> SUFFICES ASSUME links PROVE SchemaHeld'
      BY <1>1 DEF SchemaHeld
  <2>0. PICK v : v = command.version
      OBVIOUS
  <2>1. /\ v \in Version /\ schema = Ships[v] /\ Ships[v] \in Nat /\ v \in Nat
        /\ names["hlb"].version = v
      BY <1>2, <2>0, OnHlbFacts, ShipsGrows
  <2>2. Common(v) /\ Carries(dir, v) /\ names["hlb"] = Binary(v)
    <3>1. dir["previous"].version <= v
        BY <1>0, <1>3, <2>1
    <3> QED BY <1>2, <1>3, <2>0, <3>1, FilledCommon
  <2>3. Common(v)' /\ AtHand(v)'
      BY <1>3, <1>5, <2>2 DEF AtHand
  <2> QED BY <1>1, <2>1, <2>3 DEF SchemaHeld
<1> QED BY <1>5, <1>7, <1>8, <1>9, <1>10 DEF IInv

\* hlb.new takes the path: every directory since its flush holds it, and only the last
\* has it at the path, with its predecessor beside it.
LEMMA PutStep == IInv /\ Put => IInv'
<1> SUFFICES ASSUME IInv, Put PROVE IInv'
    OBVIOUS
<1>0. PICK dir, t, v : /\ dir = [names EXCEPT !["hlb"] = names["new"], !["new"] = Absent]
                       /\ t = command.target /\ v = command.version
    OBVIOUS
<1>1. /\ command.pc = "putting" /\ Become(dir) /\ replaced' = v /\ Goto("syncing")
      /\ UNCHANGED <<links, schema, rolled>>
    BY <1>0 DEF Put, At, Rename
<1>2. command.pc \in OnHlb /\ command.pc \in Filled
    BY <1>1 DEF OnHlb, Updating, Filled
<1>3. /\ t \in Version /\ t > v /\ v \in Version /\ t \in Nat /\ v \in Nat /\ v # 0
      /\ t \in 0..MaxVersion /\ v \in 0..MaxVersion
      /\ schema = Ships[v] /\ names["hlb"].version = v
  <2>1. t > v /\ t \in 0..MaxVersion /\ v \in Version
      BY <1>0, <1>1, <1>2, OnHlbFacts DEF IInv, StepOK, TypeOK, Updating
  <2> QED BY <1>0, <1>2, <2>1, OnHlbFacts, ShipsGrows DEF IInv, TypeOK
<1>4. /\ dir \in [Name -> File] /\ dir["hlb"] = Binary(t) /\ dir["new"] = Absent
      /\ dir["previous"] = names["previous"] /\ dir["failed"] = names["failed"]
  <2>1. names["new"] = Binary(t)
      BY <1>0, <1>2 DEF IInv, StepOK, TypeOK
  <2> QED BY <1>0, <1>2, <2>1, OnHlbFacts, FileIs, DirIs
<1>5. links => names["previous"] = Binary(v)
    BY <1>0, <1>1 DEF IInv, StepOK
<1>6. DirOK(dir)'
    BY <1>1, <1>2, <1>3, <1>4, <1>5, OnHlbFacts, FileIs, DirIs DEF DirOK
<1>7. /\ durable' \subseteq [Name -> File] /\ names' \in durable' /\ names' = dir
      /\ DirsOK' /\ durable' = durable \cup {dir}
    BY <1>1, <1>4, <1>6, BecomeOK DEF IInv, TypeOK, Become
<1>8. /\ command' \in [pc : PC, version : 0..MaxVersion, target : 0..MaxVersion]
      /\ command'.pc = "syncing"
    BY <1>1, GotoIs DEF IInv, PC
<1>9. TypeOK'
    BY <1>1, <1>3, <1>7, <1>8 DEF IInv, TypeOK
<1>10. StepOK'
    BY <1>8 DEF StepOK, OnHlb, Updating, Filled
<1>11. \A d \in durable : d["hlb"].version = v /\ d["new"] = Binary(t)
    BY <1>0, <1>2, <1>3 DEF IInv, StepOK
<1>12. PredecessorEverywhere'
  <2>1. ASSUME links, NEW d \in durable PROVE d["hlb"] # dir["hlb"]
      BY <1>3, <1>4, <1>11, <2>1, FileIs
  <2> QED BY <1>1, <1>4, <1>5, <1>7, <2>1 DEF PredecessorEverywhere
<1>13. SchemaHeld'
  <2> SUFFICES ASSUME links PROVE SchemaHeld'
      BY <1>1 DEF SchemaHeld
  <2>1. ASSUME NEW d \in durable PROVE Carries(d, t)
    <3>1. d \in [Name -> File] /\ DirOK(d) /\ d["previous"] \in File
        BY DirIs DEF IInv, TypeOK, DirsOK
    <3>2. d["previous"].version <= v
        BY <1>3, <1>11, <3>1, FileIs DEF DirOK
    <3> QED BY <1>3, <1>11, <3>1, <3>2, FileIs, DirIs DEF Carries
  <2>2. Carries(dir, t)
      BY <1>3, <1>4, <1>5, FileIs, DirIs DEF Carries
  <2>3. Common(t)' /\ AtHand(t)'
      BY <1>4, <1>7, <2>1, <2>2 DEF Common, AtHand
  <2>4. schema' <= Ships[t]
      BY <1>1, <1>3, ShipsGrows
  <2> QED BY <1>3, <2>3, <2>4 DEF SchemaHeld
<1> QED BY <1>7, <1>9, <1>10, <1>12, <1>13 DEF IInv

\* The directory is flushed, or is not: fewer directories, of those there were.
LEMMA SyncStep == IInv /\ SyncDirectory => IInv'
<1> SUFFICES ASSUME IInv, SyncDirectory PROVE IInv'
    OBVIOUS
<1>1. /\ durable' \subseteq durable /\ names' = names /\ names' \in durable'
      /\ command' = Idle /\ UNCHANGED <<links, schema, replaced, rolled>>
    BY DEF SyncDirectory, Ends, IInv, TypeOK
<1>2. TypeOK'
    BY <1>1, SelfUpdateAssumption DEF IInv, TypeOK, Idle, PC
<1>3. DirsOK' /\ PredecessorEverywhere'
    BY <1>1 DEF IInv, DirsOK, DirOK, PredecessorEverywhere
<1>4. StepOK'
    BY <1>1 DEF StepOK, Idle, OnHlb, Updating, Filled
<1>5. SchemaHeld'
    BY <1>1 DEF IInv, SchemaHeld, Common, AtHand
<1> QED BY <1>2, <1>3, <1>4, <1>5 DEF IInv

\* What was set aside earlier is removed: the current one is at the path.
LEMMA RemoveFailedStep == IInv /\ RemoveFailed => IInv'
<1> SUFFICES ASSUME IInv, RemoveFailed PROVE IInv'
    OBVIOUS
<1>0. PICK dir : dir = [names EXCEPT !["failed"] = Absent]
    OBVIOUS
<1>1. /\ command.pc = "clearing" /\ Become(dir) /\ Goto("aside")
      /\ UNCHANGED <<links, schema, replaced, rolled>>
    BY <1>0 DEF RemoveFailed, At
<1>2. command.pc \in OnHlb
    BY <1>1 DEF OnHlb
<1>3. /\ dir \in [Name -> File] /\ dir["hlb"] = names["hlb"] /\ dir["new"] = names["new"]
      /\ dir["previous"] = names["previous"] /\ dir["failed"] = Absent
    BY <1>0, <1>2, OnHlbFacts, FileIs, DirIs
<1>4. DirOK(dir)'
    BY <1>1, <1>2, <1>3, OnHlbFacts, FileIs, DirIs DEF DirOK
<1>5. /\ durable' \subseteq [Name -> File] /\ names' \in durable' /\ names' = dir
      /\ DirsOK'
      /\ \A m : Common(m) /\ Carries(dir, m) => Common(m)'
    BY <1>1, <1>3, <1>4, BecomeOK DEF IInv, TypeOK
<1>6. /\ command' \in [pc : PC, version : 0..MaxVersion, target : 0..MaxVersion]
      /\ command'.pc = "aside" /\ command'.version = command.version
    BY <1>1, GotoIs DEF IInv, PC, OnHlb
<1>7. TypeOK'
    BY <1>1, <1>5, <1>6 DEF IInv, TypeOK
<1>8. StepOK'
    BY <1>1, <1>3, <1>5, <1>6 DEF IInv, StepOK, OnHlb, Updating, Filled
<1>9. PredecessorEverywhere'
    BY <1>1, <1>3, <1>5 DEF IInv, TypeOK, PredecessorEverywhere, Become
<1>10. SchemaHeld'
  <2> SUFFICES ASSUME links PROVE SchemaHeld'
      BY <1>1 DEF SchemaHeld
  <2>1. PICK m \in Version : Common(m) /\ AtHand(m)
      BY DEF IInv, SchemaHeld
  <2>2. names["hlb"] = Binary(m)
      BY <1>1, <1>2, <2>1, OnHlbFacts DEF AtHand, IInv, StepOK
  <2>3. Carries(names, m)
      BY <2>1 DEF Common, IInv, TypeOK
  <2>4. AtHand(m)' /\ Carries(dir, m)
      BY <1>3, <1>5, <2>2, <2>3, DirIs DEF Carries, AtHand
  <2>5. schema' <= Ships[m]
      BY <1>1, <1>2, <2>1, OnHlbFacts
  <2> QED BY <1>5, <2>1, <2>4, <2>5 DEF SchemaHeld
<1> QED BY <1>5, <1>7, <1>8, <1>9, <1>10 DEF IInv

\* The current one is renamed aside: it is whole there.
LEMMA SetAsideStep == IInv /\ SetAside => IInv'
<1> SUFFICES ASSUME IInv, SetAside PROVE IInv'
    OBVIOUS
<1>0. PICK dir : dir = [names EXCEPT !["failed"] = names["hlb"], !["hlb"] = Absent]
    OBVIOUS
<1>1. /\ command.pc = "aside" /\ Become(dir) /\ Goto("restoring")
      /\ rolled' = TRUE /\ replaced' = 0 /\ UNCHANGED <<links, schema>>
    BY <1>0 DEF SetAside, Aside, Rename, At
<1>2. command.pc \in OnHlb
    BY <1>1 DEF OnHlb
<1>3. /\ dir \in [Name -> File] /\ dir["hlb"] = Absent /\ dir["new"] = names["new"]
      /\ dir["previous"] = names["previous"] /\ dir["failed"] = names["hlb"]
    BY <1>0, <1>2, OnHlbFacts, FileIs, DirIs
<1>4. DirOK(dir)'
    BY <1>1, <1>2, <1>3, OnHlbFacts, FileIs, DirIs DEF DirOK
<1>5. /\ durable' \subseteq [Name -> File] /\ names' \in durable' /\ names' = dir
      /\ DirsOK'
      /\ \A m : Common(m) /\ Carries(dir, m) => Common(m)'
    BY <1>1, <1>3, <1>4, BecomeOK DEF IInv, TypeOK
<1>6. /\ command' \in [pc : PC, version : 0..MaxVersion, target : 0..MaxVersion]
      /\ command'.pc = "restoring" /\ command'.version = command.version
    BY <1>1, GotoIs DEF IInv, PC
<1>7. TypeOK'
    BY <1>1, <1>5, <1>6, SelfUpdateAssumption DEF IInv, TypeOK
<1>8. StepOK'
  <2>1. /\ links => names["hlb"] = Binary(command.version)
        /\ schema = Ships[command.version] /\ names["previous"] # Absent
      BY <1>1, <1>2, OnHlbFacts DEF IInv, StepOK
  <2> QED BY <1>1, <1>3, <1>5, <1>6, <2>1 DEF StepOK, OnHlb, Updating, Filled
<1>9. PredecessorEverywhere'
    BY <1>1 DEF PredecessorEverywhere
<1>10. SchemaHeld'
  <2> SUFFICES ASSUME links PROVE SchemaHeld'
      BY <1>1 DEF SchemaHeld
  <2>1. PICK m \in Version : Common(m) /\ AtHand(m)
      BY DEF IInv, SchemaHeld
  <2>2. names["hlb"] = Binary(m)
      BY <1>1, <1>2, <2>1, OnHlbFacts DEF AtHand, IInv, StepOK
  <2>3. Carries(names, m)
      BY <2>1 DEF Common, IInv, TypeOK
  <2>4. Carries(dir, m)
      BY <1>3, <2>2, <2>3, FileIs, DirIs, ShipsGrows DEF Carries
  <2>5. AtHand(m)'
      BY <1>3, <1>5, <2>2, FileIs DEF AtHand
  <2>6. schema' <= Ships[m]
      BY <1>1, <1>2, <2>1, OnHlbFacts
  <2> QED BY <1>5, <2>1, <2>4, <2>5, <2>6 DEF SchemaHeld
<1> QED BY <1>5, <1>7, <1>8, <1>9, <1>10 DEF IInv

\* The previous one takes the path again: what was set aside is still beside it.
LEMMA RestoreStep == IInv /\ Restore => IInv'
<1> SUFFICES ASSUME IInv, Restore PROVE IInv'
    OBVIOUS
<1>0. PICK dir : dir = [names EXCEPT !["hlb"] = names["previous"], !["previous"] = Absent]
    OBVIOUS
<1>1. /\ command.pc = "restoring" /\ Become(dir) /\ command' = Idle
      /\ rolled' = TRUE /\ UNCHANGED <<links, schema, replaced>>
    BY <1>0 DEF Restore, Rename, At, Ends
<1>2. /\ names \in [Name -> File] /\ DirOK(names) /\ replaced = 0
      /\ names["hlb"] = Absent /\ names["previous"] # Absent
      /\ links => names["failed"] = Binary(command.version)
      /\ schema = Ships[command.version]
    BY <1>1 DEF IInv, TypeOK, DirsOK, StepOK
<1>3. /\ dir \in [Name -> File] /\ dir["hlb"] = names["previous"]
      /\ dir["new"] = names["new"]
      /\ dir["previous"] = Absent /\ dir["failed"] = names["failed"]
    BY <1>0, <1>2, FileIs, DirIs
<1>4. links => Whole(names["previous"])
    BY <1>2, FileIs, DirIs DEF DirOK
<1>5. DirOK(dir)'
    BY <1>1, <1>2, <1>3, <1>4, FileIs, DirIs DEF DirOK
<1>6. /\ durable' \subseteq [Name -> File] /\ names' \in durable' /\ names' = dir
      /\ DirsOK'
      /\ \A m : Common(m) /\ Carries(dir, m) => Common(m)'
    BY <1>1, <1>3, <1>5, BecomeOK DEF IInv, TypeOK
<1>7. TypeOK'
    BY <1>1, <1>6, SelfUpdateAssumption DEF IInv, TypeOK, Idle, PC
<1>8. StepOK' /\ PredecessorEverywhere'
    BY <1>1, <1>2 DEF StepOK, PredecessorEverywhere, Idle, OnHlb, Updating, Filled
<1>9. SchemaHeld'
  <2> SUFFICES ASSUME links PROVE SchemaHeld'
      BY <1>1 DEF SchemaHeld
  <2>1. PICK m \in Version : Common(m) /\ AtHand(m)
      BY DEF IInv, SchemaHeld
  <2>2. names["failed"] = Binary(m) /\ m = command.version
      BY <1>2, <2>1, FileIs, ShipsGrows DEF AtHand
  <2>3. Carries(names, m)
      BY <2>1 DEF Common, IInv, TypeOK
  <2>4. Carries(dir, m)
      BY <1>3, <2>2, <2>3, FileIs, DirIs, ShipsGrows DEF Carries
  <2>5. AtHand(m)'
      BY <1>3, <1>6, <2>2 DEF AtHand
  <2>6. schema' <= Ships[m]
      BY <1>1, <1>2, <2>2, ShipsGrows
  <2> QED BY <1>6, <2>1, <2>4, <2>5, <2>6 DEF SchemaHeld
<1> QED BY <1>6, <1>7, <1>8, <1>9 DEF IInv

-----------------------------------------------------------------------------
(* What the kernel and a power cut make of it.                               *)

\* Flushing changes no release, and with hard links nothing at all.
LEMMA FlushedIs ==
    ASSUME NEW d \in [Name -> File]
    PROVE  /\ Flushed(d) \in [Name -> File]
           /\ \A n \in Name : /\ Flushed(d)[n].version = d[n].version
                              /\ Whole(d[n]) => Flushed(d)[n] = Binary(d[n].version)
                              /\ ~Whole(d[n]) => Flushed(d)[n] = d[n]
                              /\ d[n].flushed => Flushed(d)[n] = d[n]
<1>1. \A n \in Name : d[n] \in File
    OBVIOUS
<1>2. \A n \in Name : Flushed(d)[n] = IF Whole(d[n]) THEN Binary(d[n].version) ELSE d[n]
    BY DEF Flushed
<1>3. \A n \in Name : Flushed(d)[n] \in File
    BY <1>1, <1>2, FileIs
<1>4. Flushed(d) \in [Name -> File]
    BY <1>3 DEF Flushed
<1> QED BY <1>1, <1>2, <1>4, FileIs

\* The kernel writes back: one directory is left, the one there is.
LEMMA WritebackStep == IInv /\ Writeback => IInv'
<1> SUFFICES ASSUME IInv, Writeback PROVE IInv'
    OBVIOUS
<1>0. PICK dir : dir = Flushed(names)
    OBVIOUS
<1>1. /\ names' = dir /\ durable' = {dir} /\ rolled' = OnPath(names, rolled)
      /\ UNCHANGED <<links, schema, command, replaced>>
    BY <1>0 DEF Writeback, ToDisk
<1>2. /\ names \in [Name -> File] /\ DirOK(names) /\ rolled \in BOOLEAN
      /\ rolled' = IF Whole(names["hlb"]) THEN FALSE ELSE rolled
    BY <1>1 DEF IInv, TypeOK, DirsOK, OnPath
<1>3. /\ dir \in [Name -> File]
      /\ \A n \in Name : /\ dir[n].version = names[n].version
                         /\ Whole(names[n]) => dir[n] = Binary(names[n].version)
                         /\ ~Whole(names[n]) => dir[n] = names[n]
                         /\ names[n].flushed => dir[n] = names[n]
    BY <1>0, <1>2, FlushedIs
<1>4. TypeOK'
    BY <1>1, <1>2, <1>3 DEF IInv, TypeOK
<1>5. DirsOK'
  <2>1. DirOK(dir)'
      BY <1>1, <1>2, <1>3, FileIs, DirIs DEF DirOK
  <2> QED BY <1>1, <2>1 DEF DirsOK
<1>6. StepOK'
  <2>1. command.pc \in OnHlb =>
          Whole(dir["hlb"]) /\ dir["hlb"].version = command.version
      BY <1>2, <1>3, FileIs, DirIs DEF IInv, StepOK
  <2>2. command.pc \in Filled => dir["new"] = Binary(command.target)
      BY <1>2, <1>3, FileIs, DirIs DEF IInv, StepOK, TypeOK
  <2>3. command.pc = "putting" /\ links => dir["previous"] = Binary(command.version)
      BY <1>2, <1>3, FileIs, DirIs DEF IInv, StepOK
  <2>4. command.pc \in {"clearing", "aside", "restoring"} => dir["previous"] # Absent
      BY <1>2, <1>3, FileIs, DirIs DEF IInv, StepOK
  <2>5. command.pc = "restoring" =>
          /\ dir["hlb"] = Absent /\ rolled'
          /\ links => dir["failed"] = Binary(command.version)
      BY <1>2, <1>3, FileIs, DirIs DEF IInv, StepOK
  <2> QED BY <1>1, <2>1, <2>2, <2>3, <2>4, <2>5 DEF IInv, StepOK
<1>7. ASSUME links PROVE /\ dir["hlb"] = names["hlb"] /\ dir["previous"] = names["previous"]
                         /\ dir["failed"] = names["failed"]
                         /\ \A n \in Name, m \in Version :
                               names[n] = Binary(m) => dir[n] = Binary(m)
    BY <1>2, <1>3, <1>7, FileIs, DirIs, ShipsGrows DEF DirOK
<1>8. PredecessorEverywhere'
    BY <1>1, <1>7 DEF IInv, TypeOK, PredecessorEverywhere
<1>9. SchemaHeld'
  <2>1. ASSUME links, NEW m \in Version, Common(m) PROVE Common(m)'
    <3>1. Carries(names, m)
        BY <2>1 DEF Common, IInv, TypeOK
    <3>2. Carries(dir, m)
        BY <1>7, <2>1, <3>1 DEF Carries
    <3> QED BY <1>1, <3>2 DEF Common
  <2>2. ASSUME links, NEW m \in Version, AtHand(m) PROVE AtHand(m)'
      BY <1>1, <1>7, <2>2 DEF AtHand
  <2> QED BY <1>1, <2>1, <2>2 DEF IInv, SchemaHeld
<1> QED BY <1>4, <1>5, <1>6, <1>8, <1>9 DEF IInv

\* The power is cut: one of the directories is left, of which what was flushed is whole.
LEMMA PowerCutStep == IInv /\ PowerCut => IInv'
<1> SUFFICES ASSUME IInv, PowerCut PROVE IInv'
    OBVIOUS
<1>1. PICK dir \in durable, torn \in SUBSET Name :
         /\ \A n \in torn : ~dir[n].flushed
         /\ names' = [n \in Name |-> IF n \in torn THEN Torn ELSE Flushed(dir)[n]]
         /\ replaced' = IF dir["hlb"] = names["hlb"] THEN replaced ELSE 0
    BY DEF PowerCut
<1>2. /\ durable' = {names'} /\ rolled' = OnPath(names', rolled) /\ command' = Idle
      /\ UNCHANGED <<links, schema>>
    BY DEF PowerCut, Ends
<1>3. PICK after : after = names'
    OBVIOUS
<1>4. dir \in [Name -> File] /\ DirOK(dir)
    BY DEF IInv, TypeOK, DirsOK
<1>5. /\ after \in [Name -> File]
      /\ \A n \in Name : /\ after[n] = Torn \/ after[n].version = dir[n].version
                         /\ Whole(after[n]) => after[n] = Binary(dir[n].version)
                         /\ dir[n].flushed => after[n] = dir[n]
    BY <1>1, <1>3, <1>4, FlushedIs, FileIs
<1>6. rolled' = IF Whole(after["hlb"]) THEN FALSE ELSE rolled
    BY <1>2, <1>3 DEF OnPath
<1>7. TypeOK'
  <2>1. durable' \subseteq [Name -> File] /\ names' \in durable' /\ links' \in BOOLEAN
      BY <1>2, <1>3, <1>5 DEF IInv, TypeOK
  <2>2. command' \in [pc : PC, version : 0..MaxVersion, target : 0..MaxVersion]
      BY <1>2, SelfUpdateAssumption DEF Idle, PC
  <2>3. replaced' \in 0..MaxVersion
    <3>1. replaced \in 0..MaxVersion /\ 0 \in 0..MaxVersion
        BY SelfUpdateAssumption DEF IInv, TypeOK
    <3> QED BY <1>1, <3>1
  <2>4. rolled' \in BOOLEAN
      BY <1>6 DEF IInv, TypeOK
  <2>5. schema' \in Nat
      BY <1>2 DEF IInv, TypeOK
  <2> QED BY <2>1, <2>2, <2>3, <2>4, <2>5 DEF TypeOK
<1>8. DirOK(after)'
    BY <1>2, <1>4, <1>5, <1>6, FileIs, DirIs DEF DirOK, IInv, TypeOK
<1>9. DirsOK'
    BY <1>2, <1>3, <1>8 DEF DirsOK
<1>10. StepOK'
    BY <1>2 DEF StepOK, Idle, OnHlb, Updating, Filled
<1>11. ASSUME links
       PROVE  /\ after["hlb"] = dir["hlb"] /\ after["previous"] = dir["previous"]
              /\ after["failed"] = dir["failed"]
              /\ \A n \in Name, m \in Version : dir[n] = Binary(m) => after[n] = Binary(m)
    BY <1>4, <1>5, <1>11, FileIs, DirIs DEF DirOK
<1>12. PredecessorEverywhere'
    BY <1>1, <1>2, <1>3, <1>11 DEF IInv, PredecessorEverywhere
<1>13. SchemaHeld'
  <2> SUFFICES ASSUME links PROVE SchemaHeld'
      BY <1>2 DEF SchemaHeld
  <2>1. PICK k \in Version : Common(k) /\ schema <= Ships[k]
      BY DEF IInv, SchemaHeld
  <2>2. Common(k)'
    <3>1. Carries(dir, k)
        BY <2>1 DEF Common
    <3>2. Carries(after, k)
        BY <1>11, <2>1, <3>1 DEF Carries
    <3> QED BY <1>2, <1>3, <3>2 DEF Common
  <2>3. PICK n \in {"hlb", "failed"} :
           n = IF Whole(dir["hlb"]) THEN "hlb" ELSE "failed"
      OBVIOUS
  <2>4. PICK m : m = dir[n].version
      OBVIOUS
  <2>5. m \in Version /\ dir[n] = Binary(m) /\ after[n] = Binary(m)
      BY <1>4, <1>11, <2>3, <2>4, FileIs, DirIs, ShipsGrows DEF DirOK
  <2>6. after["hlb"].version <= m /\ after["previous"].version <= m
      BY <1>4, <1>11, <2>3, <2>4, <2>5, FileIs, DirIs, ShipsGrows DEF DirOK
  <2>7. Common(m)'
      BY <1>2, <1>3, <2>3, <2>5, <2>6, DirIs DEF Common, Carries
  <2>8. AtHand(m)'
      BY <1>3, <1>11, <2>3, <2>5 DEF AtHand
  <2> QED BY <1>2, <2>1, <2>2, <2>5, <2>7, <2>8 DEF SchemaHeld
<1> QED BY <1>7, <1>9, <1>10, <1>12, <1>13 DEF IInv

-----------------------------------------------------------------------------
\* Every step keeps the invariant.
LEMMA NextOK == IInv /\ [Next]_vars => IInv'
<1> SUFFICES ASSUME IInv, [Next]_vars PROVE IInv'
    OBVIOUS
<1>1. CASE BeginUpdate
  <2>1. PICK t \in Version : t > names["hlb"].version /\ Begin("writing", t)
      BY <1>1 DEF BeginUpdate
  <2> QED BY <2>1, BeginStep DEF Version
<1>2. CASE BeginRollback
    BY <1>2, BeginStep, SelfUpdateAssumption DEF BeginRollback
<1>3. CASE BeginUndo
  <2>1. PICK t \in Version : Begin("undoing", t)
      BY <1>3 DEF BeginUndo
  <2> QED BY <2>1, BeginStep DEF Version
<1>4. CASE UNCHANGED vars
  <2>1. UNCHANGED <<names, durable, links, schema, command, replaced, rolled>>
      BY <1>4 DEF vars
  <2>2. TypeOK' /\ StepOK'
      BY <2>1 DEF IInv, TypeOK, StepOK
  <2>3. SchemaHeld'
      BY <2>1, DirSame DEF IInv, SchemaHeld
  <2> QED BY <2>1, <2>2, <2>3, DirSame DEF IInv
<1> QED
    BY <1>1, <1>2, <1>3, <1>4, OpenCutStep, QuietStep, CreateStep, FillStep,
       RemovePreviousStep, KeepStep, PutStep, SyncStep, RemoveFailedStep, SetAsideStep,
       RestoreStep, WritebackStep, PowerCutStep
    DEF Next, Update, Rollback

\* The invariant holds in every state the commands, the kernel and a power cut reach.
LEMMA Invariance == Spec => []IInv
BY InitOK, NextOK, PTL DEF Spec

\* The path names a whole binary wherever swap() stops, for any number of releases; where
\* rollback() stops between its renames, what it set aside is whole.
THEOREM PathStaysWhole == Spec => []WholeAtPath
<1>1. IInv => WholeAtPath
    BY FileIs, DirIs DEF IInv, TypeOK, DirsOK, DirOK, WholeAtPath
<1> QED BY <1>1, Invariance, PTL

\* The binary replaced is kept beside its successor, also through a power cut, until
\* another command takes its place.
THEOREM OldBinaryKept == Spec => []PredecessorKept
<1>1. IInv => PredecessorKept
    BY DEF IInv, TypeOK, PredecessorEverywhere, PredecessorKept
<1> QED BY <1>1, Invariance, PTL

\* However releases, migrations undone, rollbacks and power cuts follow each other, some
\* binary of the directory opens the state.
THEOREM StateStaysOpenable == Spec => []SomeBinaryOpens
<1>1. ASSUME IInv, links PROVE \E n \in Name : Whole(names[n]) /\ Opens(names[n].version)
  <2>1. PICK m \in Version : Common(m) /\ schema <= Ships[m]
      BY <1>1 DEF IInv, SchemaHeld
  <2>2. PICK n \in Name : names[n] = Binary(m)
      BY <1>1, <2>1 DEF IInv, TypeOK, Common, Carries
  <2> QED BY <2>1, <2>2, FileIs, ShipsGrows DEF Opens
<1>2. IInv => SomeBinaryOpens
    BY <1>1 DEF SomeBinaryOpens
<1> QED BY <1>2, Invariance, PTL
=============================================================================
