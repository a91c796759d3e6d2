----------------------------- MODULE SelfUpdate -----------------------------
(***************************************************************************)
(* hlb replacing itself (crates/hlb-selfupdate/src/swap.rs), and the state *)
(* it migrates whenever it opens it (crates/hlb-state/src/lib.rs): hlb     *)
(* self update, hlb self rollback --binary and hlb self rollback           *)
(* --to-migration (crates/hlb-cli/src/main.rs, Command::Selfy), one at a   *)
(* time, each of which may fail, be killed, or lose the machine's power    *)
(* between two calls to the filesystem.                                    *)
(*                                                                         *)
(* What a power cut leaves is any of the directories there have been since *)
(* the last one flushed, and, of a file not flushed, nothing whole; a file *)
(* is flushed with the directory's changes up to it, as the journal of a   *)
(* filesystem does.                                                        *)
(***************************************************************************)
EXTENDS Naturals

CONSTANTS
    MaxVersion,     \* bound: releases there are, 1..MaxVersion
    Ships           \* [1..MaxVersion -> Nat]: the last migration each release ships

Version == 1..MaxVersion

ASSUME SelfUpdateAssumption ==
    /\ MaxVersion \in Nat \ {0}
    /\ Ships \in [Version -> Nat \ {0}]
    /\ \A v, w \in Version : v <= w => Ships[v] <= Ships[w]

VARIABLES
    names,      \* the directory: what hlb, hlb.new, hlb.previous, hlb.failed name
    durable,    \* the directories a power cut may leave
    links,      \* does the filesystem have hard links?
    schema,     \* the last migration applied
    command,    \* the command running: its step, its own release, its target
    replaced,   \* history: the release the one at the path replaced, 0 for none
    rolled      \* history: a rollback's renames are on their way to the disk

vars == <<names, durable, links, schema, command, replaced, rolled>>

Name == {"hlb", "new", "previous", "failed"}
Absent == [version |-> 0, flushed |-> TRUE]
Torn == [version |-> 0, flushed |-> FALSE]
Binary(v) == [version |-> v, flushed |-> TRUE]
Whole(f) == f.version # 0
Idle == [pc |-> "idle", version |-> 0, target |-> 0]

Init ==
    \E v \in Version :
        /\ names = [n \in Name |-> IF n = "hlb" THEN Binary(v) ELSE Absent]
        /\ durable = {names}
        /\ links \in BOOLEAN
        /\ schema = Ships[v]
        /\ command = Idle
        /\ replaced = 0 /\ rolled = FALSE

Rename(to, from) == [names EXCEPT ![to] = names[from], ![from] = Absent]

\* The directory changes; the disk may keep any of those since the last flush.
Become(dir) == names' = dir /\ durable' = durable \cup {dir}
Flushed(dir) == [n \in Name |-> IF Whole(dir[n]) THEN Binary(dir[n].version) ELSE dir[n]]
ToDisk == names' = Flushed(names) /\ durable' = {Flushed(names)}
OnPath(dir, r) == IF Whole(dir["hlb"]) THEN FALSE ELSE r

At(pc) == command.pc = pc
Goto(pc) == command' = [command EXCEPT !.pc = pc]
Ends == command' = Idle

-----------------------------------------------------------------------------
(* Every command opens the state first, which migrates it up to what its own *)
(* release ships, and refuses a schema its release does not know.            *)
Opens(v) == schema <= Ships[v]

Begin(pc, t) ==
    /\ At("idle") /\ Whole(names["hlb"])
    /\ Opens(names["hlb"].version)
    /\ command' = [pc |-> pc, version |-> names["hlb"].version, target |-> t]
    /\ schema' = Ships[names["hlb"].version]
    /\ UNCHANGED <<names, durable, links, replaced, rolled>>

\* Killed between two migrations: each one is a transaction.
OpenCut ==
    /\ At("idle") /\ Whole(names["hlb"])
    /\ schema < Ships[names["hlb"].version]
    /\ schema' \in schema + 1..Ships[names["hlb"].version]
    /\ UNCHANGED <<names, durable, links, command, replaced, rolled>>

\* hlb self update: plan() lets nothing but a later release through.
BeginUpdate ==
    \E t \in Version : t > names["hlb"].version /\ Begin("writing", t)

BeginRollback == Begin("checking", 0)

\* hlb self rollback --to-migration: undo_migrations(), down to what a release ships.
BeginUndo == \E t \in Version : Begin("undoing", t)

Undo ==
    /\ At("undoing")
    /\ LET to == Ships[command.target] IN
       schema' = IF to < schema THEN to ELSE schema
    /\ Ends
    /\ UNCHANGED <<names, durable, links, replaced, rolled>>

-----------------------------------------------------------------------------
\* swap(): write_synced creates hlb.new, fills it, flushes it.
Create ==
    /\ At("writing")
    /\ Become([names EXCEPT !["new"] = Torn])
    /\ Goto("filling")
    /\ UNCHANGED <<links, schema, replaced, rolled>>

WrittenUnflushed(t) == [version |-> t, flushed |-> FALSE]
Written(t) == Binary(t)
Fill ==
    /\ At("filling")
    /\ names' = [names EXCEPT !["new"] = Written(command.target)]
    /\ durable' = IF names'["new"].flushed THEN {names'} ELSE durable \cup {names'}
    /\ Goto("keeping")
    /\ UNCHANGED <<links, schema, replaced, rolled>>

\* The previous binary makes room for the current one's second name.
RemovePrevious ==
    /\ At("keeping")
    /\ Become([names EXCEPT !["previous"] = Absent])
    /\ replaced' = 0
    /\ Goto("linking")
    /\ UNCHANGED <<links, schema, rolled>>

\* A hard link, or where there are none a copy, which nothing flushes.
KeptNever == names
Kept ==
    [names EXCEPT !["previous"] = IF links THEN names["hlb"]
                                  ELSE [names["hlb"] EXCEPT !.flushed = FALSE]]
Keep ==
    /\ At("linking")
    /\ Become(Kept)
    /\ Goto("putting")
    /\ UNCHANGED <<links, schema, replaced, rolled>>

\* The copy may stop halfway.
CopyCut ==
    /\ At("linking") /\ ~links
    /\ Become([names EXCEPT !["previous"] = Torn])
    /\ Ends
    /\ UNCHANGED <<links, schema, replaced, rolled>>

Put ==
    /\ At("putting")
    /\ Become(Rename("hlb", "new"))
    /\ replaced' = command.version
    /\ Goto("syncing")
    /\ UNCHANGED <<links, schema, rolled>>

\* sync_directory: best effort.
SyncDirectory ==
    /\ At("syncing")
    /\ \/ durable' = {names} /\ UNCHANGED names
       \/ UNCHANGED <<names, durable>>
    /\ Ends
    /\ UNCHANGED <<links, schema, replaced, rolled>>

-----------------------------------------------------------------------------
\* rollback(): nothing to restore is an error, and changes nothing.
CheckPrevious ==
    /\ At("checking")
    /\ IF names["previous"] = Absent THEN Ends ELSE Goto("clearing")
    /\ UNCHANGED <<names, durable, links, schema, replaced, rolled>>

RemoveFailed ==
    /\ At("clearing")
    /\ Become([names EXCEPT !["failed"] = Absent])
    /\ Goto("aside")
    /\ UNCHANGED <<links, schema, replaced, rolled>>

\* The current one is renamed aside.  That it could not be is ignored, and is then found
\* by the next rename, in the same directory: a Stop.
AsideDeleted == [names EXCEPT !["hlb"] = Absent]
Aside == Rename("failed", "hlb")
SetAside ==
    /\ At("aside")
    /\ Become(Aside)
    /\ rolled' = TRUE
    /\ replaced' = 0
    /\ Goto("restoring")
    /\ UNCHANGED <<links, schema>>

Restore ==
    /\ At("restoring")
    /\ Become(Rename("hlb", "previous"))
    /\ rolled' = TRUE
    /\ Ends
    /\ UNCHANGED <<links, schema, replaced>>

-----------------------------------------------------------------------------
\* A call fails, or the process is killed: the command ends where it is.
Stop ==
    /\ ~At("idle")
    /\ Ends
    /\ UNCHANGED <<names, durable, links, schema, replaced, rolled>>

\* The kernel writes back what was not flushed.
Writeback ==
    /\ durable # {Flushed(names)}
    /\ ToDisk
    /\ rolled' = OnPath(names, rolled)
    /\ UNCHANGED <<links, schema, command, replaced>>

\* A file not flushed is whole or torn; the names are some of the last ones.
PowerCut ==
    /\ \E dir \in durable, torn \in SUBSET Name :
           /\ \A n \in torn : ~dir[n].flushed
           /\ names' = [n \in Name |-> IF n \in torn THEN Torn ELSE Flushed(dir)[n]]
           /\ replaced' = IF dir["hlb"] = names["hlb"] THEN replaced ELSE 0
    /\ durable' = {names'}
    /\ rolled' = OnPath(names', rolled)
    /\ Ends
    /\ UNCHANGED <<links, schema>>

Update == Create \/ Fill \/ RemovePrevious \/ Keep \/ CopyCut \/ Put \/ SyncDirectory
Rollback == CheckPrevious \/ RemoveFailed \/ SetAside \/ Restore

Next ==
    \/ BeginUpdate \/ BeginRollback \/ BeginUndo \/ OpenCut
    \/ Update \/ Rollback \/ Undo
    \/ Stop \/ Writeback \/ PowerCut

Spec == Init /\ [][Next]_vars

-----------------------------------------------------------------------------
\* The path names a whole binary wherever an update stops (swap.rs, its header); and
\* where a rollback stops between its two renames, what it set aside is whole, on a
\* filesystem with hard links.
WholeAtPath ==
    \/ Whole(names["hlb"])
    \/ rolled /\ (links => Whole(names["failed"]))

\* A binary put at the path keeps the one it replaced beside it, on a filesystem with
\* hard links, until another command takes its place (swap.rs, "The old binary is
\* KEPT"): also after a power cut.
PredecessorKept ==
    replaced # 0 /\ links => names["previous"] = Binary(replaced)

\* Whatever was installed, undone, restored or cut short, some binary of the directory
\* still opens the state: the schema is never left to a release nobody has.
SomeBinaryOpens ==
    links => \E n \in Name : Whole(names[n]) /\ Opens(names[n].version)
=============================================================================
