----------------------------- MODULE SyncTarget -----------------------------
(***************************************************************************)
(* How the plugin binds its history, its client and its engine to the      *)
(* account and folder of the settings (src/src/main.ts, coordinator.ts).   *)
(* Syncs, conflict sessions, previews, dialogs and forced uploads all call *)
(* prepareSyncTarget and share one preparation; the settings change under  *)
(* them.  What follows an await of the preparation at once runs before any *)
(* other event: a caller that has its answer goes first.                   *)
(***************************************************************************)
EXTENDS Integers

CONSTANTS Targets,    \* an account with a folder
          Nothing,
          MaxChanges  \* bound: how often the client is dropped

ASSUME TargetAssumption == MaxChanges \in Nat /\ Nothing \notin Targets

VARIABLES chosen,      \* the target of the settings
          edited,      \* they were edited and refreshSyncTarget has not run yet
          generation,  \* targetGeneration
          drops,       \* history: how often the client was dropped
          db,          \* the open history: its target and whether it is writable
          client,      \* remoteFs
          prep,        \* targetPreparation
          engine,      \* the coordinator's cached engine: its history and client
          syncing, stale,         \* isSyncing and invalidateAfterRun
          previewing, forcing, unloaded,
          phase,       \* where each caller is
          answer,      \* what the preparation told it
          holds        \* the history and client it works with

bound == <<chosen, edited, generation, drops>>
flags == <<syncing, previewing, forcing, unloaded>>
callers == <<phase, answer, holds>>
targetVars == <<bound, db, client, prep, engine, stale, flags, callers>>

Callers == {"run", "session", "preview", "dialog", "force"}

(* The callers that await the preparation, the first time or to verify.     *)
Waiting == {c \in Callers : phase[c] \in {"first", "again"} /\ answer[c] = "none"}

(* Nothing else runs while a caller has an answer to act on. *)
Quiet == \A c \in Callers : answer[c] = "none"

TargetInit ==
  /\ chosen \in Targets /\ edited = FALSE /\ generation = 0 /\ drops = 0
  /\ db = Nothing /\ client = Nothing /\ prep = Nothing
  /\ engine = Nothing /\ stale = FALSE
  /\ syncing = FALSE /\ previewing = FALSE /\ forcing = FALSE /\ unloaded = FALSE
  /\ phase = [c \in Callers |-> "idle"] /\ answer = [c \in Callers |-> "none"]
  /\ holds = [c \in Callers |-> Nothing]

-----------------------------------------------------------------------------
(* The settings. *)

(* invalidateEngine: put off to the end of the run that uses the engine.    *)
InvalidateEngine ==
  IF syncing THEN stale' = TRUE /\ UNCHANGED engine
  ELSE engine' = Nothing /\ UNCHANGED stale

DropClient == drops < MaxChanges /\ drops' = drops + 1 /\ client' = Nothing

(* The field changes at once; the refresh follows when the settings have    *)
(* been saved.                                                              *)
EditTarget(t) ==
  /\ Quiet /\ ~unloaded /\ drops < MaxChanges
  /\ chosen' = t /\ edited' = TRUE
  /\ UNCHANGED <<generation, drops, db, client, prep, engine, stale, flags, callers>>

MutRefresh ==
  /\ Quiet /\ ~unloaded
  /\ generation' = generation + 1 /\ edited' = FALSE
  /\ DropClient
  /\ IF forcing THEN UNCHANGED <<engine, stale>> ELSE InvalidateEngine
  /\ UNCHANGED <<chosen, db, prep, flags, callers>>

Refresh ==
  /\ Quiet /\ ~unloaded
  /\ generation' = generation + 1 /\ edited' = FALSE
  /\ DropClient /\ db' = Nothing
  /\ IF forcing THEN UNCHANGED <<engine, stale>> ELSE InvalidateEngine
  /\ UNCHANGED <<chosen, prep, flags, callers>>

SetSessionPassword ==
  /\ Quiet /\ ~unloaded
  /\ DropClient /\ InvalidateEngine
  /\ UNCHANGED <<chosen, edited, generation, db, prep, flags, callers>>

(* The plugin is closed: its windows, then the coordinator, then the rest.  *)
Unload ==
  /\ Quiet /\ ~unloaded /\ unloaded' = TRUE /\ previewing' = FALSE
  /\ engine' = Nothing /\ client' = Nothing /\ db' = Nothing
  /\ UNCHANGED <<bound, prep, stale, syncing, forcing, callers>>

-----------------------------------------------------------------------------
(* prepareSyncTarget. *)

TheClient == IF client = Nothing THEN [target |-> chosen, made |-> drops] ELSE client

MutIsAllowed(c) == TRUE

(* While a forced upload runs only its own preparation is let through.      *)
IsAllowed(c) == forcing => c = "force"

(* A caller asks: it joins the preparation under way, or starts one.  It    *)
(* may also be turned away, over a mutation that is still outstanding.      *)
Ask(c, at, readOnly) ==
  \/ /\ IsAllowed(c) /\ prep # Nothing
     /\ phase' = [phase EXCEPT ![c] = at] /\ answer' = [answer EXCEPT ![c] = "none"]
     /\ UNCHANGED <<prep, client>>
  \/ /\ IsAllowed(c) /\ prep = Nothing
     /\ phase' = [phase EXCEPT ![c] = at] /\ answer' = [answer EXCEPT ![c] = "none"]
     /\ client' = TheClient
     /\ prep' = [step |-> "identity", generation |-> generation, target |-> TheClient.target,
                 readOnly |-> readOnly]
  \/ /\ phase' = [phase EXCEPT ![c] = at] /\ answer' = [answer EXCEPT ![c] = "failed"]
     /\ UNCHANGED <<prep, client>>

Finish(result) ==
  /\ prep' = Nothing
  /\ answer' = [c \in Callers |-> IF c \in Waiting THEN result ELSE answer[c]]
  /\ UNCHANGED <<phase, holds>>

MutIsCurrent == ~unloaded

IsCurrent == prep.generation = generation /\ ~unloaded

IsBound == db # Nothing /\ db.target = prep.target /\ (db.writable \/ prep.readOnly)

(* The identity of the client's folder arrives. *)
KnowIdentity ==
  /\ Quiet /\ prep # Nothing /\ prep.step = "identity"
  /\ IF IsCurrent /\ ~IsBound
     THEN prep' = [prep EXCEPT !.step = "open"] /\ UNCHANGED callers
     ELSE Finish(IF IsCurrent THEN "ok" ELSE "failed")
  /\ UNCHANGED <<bound, db, client, engine, stale, flags>>

(* Its history is open, and migrated when it is to be written: it takes the *)
(* place of the previous one, unless the target changed meanwhile.          *)
Bind ==
  /\ Quiet /\ prep # Nothing /\ prep.step = "open"
  /\ IF IsCurrent
     THEN /\ db' = [target |-> prep.target, writable |-> ~prep.readOnly]
          /\ prep' = [prep EXCEPT !.step = "conflicts"]
          /\ InvalidateEngine /\ UNCHANGED callers
     ELSE Finish("failed") /\ UNCHANGED <<db, engine, stale>>
  /\ UNCHANGED <<bound, client, flags>>

(* The conflicts of the new history are read: the preparation has ended.    *)
EndPreparation ==
  /\ Quiet /\ prep # Nothing /\ prep.step = "conflicts"
  /\ Finish("ok")
  /\ UNCHANGED <<bound, db, client, engine, stale, flags>>

(* The drive or the store fails at any of these steps.                      *)
FailPreparation ==
  /\ Quiet /\ prep # Nothing
  /\ Finish("failed")
  /\ UNCHANGED <<bound, db, client, engine, stale, flags>>

-----------------------------------------------------------------------------
(* What a caller does with its answer. *)

Go(c, at) == phase' = [phase EXCEPT ![c] = at] /\ answer' = [answer EXCEPT ![c] = "none"]

Take(c, what) == holds' = [holds EXCEPT ![c] = what]

Leave(c) == Go(c, "idle") /\ Take(c, Nothing)

Pair == [db |-> db, client |-> TheClient]

(* getSyncEngine: the cached engine, or one made of what is open now.       *)
TheEngine == IF engine = Nothing THEN Pair ELSE engine

TakeEngine(c, at) ==
  /\ db # Nothing
  /\ engine' = TheEngine /\ client' = IF engine = Nothing THEN TheClient ELSE client
  /\ Go(c, at) /\ Take(c, TheEngine)

(* Runs. *)
StartRun ==
  /\ Quiet /\ phase["run"] = "idle" /\ ~unloaded /\ ~syncing /\ ~previewing
  /\ syncing' = TRUE
  /\ Ask("run", "first", FALSE)
  /\ UNCHANGED <<bound, db, engine, stale, previewing, forcing, unloaded, holds>>

(* Between the preparation and the engine the run reads the conflicts and   *)
(* asks the drive for the target it will report.                            *)
RunIsPrepared ==
  /\ phase["run"] = "first" /\ answer["run"] = "ok"
  /\ Go("run", "info") /\ UNCHANGED <<bound, db, client, prep, engine, stale, flags, holds>>

AskInfo ==
  /\ Quiet /\ phase["run"] = "info"
  /\ client' = TheClient /\ Go("run", "told")
  /\ UNCHANGED <<bound, db, prep, engine, stale, flags, holds>>

RunWorks ==
  /\ Quiet /\ phase["run"] = "told"
  /\ TakeEngine("run", "busy")
  /\ UNCHANGED <<bound, db, prep, stale, flags>>

RunEnds ==
  /\ \/ Quiet /\ phase["run"] \in {"info", "told", "busy"}
     \/ phase["run"] = "first" /\ answer["run"] = "failed"
     \/ phase["run"] = "again" /\ answer["run"] # "none"
  /\ syncing' = FALSE /\ stale' = FALSE
  /\ engine' = IF stale THEN Nothing ELSE engine
  /\ Leave("run")
  /\ UNCHANGED <<bound, db, client, prep, previewing, forcing, unloaded>>

(* A conflict session takes the coordinator like a run and works only with  *)
(* the history the review was opened on.                                    *)
StartSession(reviewed) ==
  /\ Quiet /\ phase["session"] = "idle" /\ ~unloaded /\ ~syncing /\ ~previewing
  /\ syncing' = TRUE
  /\ Ask("session", "first", FALSE) /\ Take("session", reviewed)
  /\ UNCHANGED <<bound, db, engine, stale, previewing, forcing, unloaded>>

SessionWorks ==
  /\ phase["session"] = "first" /\ answer["session"] = "ok"
  /\ db # Nothing /\ db.target = holds["session"]
  /\ Go("session", "busy") /\ Take("session", Pair) /\ client' = TheClient
  /\ UNCHANGED <<bound, db, prep, engine, stale, flags>>

SessionEnds ==
  /\ \/ Quiet /\ phase["session"] \in {"busy", "write"}
     \/ answer["session"] # "none"
  /\ syncing' = FALSE /\ engine' = Nothing
  /\ Leave("session")
  /\ UNCHANGED <<bound, db, client, prep, stale, previewing, forcing, unloaded>>

(* The previews' window: a first preparation, the identity to show, then    *)
(* generatePreview, which prepares again.  Closing it stops nothing.        *)
OpenPreview ==
  /\ Quiet /\ phase["preview"] = "idle" /\ ~unloaded /\ ~syncing
  /\ previewing' = TRUE
  /\ Ask("preview", "first", TRUE)
  /\ UNCHANGED <<bound, db, engine, stale, syncing, forcing, unloaded, holds>>

ShowTarget ==
  /\ phase["preview"] = "first" /\ answer["preview"] = "ok"
  /\ client' = TheClient /\ Go("preview", "told")
  /\ UNCHANGED <<bound, db, prep, engine, stale, flags, holds>>

GeneratePreview ==
  /\ Quiet /\ phase["preview"] = "told" /\ ~syncing
  /\ previewing' = TRUE
  /\ Ask("preview", "again", TRUE)
  /\ UNCHANGED <<bound, db, engine, stale, syncing, forcing, unloaded, holds>>

PlanPreview ==
  /\ phase["preview"] = "again" /\ answer["preview"] = "ok"
  /\ TakeEngine("preview", "busy")
  /\ UNCHANGED <<bound, db, prep, stale, flags>>

(* Apply prepares for writing before it plans afresh. *)
ApplyPreview ==
  /\ Quiet /\ phase["preview"] = "busy" /\ previewing
  /\ Ask("preview", "first", FALSE) /\ Take("preview", Nothing)
  /\ UNCHANGED <<bound, db, engine, stale, flags>>

ClosePreview ==
  /\ Quiet /\ previewing /\ previewing' = FALSE
  /\ UNCHANGED <<bound, db, client, prep, engine, stale, syncing, forcing, unloaded, callers>>

PreviewEnds ==
  /\ \/ Quiet /\ phase["preview"] \in {"told", "busy"}
     \/ answer["preview"] # "none"
  /\ Leave("preview")
  /\ UNCHANGED <<bound, db, client, prep, engine, stale, flags>>

(* Dialogs: version history and conflict review open for writing, deleted   *)
(* files for reading; each verifies the target before it acts.              *)
OpenDialog(readOnly) ==
  /\ Quiet /\ phase["dialog"] = "idle" /\ ~unloaded
  /\ Ask("dialog", "first", readOnly)
  /\ UNCHANGED <<bound, db, engine, stale, flags, holds>>

ShowDialog ==
  /\ phase["dialog"] = "first" /\ answer["dialog"] = "ok" /\ db # Nothing /\ ~unloaded
  /\ Go("dialog", "busy") /\ Take("dialog", Pair) /\ client' = TheClient
  /\ UNCHANGED <<bound, db, prep, engine, stale, flags>>

CloseDialog ==
  /\ \/ Quiet /\ phase["dialog"] \in {"busy", "write"}
     \/ answer["dialog"] # "none"
  /\ Leave("dialog")
  /\ UNCHANGED <<bound, db, client, prep, engine, stale, flags>>

(* Verification before a write, of a session, a dialog or the conflict work *)
(* of a run: prepare again and compare.                                     *)
Verify(c) ==
  /\ Quiet /\ c \in {"run", "session", "dialog"} /\ phase[c] \in {"busy", "write"}
  /\ Ask(c, "again", FALSE)
  /\ UNCHANGED <<bound, db, engine, stale, flags, holds>>

MutIsSame(c) == db # Nothing

IsSame(c) == db # Nothing /\ db.target = holds[c].db.target

Verified(c) ==
  /\ c \in {"run", "session", "dialog"} /\ phase[c] = "again" /\ answer[c] = "ok" /\ IsSame(c)
  /\ IF c = "dialog" THEN ~unloaded /\ UNCHANGED client
     ELSE TheClient = holds[c].client /\ client' = TheClient
  /\ Go(c, "write")
  /\ UNCHANGED <<bound, db, prep, engine, stale, flags, holds>>

(* Forced uploads: the history is looked up again when it is written.       *)
StartForce ==
  /\ Quiet /\ phase["force"] = "idle" /\ ~unloaded /\ ~syncing /\ ~forcing
  /\ forcing' = TRUE
  /\ Ask("force", "first", FALSE)
  /\ UNCHANGED <<bound, db, engine, stale, syncing, previewing, unloaded, holds>>

ForceUploads ==
  /\ phase["force"] = "first" /\ answer["force"] = "ok"
  /\ Go("force", "busy") /\ client' = TheClient
  /\ Take("force", [db |-> db, client |-> TheClient])
  /\ UNCHANGED <<bound, db, prep, engine, stale, flags>>

ForceEnds ==
  /\ \/ Quiet /\ phase["force"] = "busy"
     \/ answer["force"] # "none"
  /\ forcing' = FALSE /\ InvalidateEngine
  /\ Leave("force")
  /\ UNCHANGED <<bound, db, client, prep, syncing, previewing, unloaded>>

TargetNext ==
  \/ \E t \in Targets : EditTarget(t)
  \/ Refresh \/ SetSessionPassword \/ Unload
  \/ KnowIdentity \/ Bind \/ EndPreparation \/ FailPreparation
  \/ StartRun \/ RunIsPrepared \/ AskInfo \/ RunWorks \/ RunEnds
  \/ \E t \in Targets : StartSession(t)
  \/ SessionWorks \/ SessionEnds
  \/ OpenPreview \/ ShowTarget \/ GeneratePreview \/ PlanPreview
  \/ ApplyPreview \/ ClosePreview \/ PreviewEnds
  \/ ShowDialog \/ CloseDialog \/ \E readOnly \in BOOLEAN : OpenDialog(readOnly)
  \/ \E c \in Callers : Verify(c) \/ Verified(c)
  \/ StartForce \/ ForceUploads \/ ForceEnds

TargetSpec == TargetInit /\ [][TargetNext]_targetVars

-----------------------------------------------------------------------------
(* The open history is that of the account and folder of the settings, but  *)
(* for the moment between an edit and the refresh that follows it: no       *)
(* preparation begun before a change binds after it, nor after the plugin   *)
(* is closed (main.ts:577, :603).                                           *)
HistoryIsOfTheSettings ==
  /\ db # Nothing /\ ~edited => db.target = chosen
  /\ unloaded => db = Nothing /\ engine = Nothing

(* An engine is made of a history and a client of one target, but for that  *)
(* moment: no pass compares one folder with the history of another          *)
(* (coordinator.ts:344).                                                    *)
EngineIsOfOneTarget ==
  [][engine' # engine /\ engine' # Nothing /\ ~edited => engine'.db.target = engine'.client.target]_targetVars

(* A forced upload records in the history of the folder it uploaded to, or  *)
(* in none, although it looks the history up again after the upload         *)
(* (force-upload.ts:11, main.ts:565).                                       *)
ForcedUploadsAreRecordedWhereMade ==
  phase["force"] = "busy" /\ db # Nothing /\ ~edited => db.target = holds["force"].client.target

(* What a dialog, a conflict session or a run has verified is the target of *)
(* the settings, but for that moment: a window opened before the account or *)
(* the folder changed writes nothing after it (main.ts:988,                 *)
(* coordinator.ts:180).                                                     *)
VerifiedIsCurrent ==
  [][\A c \in Callers :
       phase[c] # "write" /\ phase'[c] = "write" /\ ~edited =>
         /\ holds[c].db.target = chosen
         /\ c # "dialog" => holds[c].client.target = chosen]_targetVars

(* A run that works can record what it does.                                *)
RunsCanRecord == phase["run"] = "busy" => holds["run"].db.writable
=============================================================================
