-------------------------- MODULE SyncTargetProofs --------------------------
(***************************************************************************)
(* Proofs about the binding of the plugin to its target, for any set of    *)
(* targets and any number of changes: history, client and engine agree     *)
(* with the settings, whatever is under way when these change.             *)
(***************************************************************************)
EXTENDS SyncTarget, TLAPS

Counts == generation \in Nat /\ chosen \in Targets

(* The client is made from the settings as they are. *)
ClientIsOfTheSettings == client # Nothing /\ ~edited => client.target = chosen

(* A preparation that the refresh has not overtaken is for these settings.  *)
PreparationIsOfTheSettings ==
  prep # Nothing =>
    /\ prep.generation \in Nat /\ prep.generation <= generation
    /\ IsCurrent /\ ~edited => prep.target = chosen

(* A caller learns that it is prepared when the preparation has ended.      *)
AnswersCloseIt == \A c \in Callers : answer[c] = "ok" => prep = Nothing

CallersTyped == DOMAIN phase = Callers /\ DOMAIN answer = Callers /\ DOMAIN holds = Callers

(* Nobody else prepares while a forced upload is under way. *)
ForceIsAlone ==
  /\ phase["force"] # "idle" => forcing
  /\ phase["force"] = "busy" => prep = Nothing

Binding ==
  /\ Counts /\ ClientIsOfTheSettings /\ PreparationIsOfTheSettings
  /\ HistoryIsOfTheSettings

Forcing ==
  CallersTyped /\ AnswersCloseIt /\ ForceIsAlone /\ ForcedUploadsAreRecordedWhereMade

-----------------------------------------------------------------------------
(* History, client and preparation *)

(* A client that is asked for is of the settings' target. *)
LEMMA TheClientsTarget ==
  ASSUME ClientIsOfTheSettings, ~edited PROVE TheClient.target = chosen
BY DEF ClientIsOfTheSettings, TheClient

(* What a step does that neither changes the settings nor binds. *)
SettingsStand == UNCHANGED <<chosen, edited, generation>>

ClientStands == client' \in {client, TheClient}

(* Asking for a preparation. *)
LEMMA AskKeeps ==
  ASSUME NEW c, NEW at, NEW readOnly, Ask(c, at, readOnly), Binding,
         SettingsStand, UNCHANGED <<db, unloaded, engine>>
  PROVE  Binding'
<1> USE DEF Binding
<1>1. ClientStands
  BY DEF Ask, ClientStands
<1>2. ClientIsOfTheSettings'
  BY <1>1, TheClientsTarget DEF ClientIsOfTheSettings, ClientStands, SettingsStand
<1>3. CASE UNCHANGED prep
  <2>1. PreparationIsOfTheSettings'
    BY <1>3 DEF PreparationIsOfTheSettings, IsCurrent, SettingsStand
  <2> QED BY <1>2, <2>1 DEF HistoryIsOfTheSettings, SettingsStand, Counts
<1>4. CASE prep' = [step |-> "identity", generation |-> generation, target |-> TheClient.target,
                    readOnly |-> readOnly]
  <2>1. prep'.generation = generation /\ prep'.target = TheClient.target
    BY <1>4
  <2>2. PreparationIsOfTheSettings'
    BY <2>1, TheClientsTarget DEF PreparationIsOfTheSettings, SettingsStand, Counts
  <2> QED BY <1>2, <2>2 DEF HistoryIsOfTheSettings, SettingsStand, Counts
<1> QED BY <1>3, <1>4 DEF Ask

(* Steps that leave the preparation alone or end it. *)
LEMMA WorkKeeps ==
  ASSUME Binding, SettingsStand, ClientStands, db' = db, unloaded' = unloaded,
         prep' \in {prep, Nothing}, unloaded => engine' \in {engine, Nothing}
  PROVE  Binding'
<1> USE DEF Binding
<1>1. ClientIsOfTheSettings'
  BY TheClientsTarget DEF ClientIsOfTheSettings, ClientStands, SettingsStand
<1>2. PreparationIsOfTheSettings'
  BY DEF PreparationIsOfTheSettings, IsCurrent, SettingsStand
<1> QED BY <1>1, <1>2 DEF HistoryIsOfTheSettings, SettingsStand, Counts

LEMMA BindingKept ==
  ASSUME Binding, [TargetNext]_targetVars PROVE Binding'
<1> USE DEF bound, flags, callers
<1>1. ASSUME NEW t \in Targets, EditTarget(t) PROVE Binding'
  BY <1>1 DEF EditTarget, Binding, Counts, ClientIsOfTheSettings, PreparationIsOfTheSettings,
     IsCurrent, HistoryIsOfTheSettings
<1>2. CASE Refresh
  <2>1. generation' = generation + 1 /\ client' = Nothing /\ db' = Nothing /\ prep' = prep
        /\ chosen' = chosen /\ unloaded' = unloaded /\ ~unloaded
    BY <1>2 DEF Refresh, DropClient
  <2>2. PreparationIsOfTheSettings'
    BY <2>1 DEF Binding, Counts, PreparationIsOfTheSettings, IsCurrent
  <2> QED BY <2>1, <2>2 DEF Binding, Counts, ClientIsOfTheSettings, HistoryIsOfTheSettings
<1>3. CASE SetSessionPassword
  <2>1. SettingsStand /\ client' = Nothing /\ db' = db /\ prep' = prep /\ unloaded' = unloaded
        /\ ~unloaded
    BY <1>3 DEF SetSessionPassword, DropClient, SettingsStand
  <2> QED BY <2>1 DEF Binding, Counts, ClientIsOfTheSettings, PreparationIsOfTheSettings,
             IsCurrent, HistoryIsOfTheSettings, SettingsStand
<1>4. CASE Unload
  BY <1>4 DEF Unload, Binding, Counts, ClientIsOfTheSettings, PreparationIsOfTheSettings,
     IsCurrent, HistoryIsOfTheSettings
<1>5. CASE Bind
  <2>1. CASE IsCurrent
    <3>1. SettingsStand /\ client' = client /\ unloaded' = unloaded /\ ~unloaded /\ prep # Nothing
      BY <1>5, <2>1 DEF Bind, SettingsStand, IsCurrent
    <3>2. db' = [target |-> prep.target, writable |-> ~prep.readOnly]
          /\ prep' = [prep EXCEPT !.step = "conflicts"]
      BY <1>5, <2>1 DEF Bind
    <3>3. db'.target = prep.target
      BY <3>2
    <3>4. ~edited => prep.target = chosen
      BY <2>1, <3>1 DEF Binding, PreparationIsOfTheSettings
    <3>5. PreparationIsOfTheSettings'
      BY <3>1, <3>2 DEF Binding, PreparationIsOfTheSettings, IsCurrent, SettingsStand
    <3> QED BY <3>1, <3>3, <3>4, <3>5 DEF Binding, Counts, ClientIsOfTheSettings,
               HistoryIsOfTheSettings, SettingsStand
  <2>2. CASE ~IsCurrent
    BY <1>5, <2>2, WorkKeeps DEF Bind, Finish, SettingsStand, ClientStands
  <2> QED BY <2>1, <2>2
<1>6. CASE KnowIdentity
  <2>1. CASE prep' = [prep EXCEPT !.step = "open"]
    <3>1. SettingsStand /\ client' = client /\ unloaded' = unloaded /\ db' = db /\ engine' = engine
          /\ prep # Nothing
      BY <1>6 DEF KnowIdentity, SettingsStand
    <3>2. PreparationIsOfTheSettings'
      BY <2>1, <3>1 DEF Binding, PreparationIsOfTheSettings, IsCurrent, SettingsStand
    <3> QED BY <3>1, <3>2 DEF Binding, Counts, ClientIsOfTheSettings, HistoryIsOfTheSettings,
               SettingsStand
  <2>2. CASE prep' = Nothing
    BY <1>6, <2>2, WorkKeeps DEF KnowIdentity, SettingsStand, ClientStands
  <2> QED BY <1>6, <2>1, <2>2 DEF KnowIdentity, Finish
<1>7. CASE EndPreparation \/ FailPreparation
  BY <1>7, WorkKeeps DEF EndPreparation, FailPreparation, Finish, SettingsStand, ClientStands
<1>8. ASSUME NEW c, NEW at, NEW readOnly, Ask(c, at, readOnly), SettingsStand,
             UNCHANGED <<db, unloaded, engine>>
      PROVE Binding'
  BY <1>8, AskKeeps
<1>9. CASE \/ StartRun \/ \E t \in Targets : StartSession(t)
           \/ OpenPreview \/ GeneratePreview \/ ApplyPreview \/ StartForce
  BY <1>8, <1>9 DEF StartRun, StartSession, OpenPreview, GeneratePreview, ApplyPreview, StartForce,
     SettingsStand
<1>10. ASSUME NEW readOnly \in BOOLEAN, OpenDialog(readOnly) PROVE Binding'
  BY <1>8, <1>10 DEF OpenDialog, SettingsStand
<1>11. ASSUME NEW c \in Callers, Verify(c) PROVE Binding'
  BY <1>8, <1>11 DEF Verify, SettingsStand
<1>12. CASE RunIsPrepared \/ AskInfo \/ ShowTarget \/ SessionWorks \/ ShowDialog \/ ForceUploads
            \/ ClosePreview \/ PreviewEnds \/ CloseDialog
  BY <1>12, WorkKeeps DEF RunIsPrepared, AskInfo, ShowTarget, SessionWorks, ShowDialog, ForceUploads,
     ClosePreview, PreviewEnds, CloseDialog, SettingsStand, ClientStands
<1>13. ASSUME NEW c \in Callers, Verified(c) PROVE Binding'
  BY <1>13, WorkKeeps DEF Verified, SettingsStand, ClientStands
<1>14. CASE RunWorks \/ PlanPreview
  <2>1. ~unloaded
    BY <1>14 DEF RunWorks, PlanPreview, TakeEngine, Binding, HistoryIsOfTheSettings
  <2> QED BY <1>14, <2>1, WorkKeeps DEF RunWorks, PlanPreview, TakeEngine, SettingsStand, ClientStands
<1>15. CASE RunEnds \/ SessionEnds \/ ForceEnds
  BY <1>15, WorkKeeps DEF RunEnds, SessionEnds, ForceEnds, InvalidateEngine, SettingsStand,
     ClientStands
<1>16. CASE UNCHANGED targetVars
  BY <1>16, WorkKeeps DEF targetVars, SettingsStand, ClientStands
<1> QED BY <1>1, <1>2, <1>3, <1>4, <1>5, <1>6, <1>7, <1>9, <1>10, <1>11, <1>12, <1>13, <1>14, <1>15,
           <1>16 DEF TargetNext

LEMMA BindingHolds == TargetSpec => []Binding
<1>1. TargetInit => Binding
  BY DEF TargetInit, Binding, Counts, ClientIsOfTheSettings, PreparationIsOfTheSettings,
     HistoryIsOfTheSettings
<1> QED BY <1>1, BindingKept, PTL DEF TargetSpec

(* The open history is that of the settings, whatever was being prepared    *)
(* when they changed, and a closed plugin has none (main.ts:577, :603).     *)
THEOREM HistoryFollowsTheSettings == TargetSpec => []HistoryIsOfTheSettings
<1>1. Binding => HistoryIsOfTheSettings
  BY DEF Binding
<1> QED BY <1>1, BindingHolds, PTL
-----------------------------------------------------------------------------
(* Engines and verified work *)

(* A step that makes an engine makes it of the open history.                *)
LEMMA EngineMade ==
  ASSUME [TargetNext]_targetVars, engine' # engine, engine' # Nothing
  PROVE  db # Nothing /\ engine = Nothing /\ engine' = Pair
<1> USE DEF bound, flags, callers
<1>1. RunWorks \/ PlanPreview
  <2>1. ~(\E t \in Targets : EditTarget(t))
    BY DEF EditTarget
  <2>2. ~(Refresh \/ SetSessionPassword \/ Unload \/ KnowIdentity \/ Bind \/ EndPreparation
          \/ FailPreparation)
    BY DEF Refresh, SetSessionPassword, Unload, KnowIdentity, Bind, EndPreparation, FailPreparation,
       InvalidateEngine
  <2>3. ~(\/ StartRun \/ RunIsPrepared \/ AskInfo \/ RunEnds
          \/ (\E t \in Targets : StartSession(t)) \/ SessionWorks \/ SessionEnds)
    BY DEF StartRun, RunIsPrepared, AskInfo, RunEnds, StartSession, SessionWorks, SessionEnds
  <2>4. ~(OpenPreview \/ ShowTarget \/ GeneratePreview \/ ApplyPreview \/ ClosePreview
          \/ PreviewEnds)
    BY DEF OpenPreview, ShowTarget, GeneratePreview, ApplyPreview, ClosePreview, PreviewEnds
  <2>5. ~(ShowDialog \/ CloseDialog \/ \E readOnly \in BOOLEAN : OpenDialog(readOnly))
    BY DEF ShowDialog, CloseDialog, OpenDialog
  <2>6. ~(\E c \in Callers : Verify(c) \/ Verified(c))
    BY DEF Verify, Verified
  <2>7. ~(StartForce \/ ForceUploads \/ ForceEnds)
    BY DEF StartForce, ForceUploads, ForceEnds, InvalidateEngine
  <2> QED BY <2>1, <2>2, <2>3, <2>4, <2>5, <2>6, <2>7 DEF TargetNext, targetVars
<1> QED BY <1>1 DEF RunWorks, PlanPreview, TakeEngine, TheEngine

(* No engine is made of the history of one folder and the client of another *)
(* (coordinator.ts:344).                                                    *)
THEOREM EnginesAgree == TargetSpec => EngineIsOfOneTarget
<1>1. Binding /\ [TargetNext]_targetVars =>
        (engine' # engine /\ engine' # Nothing /\ ~edited => engine'.db.target = engine'.client.target)
  <2> SUFFICES ASSUME Binding, [TargetNext]_targetVars, engine' # engine, engine' # Nothing, ~edited
               PROVE  engine'.db.target = engine'.client.target
    OBVIOUS
  <2>1. db # Nothing /\ engine' = Pair
    BY EngineMade
  <2>2. db.target = chosen
    BY <2>1 DEF Binding, HistoryIsOfTheSettings
  <2>3. TheClient.target = chosen
    BY TheClientsTarget DEF Binding
  <2> QED BY <2>1, <2>2, <2>3 DEF Pair
<1> QED BY <1>1, BindingHolds, PTL DEF TargetSpec, EngineIsOfOneTarget

(* Where the callers are, as far as that matters. *)
LEMMA CallersTypedKept ==
  ASSUME CallersTyped, [TargetNext]_targetVars PROVE CallersTyped'
<1> USE DEF bound, flags, callers, CallersTyped
<1>1. CASE KnowIdentity \/ Bind \/ EndPreparation \/ FailPreparation
  BY <1>1 DEF KnowIdentity, Bind, EndPreparation, FailPreparation, Finish
<1>2. CASE (\E t \in Targets : EditTarget(t)) \/ Refresh \/ SetSessionPassword \/ Unload
           \/ ClosePreview \/ UNCHANGED targetVars
  BY <1>2 DEF EditTarget, Refresh, SetSessionPassword, Unload, ClosePreview, targetVars
<1>3. CASE \/ StartRun \/ \E t \in Targets : StartSession(t)
           \/ OpenPreview \/ GeneratePreview \/ ApplyPreview \/ StartForce
  BY <1>3 DEF StartRun, StartSession, OpenPreview, GeneratePreview, ApplyPreview, StartForce, Ask, Take
<1>4. CASE (\E readOnly \in BOOLEAN : OpenDialog(readOnly))
           \/ (\E c \in Callers : Verify(c) \/ Verified(c))
  BY <1>4 DEF OpenDialog, Verify, Verified, Ask, Go
<1>5. CASE RunIsPrepared \/ AskInfo \/ RunWorks \/ RunEnds \/ SessionWorks \/ SessionEnds
  BY <1>5 DEF RunIsPrepared, AskInfo, RunWorks, RunEnds, SessionWorks, SessionEnds, TakeEngine, Go,
     Take, Leave
<1>6. CASE ShowTarget \/ PlanPreview \/ PreviewEnds \/ ShowDialog \/ CloseDialog \/ ForceUploads
           \/ ForceEnds
  BY <1>6 DEF ShowTarget, PlanPreview, PreviewEnds, ShowDialog, CloseDialog, ForceUploads, ForceEnds,
     TakeEngine, Go, Take, Leave
<1> QED BY <1>1, <1>2, <1>3, <1>4, <1>5, <1>6 DEF TargetNext

(* Only a verification puts a caller at its writes. *)
LEMMA WritesAreVerified ==
  ASSUME CallersTyped, [TargetNext]_targetVars,
         NEW c \in Callers, phase[c] # "write", phase'[c] = "write"
  PROVE  Verified(c)
<1> USE DEF bound, flags, callers, CallersTyped
<1>1. ASSUME NEW d, NEW at, Go(d, at), at # "write" PROVE FALSE
  BY <1>1 DEF Go
<1>2. ~(KnowIdentity \/ Bind \/ EndPreparation \/ FailPreparation)
  BY DEF KnowIdentity, Bind, EndPreparation, FailPreparation, Finish
<1>3. ~((\E t \in Targets : EditTarget(t)) \/ Refresh \/ SetSessionPassword \/ Unload
        \/ ClosePreview \/ UNCHANGED targetVars)
  BY DEF EditTarget, Refresh, SetSessionPassword, Unload, ClosePreview, targetVars
<1>4. ~(\/ StartRun \/ \E t \in Targets : StartSession(t)
        \/ OpenPreview \/ GeneratePreview \/ ApplyPreview \/ StartForce)
  BY DEF StartRun, StartSession, OpenPreview, GeneratePreview, ApplyPreview, StartForce, Ask
<1>5. ~((\E readOnly \in BOOLEAN : OpenDialog(readOnly)) \/ (\E d \in Callers : Verify(d)))
  BY DEF OpenDialog, Verify, Ask
<1>6. ~(RunIsPrepared \/ AskInfo \/ RunWorks \/ RunEnds \/ SessionWorks \/ SessionEnds)
  BY <1>1 DEF RunIsPrepared, AskInfo, RunWorks, RunEnds, SessionWorks, SessionEnds, TakeEngine, Leave
<1>7. ~(ShowTarget \/ PlanPreview \/ PreviewEnds \/ ShowDialog \/ CloseDialog \/ ForceUploads
        \/ ForceEnds)
  BY <1>1 DEF ShowTarget, PlanPreview, PreviewEnds, ShowDialog, CloseDialog, ForceUploads, ForceEnds,
     TakeEngine, Leave
<1>8. PICK d \in Callers : Verified(d)
  BY <1>2, <1>3, <1>4, <1>5, <1>6, <1>7 DEF TargetNext
<1>9. c = d
  BY <1>8 DEF Verified, Go
<1> QED BY <1>8, <1>9

LEMMA CallersTypedHolds == TargetSpec => []CallersTyped
<1>1. TargetInit => CallersTyped
  BY DEF TargetInit, CallersTyped
<1> QED BY <1>1, CallersTypedKept, PTL DEF TargetSpec

(* What is verified before a write is the target of the settings, though    *)
(* the window or the run began before they changed (main.ts:988,            *)
(* coordinator.ts:180).                                                     *)
THEOREM VerifiedWorkIsCurrent == TargetSpec => VerifiedIsCurrent
<1>1. Binding /\ CallersTyped /\ [TargetNext]_targetVars =>
        \A c \in Callers :
          phase[c] # "write" /\ phase'[c] = "write" /\ ~edited =>
            /\ holds[c].db.target = chosen
            /\ c # "dialog" => holds[c].client.target = chosen
  <2> SUFFICES ASSUME Binding, CallersTyped, [TargetNext]_targetVars, NEW c \in Callers,
                      phase[c] # "write", phase'[c] = "write", ~edited
               PROVE  /\ holds[c].db.target = chosen
                      /\ c # "dialog" => holds[c].client.target = chosen
    OBVIOUS
  <2>1. Verified(c)
    BY WritesAreVerified
  <2>2. db # Nothing => db.target = chosen
    BY DEF Binding, HistoryIsOfTheSettings
  <2>3. TheClient.target = chosen
    BY TheClientsTarget DEF Binding
  <2> QED BY <2>1, <2>2, <2>3 DEF Verified, IsSame
<1> QED BY <1>1, BindingHolds, CallersTypedHolds, PTL DEF TargetSpec, VerifiedIsCurrent
-----------------------------------------------------------------------------
(* Forced uploads *)

(* No one has an answer to act on while a step waits for quiet. *)
LEMMA AskIsAnswered ==
  ASSUME CallersTyped, Quiet, NEW c \in Callers, NEW at, NEW readOnly, Ask(c, at, readOnly)
  PROVE  \A d \in Callers : answer'[d] # "ok"
BY DEF Ask, Quiet, CallersTyped

LEMMA AnswersKept ==
  ASSUME CallersTyped, AnswersCloseIt, [TargetNext]_targetVars PROVE AnswersCloseIt'
<1> USE DEF bound, flags, callers, AnswersCloseIt
<1>1. CASE KnowIdentity \/ Bind \/ EndPreparation \/ FailPreparation
  BY <1>1 DEF KnowIdentity, Bind, EndPreparation, FailPreparation, Finish, Quiet
<1>2. CASE (\E t \in Targets : EditTarget(t)) \/ Refresh \/ SetSessionPassword \/ Unload
           \/ ClosePreview \/ UNCHANGED targetVars
  BY <1>2 DEF EditTarget, Refresh, SetSessionPassword, Unload, ClosePreview, targetVars
<1>3. CASE \/ StartRun \/ \E t \in Targets : StartSession(t)
           \/ OpenPreview \/ GeneratePreview \/ ApplyPreview \/ StartForce
  <2>1. \E c \in Callers, at \in {"first", "again"}, readOnly \in BOOLEAN : Quiet /\ Ask(c, at, readOnly)
    BY <1>3 DEF StartRun, StartSession, OpenPreview, GeneratePreview, ApplyPreview, StartForce, Callers
  <2> QED BY <2>1, AskIsAnswered
<1>4. CASE (\E readOnly \in BOOLEAN : OpenDialog(readOnly)) \/ (\E c \in Callers : Verify(c))
  <2>1. \E c \in Callers, at \in {"first", "again"}, readOnly \in BOOLEAN : Quiet /\ Ask(c, at, readOnly)
    BY <1>4 DEF OpenDialog, Verify, Callers
  <2> QED BY <2>1, AskIsAnswered
<1>5. ASSUME NEW c \in Callers, NEW at, Go(c, at), prep' = prep PROVE AnswersCloseIt'
  BY <1>5 DEF Go, CallersTyped
<1>6. CASE \E c \in Callers : Verified(c)
  BY <1>5, <1>6 DEF Verified
<1>7. CASE RunIsPrepared \/ AskInfo \/ RunWorks \/ RunEnds \/ SessionWorks \/ SessionEnds
  BY <1>5, <1>7 DEF RunIsPrepared, AskInfo, RunWorks, RunEnds, SessionWorks, SessionEnds, TakeEngine,
     Leave, Callers
<1>8. CASE ShowTarget \/ PlanPreview \/ PreviewEnds \/ ShowDialog \/ CloseDialog \/ ForceUploads
           \/ ForceEnds
  BY <1>5, <1>8 DEF ShowTarget, PlanPreview, PreviewEnds, ShowDialog, CloseDialog, ForceUploads,
     ForceEnds, TakeEngine, Leave, Callers
<1> QED BY <1>1, <1>2, <1>3, <1>4, <1>6, <1>7, <1>8 DEF TargetNext

(* What holds while nothing happens to the forced upload. *)
LEMMA ForceStays ==
  ASSUME ForceIsAlone, ForcedUploadsAreRecordedWhereMade,
         phase'["force"] = phase["force"], forcing' = forcing,
         phase["force"] = "busy" =>
           /\ prep' = prep /\ holds'["force"] = holds["force"]
           /\ db' = Nothing \/ edited' \/ (db' = db /\ edited' = edited)
  PROVE  ForceIsAlone' /\ ForcedUploadsAreRecordedWhereMade'
BY DEF ForceIsAlone, ForcedUploadsAreRecordedWhereMade

LEMMA ForceKept ==
  ASSUME Binding, Forcing, [TargetNext]_targetVars
  PROVE  ForceIsAlone' /\ ForcedUploadsAreRecordedWhereMade'
<1> USE DEF bound, flags, callers, Forcing
<1>1. CASE KnowIdentity \/ Bind \/ EndPreparation \/ FailPreparation
  <2>1. phase["force"] # "busy" /\ UNCHANGED <<phase, forcing>>
    BY <1>1 DEF KnowIdentity, Bind, EndPreparation, FailPreparation, Finish, ForceIsAlone
  <2> QED BY <2>1, ForceStays
<1>2. CASE \E t \in Targets : EditTarget(t)
  BY <1>2, ForceStays DEF EditTarget
<1>3. CASE Refresh
  BY <1>3, ForceStays DEF Refresh
<1>4. CASE SetSessionPassword \/ Unload \/ ClosePreview \/ UNCHANGED targetVars
  <2>1. /\ phase' = phase /\ forcing' = forcing /\ prep' = prep /\ holds' = holds
        /\ edited' = edited
        /\ db' = db \/ db' = Nothing
    BY <1>4 DEF SetSessionPassword, Unload, ClosePreview, targetVars
  <2>2. /\ phase'["force"] = phase["force"] /\ holds'["force"] = holds["force"]
    BY <2>1
  <2> QED BY <2>1, <2>2, ForceStays
<1>5. ASSUME NEW c \in Callers \ {"force"}, NEW at, NEW readOnly, Ask(c, at, readOnly),
             holds'["force"] = holds["force"], forcing' = forcing, db' = db, edited' = edited
      PROVE  ForceIsAlone' /\ ForcedUploadsAreRecordedWhereMade'
  <2>1. phase'["force"] = phase["force"]
    BY <1>5 DEF Ask, CallersTyped, Callers
  <2>2. phase["force"] = "busy" => prep' = prep
    BY <1>5 DEF Ask, IsAllowed, ForceIsAlone
  <2> QED BY <1>5, <2>1, <2>2, ForceStays
<1>6. CASE StartRun \/ OpenPreview \/ GeneratePreview
  BY <1>5, <1>6 DEF StartRun, OpenPreview, GeneratePreview, Callers
<1>7. CASE ApplyPreview
  <2>1. holds'["force"] = holds["force"]
    BY <1>7 DEF ApplyPreview, Take, CallersTyped
  <2> QED BY <1>5, <1>7, <2>1 DEF ApplyPreview, Callers
<1>19. ASSUME NEW t \in Targets, StartSession(t)
       PROVE  ForceIsAlone' /\ ForcedUploadsAreRecordedWhereMade'
  <2>1. holds'["force"] = holds["force"]
    BY <1>19 DEF StartSession, Take, CallersTyped
  <2> QED BY <1>5, <1>19, <2>1 DEF StartSession, Callers
<1>8. CASE \E readOnly \in BOOLEAN : OpenDialog(readOnly)
  BY <1>5, <1>8 DEF OpenDialog, Callers
<1>9. CASE \E c \in Callers : Verify(c)
  BY <1>5, <1>9 DEF Verify, Callers
<1>10. CASE StartForce
  <2>1. phase'["force"] = "first" /\ forcing'
    BY <1>10 DEF StartForce, Ask, CallersTyped, Callers
  <2> QED BY <2>1 DEF ForceIsAlone, ForcedUploadsAreRecordedWhereMade
<1>11. ASSUME NEW c \in Callers \ {"force"}, NEW at, Go(c, at),
              holds'["force"] = holds["force"],
              forcing' = forcing, prep' = prep, db' = db, edited' = edited
       PROVE  ForceIsAlone' /\ ForcedUploadsAreRecordedWhereMade'
  BY <1>11, ForceStays DEF Go, CallersTyped, Callers
<1>12. ASSUME NEW c \in Callers \ {"force"}, NEW what, Take(c, what)
       PROVE  holds'["force"] = holds["force"]
  BY <1>12 DEF Take, CallersTyped, Callers
<1>13. CASE RunIsPrepared \/ AskInfo \/ ShowTarget
  BY <1>11, <1>13 DEF RunIsPrepared, AskInfo, ShowTarget, Callers
<1>14. CASE RunWorks \/ PlanPreview
  BY <1>11, <1>12, <1>14 DEF RunWorks, PlanPreview, TakeEngine, Callers
<1>15. CASE RunEnds \/ SessionWorks \/ SessionEnds \/ PreviewEnds \/ ShowDialog \/ CloseDialog
  BY <1>11, <1>12, <1>15 DEF RunEnds, SessionWorks, SessionEnds, PreviewEnds, ShowDialog, CloseDialog,
     Leave, Callers
<1>16. CASE \E c \in Callers : Verified(c)
  BY <1>11, <1>16 DEF Verified, Callers
<1>17. CASE ForceUploads
  <2>1. holds'["force"] = [db |-> db, client |-> TheClient] /\ db' = db /\ edited' = edited
        /\ prep' = prep /\ forcing' = forcing
    BY <1>17 DEF ForceUploads, Take, CallersTyped, Callers
  <2>2. prep = Nothing /\ forcing
    BY <1>17 DEF ForceUploads, AnswersCloseIt, ForceIsAlone, Callers
  <2>3. ~edited /\ db # Nothing => db.target = chosen /\ TheClient.target = chosen
    BY TheClientsTarget DEF Binding, HistoryIsOfTheSettings
  <2> QED BY <2>1, <2>2, <2>3 DEF ForceIsAlone, ForcedUploadsAreRecordedWhereMade
<1>18. CASE ForceEnds
  <2>1. phase'["force"] = "idle"
    BY <1>18 DEF ForceEnds, Leave, Go, CallersTyped, Callers
  <2> QED BY <2>1 DEF ForceIsAlone, ForcedUploadsAreRecordedWhereMade
<1> QED BY <1>1, <1>2, <1>3, <1>4, <1>6, <1>7, <1>8, <1>9, <1>10, <1>13, <1>14, <1>15, <1>16, <1>17,
           <1>18, <1>19 DEF TargetNext

(* A forced upload is recorded in the history of the folder it went to, or  *)
(* nowhere, although the history is looked up again after it                *)
(* (force-upload.ts:11, main.ts:565).                                       *)
THEOREM ForcedUploadsAreRecorded == TargetSpec => []ForcedUploadsAreRecordedWhereMade
<1>1. TargetInit => Forcing
  BY DEF TargetInit, Forcing, CallersTyped, AnswersCloseIt, ForceIsAlone,
     ForcedUploadsAreRecordedWhereMade, Callers
<1>2. Binding /\ Forcing /\ [TargetNext]_targetVars => Forcing'
  BY CallersTypedKept, AnswersKept, ForceKept DEF Forcing
<1>3. Forcing => ForcedUploadsAreRecordedWhereMade
  BY DEF Forcing
<1> QED BY <1>1, <1>2, <1>3, BindingHolds, PTL DEF TargetSpec
=============================================================================
