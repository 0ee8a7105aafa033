---------------------------- MODULE MCComponents ----------------------------
(***************************************************************************)
(* Five components that share no state, each on a small instance of its    *)
(* own: the planner's cases, the folders, the lookups of recovery copies,  *)
(* the pool of hashing jobs and the transfers in chunks.  A behaviour is   *)
(* one of a single component while the others rest, so that the state      *)
(* spaces add and never multiply.                                          *)
(***************************************************************************)
EXTENDS PlannerCases, Folders, RecoveryIndex, BytePool, ChunkTransfer

CONSTANTS a, b, c,      \* contents
          outer, inner  \* folders

(* Three contents, of two sizes, are enough for every pattern of equality;  *)
(* a folder within another for the order of creation and of pruning.        *)
SizesOfContents == (a :> 1) @@ (b :> 1) @@ (c :> 2)
Nested == {outer, inner}
Within == outer :> NoDir @@ inner :> outer

VARIABLE part

Parts == {"planner", "folders", "recovery", "pool", "transfers"}

PlannerRests == case = None /\ decision = None
FoldersRest  == FoldersInit /\ local = EmptyTree
PoolRests    == /\ size = [i \in 1 .. Jobs |-> 0] /\ next = 1 /\ running = {} /\ inFlight = 0
                /\ ended = 1 .. Jobs /\ failed = FALSE /\ outcome = "resolved"
TransfersRest == /\ transfer = [t \in Transfers |-> [NewTransfer(FALSE, 0) EXCEPT !.phase = "resolved"]]
                 /\ holder = Nobody

ComponentsInit ==
  /\ part \in Parts /\ RecoveryInit
  /\ IF part = "planner" THEN Init ELSE PlannerRests
  /\ IF part = "folders" THEN FoldersInit ELSE FoldersRest
  /\ IF part = "pool" THEN PoolInit ELSE PoolRests
  /\ IF part = "transfers" THEN ChunkInit ELSE TransfersRest

PlannerMoves  == /\ part = "planner" /\ Decide
                 /\ UNCHANGED <<part, foldersVars, recoveryVars, poolVars, chunkVars>>
FoldersMove   == /\ part = "folders" /\ FoldersNext
                 /\ UNCHANGED <<part, vars, recoveryVars, poolVars, chunkVars>>
RecoveryMoves == /\ part = "recovery" /\ RecoveryNext
                 /\ UNCHANGED <<part, vars, foldersVars, poolVars, chunkVars>>
PoolMoves     == /\ part = "pool" /\ PoolNext
                 /\ UNCHANGED <<part, vars, foldersVars, recoveryVars, chunkVars>>
TransfersMove == /\ part = "transfers" /\ ChunkNext
                 /\ UNCHANGED <<part, vars, foldersVars, recoveryVars, poolVars>>

ComponentsNext == PlannerMoves \/ FoldersMove \/ RecoveryMoves \/ PoolMoves \/ TransfersMove

(* The fairness of the folders' and of the pool's own specifications.       *)
ComponentsSpec ==
  /\ ComponentsInit /\ [][ComponentsNext]_<<part, vars, foldersVars, recoveryVars, poolVars, chunkVars>>
  /\ WF_foldersVars(part = "folders" /\ Proceed)
  /\ SF_foldersVars(part = "folders" /\ AutomaticPass(FALSE))
  /\ WF_poolVars(part = "pool" /\ PoolNext)

(* No run of either pool is taken for complete before it is.                *)
OutcomesAreFinal == OutcomeIsFinal /\ TransfersAreWhole
=============================================================================
