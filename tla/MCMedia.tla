------------------------------ MODULE MCMedia ------------------------------
(***************************************************************************)
(* The media engine and the test-pattern source, each used by several      *)
(* threads.  A chain calls its source through a trait and neither touches  *)
(* the state of the other, so a behaviour is one of one of them.           *)
(***************************************************************************)
EXTENDS PipelineEngine, FrameGenerator

VARIABLE part   \* the part that moves

MediaInit == part \in {"engine", "generator"} /\ EngineInit /\ Init

MediaNext ==
    /\ part' = part
    /\ \/ part = "engine" /\ EngineNext /\ UNCHANGED vars
       \/ part = "generator" /\ Next /\ UNCHANGED engineVars

mediaVars == <<part, engineVars, vars>>
MediaSpec == MediaInit /\ [][MediaNext]_mediaVars /\ EngineFair /\ GeneratorFair

MediaTypeOK == EngineTypeOK /\ TypeOK
============================================================================
