---------------------------- MODULE MCReleaseJobs ----------------------------
(* Instances of ReleasePolicy, ProtectedTag, NotesPipeline and ReleaseNotes for TLC:  *)
(* what the jobs of one release run pass on and check.  They share no state here, so  *)
(* a behaviour is about one part and the others rest.                                 *)
EXTENDS ProtectedTag, NotesPipeline, ReleaseNotes

VARIABLE part

\* The API spells the instants of the owner's documents with Z, the job's either way.
OwnersZone == \A k \in Kinds : owner[k] # None => owner[k].zone = "Z"

MCInit ==
    /\ ProtectedInit /\ PipelineInit /\ SubjectsInit
    /\ part \in {"gate", "publish", "notes", "text"}
    /\ IF part = "publish" THEN Protected ELSE ~immutability
    /\ part \notin {"gate", "publish"} => ~\E k \in Kinds : live[k].strict \/ live[k].narrow
    /\ part # "notes" => rendered = CHOOSE n \in Notes : TRUE

MCNext ==
    /\ UNCHANGED part
    /\ \/ /\ part = "gate" /\ Next /\ OwnersZone'
          /\ UNCHANGED <<remote, jobs, pipelineVars, subjects>>
       \/ /\ part = "publish" /\ ProtectedNext /\ OwnersZone'
          /\ UNCHANGED <<pipelineVars, subjects>>
       \/ part = "notes" /\ PipelineNext /\ UNCHANGED <<protectedVars, subjects>>
       \/ part = "text" /\ SubjectsNext /\ UNCHANGED <<protectedVars, pipelineVars>>

MCSpec == MCInit /\ [][MCNext]_<<part, protectedVars, pipelineVars, subjects>>

\* The type invariants of the parts.
JobPartsTypeOK == ProtectedTypeOK /\ PipelineTypeOK
=============================================================================
