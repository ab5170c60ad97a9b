---------------------------- MODULE NotesPipeline ----------------------------
(***************************************************************************)
(* The release notes on their way through one run of release.yml: rendered *)
(* by one job, scanned by a second on a clean runner, published by a       *)
(* third.  The jobs share nothing but artifacts, which expire after a day, *)
(* and outputs, which a re-run of failed jobs keeps; a re-run is a new     *)
(* attempt.  A digest stands for the bytes it is of.                       *)
(***************************************************************************)
EXTENDS Integers

CONSTANTS
    Notes,        \* the notes that may be rendered
    Garbled,      \* bytes that a broken transfer, a scanner or an editor leaves
    MaxAttempts,  \* bound of the instance
    NoNotes

ASSUME PipelineAssumption ==
    /\ MaxAttempts \in Nat \ {0}
    /\ Garbled \notin Notes /\ NoNotes \notin Notes \cup {Garbled}
    /\ NoNotes \notin [name : {"generate", "scan"} \X (1..MaxAttempts), digest : Notes]

VARIABLES
    attempt,    \* GITHUB_RUN_ATTEMPT
    rendered,   \* what render-notes gives for the resolved plan
    expected,   \* EXPECTED_SHA256: of the notes that the tag to recover binds, or None
    result,     \* of each job
    outputs,    \* of the jobs that have succeeded: artifact name and digest
    artifacts,  \* stored bytes by name, None for no artifact
    bound,      \* the notes digest in the release tag, None without a tag
    shown,      \* the text of its GitHub Release, None without one
    scanned,    \* history: bytes in which the scanner found nothing
    expired,    \* history: names of artifacts that are gone
    edited      \* history: the Release was edited after a job last made or verified it

pipelineVars ==
    <<attempt, rendered, expected, result, outputs, artifacts, bound, shown, scanned, expired,
      edited>>

Jobs == {"generate", "scan", "publish"}
Bytes == Notes \cup {Garbled}
Results == {"waiting", "success", "failed", "missing"}

\* "release-notes-<run>-<attempt>" and "scanned-release-notes-<run>-<attempt>".
Names == {"generate", "scan"} \X (1..MaxAttempts)

PipelineTypeOK ==
    /\ attempt \in 1..MaxAttempts
    /\ rendered \in Notes
    /\ expected \in Notes \cup {NoNotes}
    /\ result \in [Jobs -> Results]
    /\ outputs \in [{"generate", "scan"} -> [name : Names, digest : Notes] \cup {NoNotes}]
    /\ artifacts \in [Names -> Notes \cup {NoNotes}]
    /\ bound \in Notes \cup {NoNotes}
    /\ shown \in Bytes \cup {NoNotes}
    /\ scanned \subseteq Bytes
    /\ expired \subseteq Names
    /\ edited \in BOOLEAN

PipelineInit ==
    /\ attempt = 1
    /\ rendered \in Notes
    /\ expected = NoNotes
    /\ result = [j \in Jobs |-> "waiting"]
    /\ outputs = [j \in {"generate", "scan"} |-> NoNotes]
    /\ artifacts = [n \in Names |-> NoNotes]
    /\ bound = NoNotes
    /\ shown = NoNotes
    /\ scanned = {}
    /\ expired = {}
    /\ edited = FALSE

Ends(job, how) ==
    /\ result' = [result EXCEPT ![job] = how]
    /\ UNCHANGED <<attempt, rendered, expected, expired>>

\* Upload, and outputs unless the runner is lost after it.
Uploads(job, bytes) ==
    LET name == <<job, attempt>> IN
    /\ artifacts' = [artifacts EXCEPT ![name] = bytes]
    /\ \/ /\ Ends(job, "success")
          /\ outputs' = [outputs EXCEPT ![job] = [name |-> name, digest |-> bytes]]
       \/ Ends(job, "failed") /\ UNCHANGED outputs

MutConsumed(job) == <<job, attempt>>

\* The name a consumer downloads.
Consumed(job) == outputs[job].name

Stored(name) == artifacts[name] # NoNotes

\* What a download may leave on the runner.
Downloads(name) == {artifacts[name], Garbled}

-----------------------------------------------------------------------------
(* The jobs *)

Ready(job) ==
    /\ result[job] = "waiting"
    /\ job = "scan" => result["generate"] = "success"
    /\ job = "publish" => result["scan"] = "success"

\* A recovery must render what the tag binds.
Generate ==
    /\ Ready("generate")
    /\ expected \in {NoNotes, rendered}
    /\ Uploads("generate", rendered)
    /\ UNCHANGED <<bound, shown, scanned, edited>>

MutScan ==
    /\ Ready("scan") /\ Stored(Consumed("generate"))
    /\ \E bytes \in Downloads(Consumed("generate")), left \in Bytes :
          /\ bytes = outputs["generate"].digest
          /\ scanned' = scanned \cup {bytes}
          /\ Uploads("scan", left)
    /\ UNCHANGED <<bound, shown, edited>>

\* The digest is checked before the scan and recorded after it.
Scan ==
    /\ Ready("scan") /\ Stored(Consumed("generate"))
    /\ \E bytes \in Downloads(Consumed("generate")), left \in Bytes :
          /\ bytes = outputs["generate"].digest
          /\ left = outputs["generate"].digest
          /\ scanned' = scanned \cup {bytes}
          /\ Uploads("scan", left)
    /\ UNCHANGED <<bound, shown, edited>>

MutVerified(bytes) == outputs["scan"].digest = outputs["generate"].digest

\* "Verify scanned release-note digest"
Verified(bytes) ==
    /\ outputs["scan"].digest = outputs["generate"].digest
    /\ bytes = outputs["generate"].digest

\* reconcile_remote_tag creates the tag with the digest, or finds it with the same; a missing
\* Release is made from the file, and one that is there, or was just made, is verified
\* against it.  The job may fail at the Release, or after it.
Publish ==
    /\ Ready("publish") /\ Stored(Consumed("scan"))
    /\ bound \in {NoNotes, outputs["generate"].digest}
    /\ bound' = outputs["generate"].digest
    /\ \E bytes \in Downloads(Consumed("scan")) :
          /\ Verified(bytes)
          /\ \/ /\ shown \in {NoNotes, bytes} /\ shown' = bytes /\ edited' = FALSE
                /\ \E how \in {"success", "failed"} : Ends("publish", how)
             \/ UNCHANGED <<shown, edited>> /\ Ends("publish", "failed")
    /\ UNCHANGED <<outputs, artifacts, scanned>>

\* Any check or command of a job fails.
Fails(job) ==
    /\ Ready(job)
    /\ Ends(job, "failed")
    /\ UNCHANGED <<outputs, artifacts, bound, shown, scanned, edited>>

\* download-artifact finds no artifact of that name.
Misses(job) ==
    /\ Ready(job)
    /\ ~Stored(Consumed(IF job = "scan" THEN "generate" ELSE "scan"))
    /\ Ends(job, "missing")
    /\ UNCHANGED <<outputs, artifacts, bound, shown, scanned, edited>>

-----------------------------------------------------------------------------
(* GitHub *)

\* retention-days: 1
Expire(name) ==
    /\ Stored(name)
    /\ artifacts' = [artifacts EXCEPT ![name] = NoNotes]
    /\ expired' = expired \cup {name}
    /\ UNCHANGED <<attempt, rendered, expected, result, outputs, bound, shown, scanned, edited>>

\* An immutable Release "still permits title and body edits"
\* (docs/how-to/release-action.md): to any text, or back to the notes.
EditRelease ==
    /\ shown # NoNotes
    /\ shown' \in Bytes
    /\ edited' = TRUE
    /\ UNCHANGED <<attempt, rendered, expected, result, outputs, artifacts, bound, scanned, expired>>

Over(job) == result[job] \in {"failed", "missing"}

\* A failed job and the ones that need it; the others keep results and outputs.
RerunFailed ==
    /\ attempt < MaxAttempts
    /\ \E job \in Jobs : Over(job)
    /\ attempt' = attempt + 1
    /\ result' = [job \in Jobs |-> IF Over(job) THEN "waiting" ELSE result[job]]
    /\ UNCHANGED <<rendered, expected, outputs, artifacts, bound, shown, scanned, expired,
                   edited>>

\* Every job again, on a new plan: of the tag if there is one by now.
RerunAll ==
    /\ attempt < MaxAttempts
    /\ \E job \in Jobs : Over(job) \/ result["publish"] = "success"
    /\ attempt' = attempt + 1
    /\ rendered' \in Notes
    /\ expected' = bound
    /\ result' = [job \in Jobs |-> "waiting"]
    /\ outputs' = [job \in {"generate", "scan"} |-> NoNotes]
    /\ UNCHANGED <<artifacts, bound, shown, scanned, expired, edited>>

PipelineNext ==
    \/ Generate \/ Scan \/ Publish
    \/ \E job \in Jobs : Fails(job)
    \/ \E job \in {"scan", "publish"} : Misses(job)
    \/ \E name \in Names : Expire(name)
    \/ EditRelease
    \/ RerunFailed \/ RerunAll

PipelineSpec == PipelineInit /\ [][PipelineNext]_pipelineVars

-----------------------------------------------------------------------------
(* Properties *)

\* The tag binds bytes that a scanner has gone over and that the renderer made, although
\* they crossed three runners and the scanner's disk, in any mixture of attempts.
TagBindsScannedNotes == bound # NoNotes => bound \in scanned

\* What a job made of the Release, or turned green on, is byte for byte what the tag binds,
\* whatever the text was edited to in between; later edits are for GitHub to permit.
ReleaseShowsBoundNotes ==
    /\ result["publish"] = "success" => shown # NoNotes
    /\ ~edited => shown \in {NoNotes, bound}

\* "A rerun of failed jobs reuses artifacts from successful jobs in the original attempt":
\* a job only misses an artifact that has expired.
MissedMeansExpired ==
    \A job \in {"scan", "publish"} :
        result[job] = "missing" =>
            outputs[IF job = "scan" THEN "generate" ELSE "scan"].name \in expired

\* Notes that the tag does not bind are never uploaded for it: after the tag exists,
\* a full re-run gets past the renderer with the tag's own bytes only.
RecoveredNotesAreBound ==
    \A job \in {"generate", "scan"} :
        expected # NoNotes /\ result[job] = "success" => outputs[job].digest = bound

\* The digest in the tag is of scanned bytes, and whatever the jobs show or hand on for
\* the tag from then on is those bytes.
NotesAreBound == TagBindsScannedNotes /\ ReleaseShowsBoundNotes /\ RecoveredNotesAreBound
=============================================================================
