----------------------------- MODULE Generation -----------------------------
(***************************************************************************)
(* One run of the site generator: the Workflow instance that takes a       *)
(* queued job through its steps to a public website, the retry ladder that *)
(* classifies what a step throws, the ledger of model calls, and the       *)
(* handler that closes the job when a step has failed for good.            *)
(*                                                                         *)
(* External, from how the code uses it: the Workflows platform.  It        *)
(* remembers which steps returned, how often the current one was tried     *)
(* and whether it failed; everything else is memory an eviction loses, and *)
(* run() then starts again from the top.  A write to D1, R2 or KV may be   *)
(* refused, or be made and answered with an error.                         *)
(*                                                                         *)
(* lost, refusals and blurred are history variables.  Abstracted: what a   *)
(* step generates, the keyed progress frames before the outcome (JobHub),  *)
(* the budget settle, a no-op after submit's, and step timeouts, whose     *)
(* abandoned body may still be running.                                    *)
(***************************************************************************)
EXTENDS Publish

CONSTANTS
  ModelRetries, StepRetries, IoRetries, \* the three retry policies of retry.ts
  MaxFaults,     \* bound: writes refused or answered with an error, calls that fail
  MaxEvictions   \* bound: evictions

ASSUME RetriesAssumption == {ModelRetries, StepRetries, IoRetries} \subseteq Nat

VARIABLES
  instance, \* what the platform persists: state, steps returned, retries of the
            \* current one, whether it failed for good
  run,      \* what run() holds in memory: where it stands, the error it handles,
            \* its ledger row, the last decision of the guard, what publish read
  job,      \* the generation_jobs row
  calls,    \* the generation_calls rows, in the order they were inserted
  told,     \* outcomes on the progress stream: "done" and error codes
  clock,    \* publishes started
  faults, evictions, \* the bounded counters
  lost,     \* rows whose attempt was evicted or could not write its ledger
  refusals, \* rows whose call the model refused
  blurred   \* how the outcome came to be lost or repeated

runVars == <<instance, run, job, calls, told, clock, faults, evictions, lost, refusals, blurred>>
vars == <<publishVars, runVars>>

Pipeline == <<"claim", "validate", "media", "structure", "copy", "blog-0", "blog-1",
              "legal", "assemble", "audit", "render", "publish", "finalise">>
ModelSteps == {"structure", "copy", "blog-0", "blog-1"}
IoSteps == {"claim", "publish", "finalise"}
Cur == Pipeline[instance.memo + 1]

\* The two posts share one name in the ledger.
Ledger(step) == IF step \in {"blog-0", "blog-1"} THEN "blog" ELSE step

Retries(step) == IF step \in ModelSteps THEN ModelRetries
                 ELSE IF step \in IoSteps THEN IoRetries ELSE StepRetries

\* Where the body of a step starts.
First(step) ==
  IF step \in ModelSteps THEN "open"
  ELSE IF step \in {"validate", "media", "legal"} THEN "artifact"
  ELSE IF step = "assemble" THEN "version"
  ELSE IF step = "audit" THEN "report"
  ELSE IF step = "render" THEN "page"
  ELSE IF step = "publish" THEN "read"
  ELSE IF step = "finalise" THEN "finish" ELSE "claim"

Labels == {"claim", "artifact", "open", "call", "close", "ledger", "raise", "version",
           "attach", "report", "quality", "page", "root", "read", "sitedoc", "pages",
           "seal", "sitemap", "verify", "point", "flip", "finish", "announce",
           "return", "fail", "tell", "off"}

\* What a step throws, and what classifyStepFailure() makes of it; "transport"
\* stands for every failure that is retried and ends the job as failed.
Policy == {"model_refusal", "policy_not_passed"}
Terminal == Policy \cup {"intake_invalid", "document_invalid", "audit_failed"}
Codes == Terminal \cup {"step_deadline", "transport"}
ASSUME NoCodeAssumption == Null \notin Codes

\* Mutant: a refusal is one more content failure.
RetryableRefusals(code) == code \notin Terminal \ {"model_refusal"}

Retryable(code) == code \notin Terminal
StatusOf(code) == IF code = "step_deadline" THEN "timed_out" ELSE "failed"
Closed == {"succeeded", "failed", "timed_out"}

Off == [at |-> "off", pending |-> Null, call |-> 0, decision |-> Null, index |-> "noindex",
        lastmod |-> 0, host |-> 1]

TypeOK ==
  /\ PublishTypeOK
  /\ instance \in [state : {"awake", "asleep", "ended"}, memo : 0..Len(Pipeline),
                   retries : Nat, failed : BOOLEAN]
  /\ run \in [at : Labels, pending : Codes \cup {Null}, call : {0} \cup DOMAIN calls,
              decision : Codes \cup {Null}, index : IndexStates, lastmod : Nat,
              host : 1..Len(Hosts) + 1]
  /\ job \in [status : {"queued", "running", "streaming"} \cup Closed,
              version : {0} \cup DOMAIN rows, code : Codes \cup {Null}]
  /\ calls \in Seq([step : {"structure", "copy", "blog"}, attempt : Nat \ {0},
                    outcome : {"open", "ok", "refused", "failed"}])
  /\ told \subseteq Codes \cup {"done"}
  /\ {clock, faults, evictions} \subseteq Nat
  /\ lost \cup refusals \subseteq DOMAIN calls
  /\ blurred \subseteq {"unwritten", "evicted", "committed"}

Init ==
  /\ PublishInit
  /\ instance = [state |-> "asleep", memo |-> 0, retries |-> 0, failed |-> FALSE]
  /\ run = Off
  /\ job = [status |-> "queued", version |-> 0, code |-> Null]
  /\ calls = <<>>
  /\ told = {}
  /\ clock = 0 /\ faults = 0 /\ evictions = 0
  /\ lost = {} /\ refusals = {} /\ blurred = {}

----------------------------------------------------------------------------
\* The control of run(): each operator sets instance' and run'.
At(l) == instance.state = "awake" /\ run.at = l
Within(l) == UNCHANGED instance /\ run' = [run EXCEPT !.at = l]

\* guard() rethrows, the platform counts: a new attempt, or the terminal handler.
\* finalise has no guard: nothing classifies what it throws.
Raise(code) ==
  LET guarded == Cur # "finalise"
      decision == IF guarded THEN code ELSE run.decision
  IN IF (guarded => Retryable(code)) /\ instance.retries < Retries(Cur)
     THEN /\ instance' = [instance EXCEPT !.retries = @ + 1]
          /\ run' = [Off EXCEPT !.at = First(Cur), !.decision = decision]
     ELSE /\ instance' = [instance EXCEPT !.failed = TRUE]
          /\ run' = [Off EXCEPT !.at = "fail", !.decision = decision]

InTry == Cur \in ModelSteps /\ run.at \in {"call", "close", "artifact"}

\* Mutant: what is thrown inside a model step does not pass through the ledger.
ThrowPastLedger(code) == Raise(code)

Throw(code) ==
  IF InTry THEN UNCHANGED instance /\ run' = [run EXCEPT !.at = "ledger", !.pending = code]
  ELSE Raise(code)

Fault == faults < MaxFaults /\ faults' = faults + 1

\* A write is made: the body goes on, or the answer is an error after all.
Wrote(l) ==
  \/ Within(l) /\ UNCHANGED faults
  \/ Fault /\ Throw("transport")

\* A write of the body is not made.
Refused ==
  /\ instance.state = "awake"
  /\ run.at \notin {"call", "ledger", "raise", "announce", "return", "fail", "tell", "off"}
  /\ Fault
  /\ Throw("transport")
  /\ UNCHANGED <<publishVars, job, calls, told, clock, evictions, lost, refusals, blurred>>

Return ==
  /\ At("return")
  /\ instance' = [instance EXCEPT !.memo = @ + 1, !.retries = 0,
                    !.state = IF Cur = "finalise" THEN "ended" ELSE @]
  /\ run' = IF Cur = "finalise" THEN Off
            ELSE [Off EXCEPT !.at = First(Pipeline[instance.memo + 2]), !.decision = run.decision]
  /\ UNCHANGED <<publishVars, job, calls, told, clock, faults, evictions, lost, refusals, blurred>>

Throws(codes) == \E code \in codes : Throw(code) /\ UNCHANGED faults

----------------------------------------------------------------------------
\* claimQueuedJob().
Claim ==
  /\ At("claim")
  /\ job' = [job EXCEPT !.status = IF @ = "queued" THEN "running" ELSE @]
  /\ Wrote("return")
  /\ UNCHANGED <<publishVars, calls, told, clock, evictions, lost, refusals, blurred>>

\* What the deterministic steps find out before they store anything.
Findings(step) ==
  IF step = "validate" THEN {"policy_not_passed", "intake_invalid"}
  ELSE IF step = "assemble" THEN {"document_invalid"} ELSE {}

\* putArtifact(), the last write of most steps.
Artifact ==
  /\ At("artifact")
  /\ Throws(Findings(Cur)) \/ Wrote("return")
  /\ UNCHANGED <<publishVars, job, calls, told, clock, evictions, lost, refusals, blurred>>

\* nextAttempt(): the rows of the ledger step, plus one.
NextAttempt(step) == Cardinality({i \in DOMAIN calls : calls[i].step = step}) + 1

\* openCall(): not yet inside the try.
OpenCall ==
  /\ At("open")
  /\ calls' = Append(calls, [step |-> Ledger(Cur), attempt |-> NextAttempt(Ledger(Cur)),
                             outcome |-> "open"])
  /\ \/ /\ UNCHANGED <<instance, faults, lost>>
        /\ run' = [run EXCEPT !.at = "call", !.call = Len(calls')]
     \/ /\ Fault
        /\ Throw("transport")
        /\ lost' = lost \cup {Len(calls')}
  /\ UNCHANGED <<publishVars, job, told, clock, evictions, refusals, blurred>>

\* The provider answers, in full or with one of the errors generate...() throws.
Call ==
  /\ At("call")
  /\ \/ Within("close") /\ UNCHANGED <<faults, refusals>>
     \/ Throws({"model_refusal"}) /\ refusals' = refusals \cup {run.call}
     \/ /\ Fault
        /\ \E code \in {"step_deadline", "transport"} : Throw(code)
        /\ UNCHANGED refusals
  /\ UNCHANGED <<publishVars, job, calls, told, clock, evictions, lost, blurred>>

\* Both close statements match an open row only.
Close(i, outcome) ==
  calls' = [calls EXCEPT ![i].outcome = IF @ = "open" THEN outcome ELSE @]

CloseCall ==
  /\ At("close")
  /\ Close(run.call, "ok")
  /\ Wrote("artifact")
  /\ UNCHANGED <<publishVars, job, told, clock, evictions, lost, refusals, blurred>>

\* finishCallFromError(): where its own write is refused, that error is thrown in
\* place of the one being handled.
FinishCallFromError ==
  /\ At("ledger")
  /\ \/ /\ Close(run.call, IF run.pending = "model_refusal" THEN "refused" ELSE "failed")
        /\ \/ Within("raise") /\ UNCHANGED <<faults, lost>>
           \/ Fault /\ Raise("transport") /\ lost' = lost \cup {run.call}
     \/ /\ Fault
        /\ Raise("transport")
        /\ lost' = lost \cup {run.call}
        /\ UNCHANGED calls
  /\ UNCHANGED <<publishVars, job, told, clock, evictions, refusals, blurred>>

Rethrow ==
  /\ At("raise")
  /\ Raise(run.pending)
  /\ UNCHANGED <<publishVars, job, calls, told, clock, faults, evictions, lost, refusals, blurred>>

----------------------------------------------------------------------------
\* resolveVersion(): the version the job names, or a new one it then names.
ResolveVersion ==
  /\ At("version")
  /\ IF job.version # 0
     THEN Within("artifact") /\ UNCHANGED <<publishVars, faults>>
     ELSE InsertSiteVersion /\ Wrote("attach")
  /\ UNCHANGED <<job, calls, told, clock, evictions, lost, refusals, blurred>>

\* markJobStreaming() with the version just inserted.
AttachVersion ==
  /\ At("attach")
  /\ job' = IF job.status \in {"running", "streaming"}
            THEN [job EXCEPT !.status = "streaming", !.version = Len(rows)] ELSE job
  /\ Wrote("artifact")
  /\ UNCHANGED <<publishVars, calls, told, clock, evictions, lost, refusals, blurred>>

\* runAuditStep(): the report, the quality of the version, then the verdict.
Report ==
  /\ At("report")
  /\ Wrote("quality")
  /\ UNCHANGED <<publishVars, job, calls, told, clock, evictions, lost, refusals, blurred>>

Quality ==
  /\ At("quality")
  /\ Wrote("return") \/ Throws({"audit_failed"})
  /\ UNCHANGED <<publishVars, job, calls, told, clock, evictions, lost, refusals, blurred>>

\* runRenderStep(): each document is checked against its budgets, then written.
RenderPage ==
  /\ At("page")
  /\ \/ Throws({"document_invalid"}) /\ UNCHANGED publishVars
     \/ PutObject(job.version, "page") /\ Wrote("root")
  /\ UNCHANGED <<job, calls, told, clock, evictions, lost, refusals, blurred>>

RenderRoot ==
  /\ At("root")
  /\ PutObject(job.version, "root")
  /\ Wrote("return")
  /\ UNCHANGED <<job, calls, told, clock, evictions, lost, refusals, blurred>>

----------------------------------------------------------------------------
\* runPublishStep() reads the site row and computes what it will write, then
\* publishVersion() asks whether the version is sealed.

\* Mutant: a resumed publish goes straight to the verification.
ResumeAtVerify(v) == IF rows[v].sealed THEN "verify" ELSE "sitedoc"

Resume(v) == IF rows[v].sealed THEN "sitemap" ELSE "sitedoc"

ReadSite ==
  /\ At("read")
  /\ clock' = clock + 1
  /\ run' = [run EXCEPT !.at = Resume(job.version), !.index = site.index,
                        !.lastmod = Lastmod(job.version, clock')]
  /\ UNCHANGED <<publishVars, instance, job, calls, told, faults, evictions, lost, refusals,
                 blurred>>

PutSiteDoc ==
  /\ At("sitedoc")
  /\ PutObject(job.version, "sitedoc")
  /\ Wrote("pages")
  /\ UNCHANGED <<job, calls, told, clock, evictions, lost, refusals, blurred>>

WriteProjection ==
  /\ At("pages")
  /\ WritePages(job.version, run.lastmod)
  /\ Wrote("seal")
  /\ UNCHANGED <<job, calls, told, clock, evictions, lost, refusals, blurred>>

Seal ==
  /\ At("seal")
  /\ SealVersion(job.version)
  /\ Wrote("sitemap")
  /\ UNCHANGED <<job, calls, told, clock, evictions, lost, refusals, blurred>>

PutDerived ==
  /\ At("sitemap")
  /\ PutSitemap(job.version, run.lastmod)
  /\ Wrote("verify")
  /\ UNCHANGED <<job, calls, told, clock, evictions, lost, refusals, blurred>>

Verify ==
  /\ At("verify")
  /\ IF Verified(job.version) THEN Within("point") ELSE Throw("document_invalid")
  /\ UNCHANGED <<publishVars, job, calls, told, clock, faults, evictions, lost, refusals, blurred>>

SetPublished ==
  /\ At("point")
  /\ SetPublishedVersion(job.version)
  /\ Wrote("flip")
  /\ UNCHANGED <<job, calls, told, clock, evictions, lost, refusals, blurred>>

\* The hosts are flipped one by one, under the index state read at the start.
Flip ==
  /\ At("flip")
  /\ PutRoutingPointer(Hosts[run.host], job.version, run.index)
  /\ \/ UNCHANGED <<instance, faults>>
        /\ run' = [run EXCEPT !.host = @ + 1, !.at = IF run.host = Len(Hosts) THEN "return" ELSE @]
     \/ Fault /\ Throw("transport")
  /\ UNCHANGED <<job, calls, told, clock, evictions, lost, refusals, blurred>>

----------------------------------------------------------------------------
\* finalise: finishJobSucceeded(), then the outcome is posted, best effort.
Finish ==
  /\ At("finish")
  /\ job' = IF job.status \in {"running", "streaming"} THEN [job EXCEPT !.status = "succeeded"]
            ELSE job
  /\ \/ Within("announce") /\ UNCHANGED <<faults, blurred>>
     \/ Fault /\ Throw("transport") /\ blurred' = blurred \cup {"committed"}
  /\ UNCHANGED <<publishVars, calls, told, clock, evictions, lost, refusals>>

Posted(outcome) ==
  \/ told' = told \cup {outcome} /\ UNCHANGED faults
  \/ Fault /\ UNCHANGED told

Announce ==
  /\ At("announce")
  /\ Posted("done")
  /\ Within("return")
  /\ UNCHANGED <<publishVars, job, calls, clock, evictions, lost, refusals, blurred>>

\* The terminal handler: the decision of the guard, or where that is lost with
\* the memory of run(), what an error without a code is classified as.
Final == IF run.decision = Null THEN "transport" ELSE run.decision

\* Mutants: only a running job is closed; a finished job is closed again.
FinishFailedRunning(code) ==
  IF job.status = "running" THEN [job EXCEPT !.status = StatusOf(code), !.code = code] ELSE job
FinishFailedAlways(code) == [job EXCEPT !.status = StatusOf(code), !.code = code]

FinishFailed(code) ==
  IF job.status \in Closed THEN job ELSE [job EXCEPT !.status = StatusOf(code), !.code = code]

FailJob ==
  /\ At("fail")
  /\ Within("tell")
  /\ \/ job' = FinishFailed(Final) /\ UNCHANGED <<faults, blurred>>
     \/ Fault /\ UNCHANGED job /\ blurred' = blurred \cup {"unwritten"}
  /\ UNCHANGED <<publishVars, calls, told, clock, evictions, lost, refusals>>

\* The error is posted, best effort, and rethrown: the instance is errored.
TellError ==
  /\ At("tell")
  /\ Posted(Final)
  /\ instance' = [instance EXCEPT !.state = "ended"]
  /\ run' = Off
  /\ UNCHANGED <<publishVars, job, calls, clock, evictions, lost, refusals, blurred>>

----------------------------------------------------------------------------
\* An eviction loses the memory of run(); run() starts again from the top, and a
\* step that had failed rethrows an error without its code.
Evict ==
  /\ instance.state = "awake"
  /\ evictions < MaxEvictions
  /\ evictions' = evictions + 1
  /\ instance' = [instance EXCEPT !.state = "asleep"]
  /\ run' = Off
  /\ lost' = lost \cup ({run.call} \ {0})
  /\ blurred' = IF instance.failed THEN blurred \cup {"evicted"}
                ELSE IF job.status = "succeeded" THEN blurred \cup {"committed"} ELSE blurred
  /\ UNCHANGED <<publishVars, job, calls, told, clock, faults, refusals>>

Start ==
  /\ instance.state = "asleep"
  /\ instance' = [instance EXCEPT !.state = "awake"]
  /\ run' = [Off EXCEPT !.at = IF instance.failed THEN "fail" ELSE First(Cur)]
  /\ UNCHANGED <<publishVars, job, calls, told, clock, faults, evictions, lost, refusals, blurred>>

\* Billing moves the index state while a run is under way, or later.
IndexMoves ==
  /\ \E state \in IndexStates : SetIndexState(state)
  /\ UNCHANGED runVars

----------------------------------------------------------------------------
ModelStep == OpenCall \/ Call \/ CloseCall \/ FinishCallFromError \/ Rethrow
BuildStep == Claim \/ Artifact \/ ResolveVersion \/ AttachVersion \/ Report \/ Quality
             \/ RenderPage \/ RenderRoot
PublishStep == ReadSite \/ PutSiteDoc \/ WriteProjection \/ Seal \/ PutDerived \/ Verify
               \/ SetPublished \/ Flip
Outcome == Finish \/ Announce \/ FailJob \/ TellError
Step == Start \/ Return \/ Refused \/ ModelStep \/ BuildStep \/ PublishStep \/ Outcome

Next == Step \/ Evict \/ IndexMoves
Spec == Init /\ [][Next]_vars

\* The platform runs an instance it started, and starts one it evicted.
FairSpec == Spec /\ WF_vars(Step)

----------------------------------------------------------------------------
Ended == instance.state = "ended"

(***************************************************************************)
(* LedgerIsComplete: attempts of a ledger step are numbered apart, and a   *)
(* row left open means the run lost track of that call, never that the     *)
(* call failed (finishCallFromError(), ledger.ts).                         *)
(***************************************************************************)
LedgerIsComplete ==
  \A i \in DOMAIN calls :
    /\ calls[i].outcome = "open" => i \in lost \cup {run.call}
    /\ \A j \in DOMAIN calls \ {i} :
         calls[i].step = calls[j].step => calls[i].attempt # calls[j].attempt

(***************************************************************************)
(* RefusalEndsRun: once the model refused, no further call is paid for and *)
(* the job ends in needs_review, unless the run was evicted or could not   *)
(* write its ledger before the refusal was acted on (retry.ts, POLICY).    *)
(***************************************************************************)
RefusalEndsRun ==
  /\ \A i \in refusals : i = Len(calls) \/ i \in lost
  /\ Ended /\ refusals # {} => \/ job.code = "model_refusal"
                               \/ refusals \cap lost # {} \/ blurred # {}

(***************************************************************************)
(* RefusalIsTerminal (refuted): a refusal is "TERMINAL.  Never retried, at *)
(* any level, for any reason" (apps/generator/src/retry.ts).               *)
(***************************************************************************)
RefusalIsTerminal == \A i \in refusals : i = Len(calls)

(***************************************************************************)
(* OutcomeIsTold: the customer reads "done" only when the job succeeded    *)
(* and every host answers with its version; reads an error only when the   *)
(* job row carries that very error, unless the handler was evicted or its  *)
(* write, or the answer to finalise's, was lost (finaliseFailure()).       *)
(***************************************************************************)
OutcomeIsTold ==
  /\ "done" \in told =>
       /\ job.status = "succeeded"
       /\ \A h \in Host : routing[h] # Null /\ routing[h].live = job.version
  /\ \A code \in told \ {"done"} :
       (job.code = code /\ job.status = StatusOf(code)) \/ blurred # {}

(***************************************************************************)
(* RunIsClosed: every run ends, and its job row with it, unless the write  *)
(* of the terminal handler was refused (workflow.ts, the catch of run()).  *)
(***************************************************************************)
RunIsClosed == <>(Ended /\ (job.status \in Closed \/ "unwritten" \in blurred))

----------------------------------------------------------------------------
Live == job.version # 0 /\ \A h \in Host : routing[h] # Null /\ routing[h].live = job.version

Abstract == INSTANCE Run WITH status <- job.status, live <- Live

(***************************************************************************)
(* IsRun: whatever is retried, refused or evicted, a job is seen to be     *)
(* claimed once, to go public while it is building, to succeed only once   *)
(* public, and never to leave the status it ended in.                      *)
(***************************************************************************)
IsRun == Abstract!Spec
=============================================================================
