-------------------------- MODULE GenerationProofs --------------------------
(***************************************************************************)
(* Theorems about Generation, for any number of hosts, retries, faults and *)
(* evictions: a host never points at half a site, and whatever is retried, *)
(* refused or evicted, the job row and the routing behave as Run; and the  *)
(* ledger accounts for every call, a refusal ends the run, and what the    *)
(* customer is told is what the job row says.                              *)
(***************************************************************************)
EXTENDS Generation, SequenceTheorems, FiniteSetTheorems, TLAPS

VersionRow == [pages : Nat, sealed : BOOLEAN]
Instance == [state : {"awake", "asleep", "ended"}, memo : 0..13, retries : Nat,
             failed : BOOLEAN]
Memory == [at : Labels, pending : Codes \cup {Null}, call : Nat, decision : Codes \cup {Null},
           index : IndexStates, lastmod : Nat, host : Nat]
JobRow == [status : {"queued", "running", "streaming"} \cup Closed,
           version : Nat, code : Codes \cup {Null}]

\* What the website is made of, and which of it a version has.
DataType ==
  /\ rows \in Seq(VersionRow)
  /\ sitemap \in Seq(Nat) /\ Len(sitemap) = Len(rows)
  /\ site \in [published : Nat, index : IndexStates]
  /\ routing \in [Host -> Manifests(Nat) \cup {Null}]
  /\ job \in JobRow /\ job.version \in 0..Len(rows)

ControlType == instance \in Instance /\ run \in Memory /\ clock \in Nat

----------------------------------------------------------------------------
\* Where the steps stand in the pipeline.
Steps == {"claim", "validate", "media", "legal", "assemble", "audit", "render", "publish",
          "finalise"} \cup ModelSteps

LEMMA PipelineFacts ==
  /\ Len(Pipeline) = 13
  /\ \A m \in 0..12 :
       /\ Pipeline[m + 1] \in Steps
       /\ Pipeline[m + 1] = "claim" <=> m = 0
       /\ Pipeline[m + 1] = "assemble" <=> m = 8
       /\ Pipeline[m + 1] = "publish" <=> m = 11
       /\ Pipeline[m + 1] = "finalise" <=> m = 12
<1>1. Len(Pipeline) = 13
  BY DEF Pipeline
<1>2. ASSUME NEW m \in 0..12
      PROVE  /\ Pipeline[m + 1] \in Steps
             /\ Pipeline[m + 1] = "claim" <=> m = 0
             /\ Pipeline[m + 1] = "assemble" <=> m = 8
             /\ Pipeline[m + 1] = "publish" <=> m = 11
             /\ Pipeline[m + 1] = "finalise" <=> m = 12
  <2>1. m \in {0, 1, 2, 3, 4, 5, 6, 7, 8, 9, 10, 11, 12}
    OBVIOUS
  <2>2. CASE m \in {0, 1, 2, 3, 4, 5, 6}
    BY <2>2 DEF Pipeline, Steps, ModelSteps
  <2>3. CASE m \in {7, 8, 9, 10, 11, 12}
    BY <2>3 DEF Pipeline, Steps, ModelSteps
  <2> QED
    BY <2>1, <2>2, <2>3
<1> QED
  BY <1>1, <1>2

\* The labels of the body of a step.
Body(step) ==
  IF step \in ModelSteps THEN {"open", "call", "close", "ledger", "raise", "artifact"}
  ELSE IF step \in {"validate", "media", "legal"} THEN {"artifact"}
  ELSE IF step = "assemble" THEN {"version", "attach", "artifact"}
  ELSE IF step = "audit" THEN {"report", "quality"}
  ELSE IF step = "render" THEN {"page", "root"}
  ELSE IF step = "publish"
       THEN {"read", "sitedoc", "pages", "seal", "sitemap", "verify", "point", "flip"}
  ELSE IF step = "finalise" THEN {"finish", "announce"} ELSE {"claim"}

LEMMA FirstInBody ==
  ASSUME NEW step \in Steps
  PROVE  /\ First(step) \in Body(step) /\ First(step) \in Labels
         /\ First(step) \in {"open", "artifact", "version", "report", "page", "read", "finish",
                             "claim"}
         /\ step = "assemble" => First(step) = "version"
  BY DEF First, Body, Labels, Steps, ModelSteps

----------------------------------------------------------------------------
\* A throw, wherever it is made, leads to the ledger, to a new attempt or to the
\* terminal handler.
Rewinds ==
  /\ instance'.state = instance.state /\ instance'.memo = instance.memo
  /\ \/ instance'.failed = TRUE /\ run'.at = "fail"
     \/ instance'.failed = FALSE /\ run'.at = "ledger" /\ Cur \in ModelSteps
     \/ instance'.failed = FALSE /\ run'.at = First(Cur) /\ run'.host = 1

LEMMA OffType == Off \in Memory /\ Off.at = "off" /\ Off.host = 1
  BY DEF Off, Memory, Labels, IndexStates

LEMMA Raising ==
  ASSUME ControlType, ~ instance.failed, instance.memo < 13,
         NEW code \in Codes \cup {Null}, Raise(code)
  PROVE  Rewinds /\ instance' \in Instance /\ run' \in Memory
<1> DEFINE decision == IF Cur # "finalise" THEN code ELSE run.decision
<1>1. decision \in Codes \cup {Null} /\ First(Cur) \in Labels
  <2>1. Cur \in Steps
    BY PipelineFacts DEF Cur, ControlType, Instance
  <2> QED
    BY <2>1, FirstInBody DEF ControlType, Memory
<1> HIDE DEF decision
<1>2. CASE /\ instance' = [instance EXCEPT !.retries = @ + 1]
           /\ run' = [Off EXCEPT !.at = First(Cur), !.decision = decision]
  <2>1. instance' \in Instance /\ instance'.failed = FALSE
        /\ instance'.state = instance.state /\ instance'.memo = instance.memo
    BY <1>2 DEF ControlType, Instance
  <2>2. run' \in Memory /\ run'.at = First(Cur) /\ run'.host = 1
    BY <1>1, <1>2, OffType DEF Memory
  <2> QED
    BY <2>1, <2>2 DEF Rewinds
<1>3. CASE /\ instance' = [instance EXCEPT !.failed = TRUE]
           /\ run' = [Off EXCEPT !.at = "fail", !.decision = decision]
  <2>1. instance' \in Instance /\ instance'.failed = TRUE
        /\ instance'.state = instance.state /\ instance'.memo = instance.memo
    BY <1>3 DEF ControlType, Instance
  <2>2. run' \in Memory /\ run'.at = "fail"
    <3>1. "fail" \in Labels
      BY DEF Labels
    <3> QED
      BY <1>1, <1>3, <3>1, OffType DEF Memory
  <2> QED
    BY <2>1, <2>2 DEF Rewinds
<1> QED
  BY <1>2, <1>3 DEF Raise, decision

LEMMA Throwing ==
  ASSUME ControlType, ~ instance.failed, instance.memo < 13,
         NEW code \in Codes \cup {Null}, Throw(code)
  PROVE  Rewinds /\ instance' \in Instance /\ run' \in Memory
<1>1. CASE InTry
  BY <1>1 DEF Throw, InTry, Rewinds, ControlType, Instance, Memory, Labels
<1>2. CASE ~ InTry
  BY <1>2, Raising DEF Throw
<1> QED
  BY <1>1, <1>2

LEMMA Moving ==
  ASSUME ControlType, NEW l \in Labels, Within(l)
  PROVE  /\ instance' = instance /\ run' \in Memory /\ run'.at = l
         /\ run'.lastmod = run.lastmod /\ run'.host = run.host /\ run'.index = run.index
  BY DEF Within, ControlType, Memory

LEMMA Writing ==
  ASSUME ControlType, ~ instance.failed, instance.memo < 13, NEW l \in Labels, Wrote(l)
  PROVE  /\ instance' \in Instance /\ run' \in Memory
         /\ Rewinds \/ Within(l)
<1>1. "transport" \in Codes
  BY DEF Codes
<1> QED
  BY <1>1, Throwing, Moving DEF Wrote, ControlType

----------------------------------------------------------------------------
\* A version whose flip may be made.
Complete(v) == rows[v].sealed /\ sitemap[v] # 0 /\ Verified(v)

\* What the stores hold: one version is ever published, and only when complete.
Data ==
  /\ DataType
  /\ job.status \in {"queued", "running"} => job.version = 0
  /\ job.status = "streaming" => job.version # 0
  /\ \A v \in 1..Len(rows) : rows[v].sealed => rows[v].pages # 0 /\ <<v, "sitedoc">> \in objects
  /\ site.published # 0 => site.published = job.version /\ Complete(job.version)
  /\ \A h \in Host : routing[h] # Null =>
       routing[h].live = job.version /\ site.published = job.version /\ job.version # 0

\* What the steps that returned have brought about.
Advanced ==
  /\ job.status \notin {"failed", "timed_out"}
  /\ job.status = "succeeded" => instance.memo = 12
  /\ instance.memo >= 1 => job.status # "queued"
  /\ instance.memo >= 9 => job.version # 0
  /\ instance.memo = 12 => Live

PublishLabels == {"read", "sitedoc", "pages", "seal", "sitemap", "verify", "point", "flip"}

\* What the body of a step has brought about where it stands.
Reached ==
  /\ run.at = "return" /\ Cur = "claim" => job.status # "queued"
  /\ run.at \in {"artifact", "return"} /\ Cur = "assemble" => job.version # 0
  /\ run.at = "attach" => job.version = 0 /\ Len(rows) # 0
  /\ run.at \in PublishLabels \ {"flip"} => run.host = 1
  /\ run.at \in {"sitedoc", "pages", "seal", "sitemap"} => run.lastmod # 0
  /\ run.at \in {"pages", "seal"} => <<job.version, "sitedoc">> \in objects
  /\ run.at = "seal" => rows[job.version].pages # 0
  /\ run.at \in {"sitemap", "verify"} => rows[job.version].sealed
  /\ run.at = "verify" => sitemap[job.version] # 0
  /\ run.at \in {"point", "flip"} => Complete(job.version)
  /\ run.at = "flip" => /\ site.published = job.version
                        /\ run.host \in 1..Len(Hosts)
                        /\ \A i \in 1..(run.host - 1) : routing[Hosts[i]] # Null
  /\ run.at = "return" /\ Cur = "publish" => Live

Awake == instance.state = "awake"

Control ==
  /\ ControlType
  /\ instance.state # "ended" => instance.memo < 13
  /\ Awake /\ instance.failed => run.at \in {"fail", "tell"}
  /\ Awake /\ ~ instance.failed => run.at \in Body(Cur) \cup {"return"} /\ Reached
  /\ instance.state # "ended" /\ ~ instance.failed => Advanced

\* The ledger is a sequence of rows.
Rows == \E S : calls \in Seq(S)

Inv == Data /\ Control /\ Rows

----------------------------------------------------------------------------
\* The four ways the control of a run moves on.
LEMMA Where ==
  ASSUME Control, Awake, run.at \notin {"fail", "tell"}
  PROVE  /\ ~ instance.failed /\ instance.memo \in 0..12 /\ Cur \in Steps
         /\ run.at \in Body(Cur) \cup {"return"} /\ Reached /\ Advanced
         /\ Cur = "claim" <=> instance.memo = 0
         /\ Cur = "assemble" <=> instance.memo = 8
         /\ Cur = "publish" <=> instance.memo = 11
         /\ Cur = "finalise" <=> instance.memo = 12
<1>1. ~ instance.failed /\ instance.memo \in 0..12
  BY DEF Control, Awake, ControlType, Instance
<1>2. run.at \in Body(Cur) \cup {"return"} /\ Reached /\ Advanced
  BY <1>1 DEF Control, Awake
<1> QED
  BY <1>1, <1>2, PipelineFacts DEF Cur

LEMMA Rewound ==
  ASSUME Control, Awake, run.at \notin {"fail", "tell"},
         Rewinds, instance' \in Instance, run' \in Memory, clock' \in Nat, Advanced'
  PROVE  Control'
<1>1. Cur \in Steps /\ instance.memo \in 0..12 /\ Cur' = Cur
      /\ (Cur = "publish" => instance.memo = 11)
  BY Where DEF Cur, Rewinds
<1>2. CASE instance'.failed = TRUE /\ run'.at = "fail"
  BY <1>1, <1>2 DEF Control, ControlType, Rewinds, Awake
<1>3. CASE /\ instance'.failed = FALSE
           /\ \/ run'.at = "ledger" /\ Cur \in ModelSteps
              \/ run'.at = First(Cur) /\ run'.host = 1
  <2>1. run'.at \in Body(Cur)
    BY <1>1, <1>3, FirstInBody DEF Body
  <2>2. Reached'
    BY <1>1, <1>3, FirstInBody DEF Reached, ModelSteps, PublishLabels
  <2> QED
    BY <1>1, <1>3, <2>1, <2>2 DEF Control, ControlType, Rewinds, Awake
<1> QED
  BY <1>2, <1>3 DEF Rewinds

LEMMA Stepped ==
  ASSUME Control, Awake, run.at \notin {"fail", "tell"},
         instance' = instance, run' \in Memory, run'.at \in Body(Cur) \cup {"return"},
         clock' \in Nat, Reached', Advanced'
  PROVE  Control'
<1>1. ~ instance.failed /\ Cur' = Cur
  BY Where DEF Cur
<1> QED
  BY <1>1 DEF Control, ControlType, Awake

LEMMA ThrowStep ==
  ASSUME Control, Awake, run.at \notin {"fail", "tell"}, clock' \in Nat, Advanced',
         NEW code \in Codes \cup {Null}, Throw(code) \/ Raise(code)
  PROVE  Control'
<1>1. Rewinds /\ instance' \in Instance /\ run' \in Memory
  BY Where, Throwing, Raising DEF Control
<1> QED
  BY <1>1, Rewound

LEMMA WriteStep ==
  ASSUME Control, Awake, run.at \notin {"fail", "tell"}, clock' \in Nat, Advanced',
         NEW l \in Labels, Wrote(l), l \in Body(Cur) \cup {"return"}, Within(l) => Reached'
  PROVE  Control'
<1>1. /\ instance' \in Instance /\ run' \in Memory
      /\ Rewinds \/ Within(l)
  BY Where, Writing DEF Control
<1>2. CASE Rewinds
  BY <1>1, <1>2, Rewound
<1>3. CASE Within(l)
  BY <1>1, <1>3, Moving, Stepped DEF Control
<1> QED
  BY <1>1, <1>2, <1>3

\* Where the stores stay, so does what they hold; where the job does too and no
\* step returns, so does what the steps have brought about.
LEMMA DataStays ==
  ASSUME Data, UNCHANGED <<rows, objects, sitemap, site, routing, job>>
  PROVE  Data'
  BY DEF Data, DataType, Complete, Verified

LEMMA AdvancedStays ==
  ASSUME Advanced, UNCHANGED <<routing, job>>, instance'.memo = instance.memo
  PROVE  Advanced'
  BY DEF Advanced, Live

LEMMA MemoStays ==
  ASSUME Control, Awake, run.at \notin {"fail", "tell"},
         (\E l \in Labels : Within(l) \/ Wrote(l))
           \/ \E code \in Codes \cup {Null} : Throw(code) \/ Raise(code)
  PROVE  instance'.memo = instance.memo
<1>1. ControlType /\ ~ instance.failed /\ instance.memo < 13
  BY Where DEF Control
<1> QED
  BY <1>1, Moving, Writing, Throwing, Raising DEF Rewinds

LEMMA WrittenCodes ==
  /\ "transport" \in Codes /\ {"step_deadline", "transport", "model_refusal"} \subseteq Codes
  /\ {"audit_failed", "document_invalid"} \subseteq Codes
  /\ \A step : Findings(step) \subseteq Codes
  BY DEF Codes, Terminal, Policy, Findings

LEMMA CallsStep ==
  ASSUME Rows, Next
  PROVE  Rows'
<1>1. PICK S : calls \in Seq(S)
  BY DEF Rows
<1>2. CASE UNCHANGED calls
  BY <1>2 DEF Rows
<1>3. ASSUME NEW row, calls' = Append(calls, row) PROVE Rows'
  <2>1. calls' \in Seq(S \cup {row})
    BY <1>1, <1>3
  <2> QED
    BY <2>1 DEF Rows
<1>4. ASSUME NEW i, NEW row, calls' = [calls EXCEPT ![i] = row] PROVE Rows'
  <2>1. calls' \in Seq(S \cup {row})
    <3>1. Len(calls) \in Nat /\ calls \in [1..Len(calls) -> S]
      BY <1>1, LenProperties
    <3>2. calls' \in [1..Len(calls) -> S \cup {row}]
      BY <1>4, <3>1
    <3> QED
      BY <3>1, <3>2
  <2> QED
    BY <2>1 DEF Rows
<1>5. CASE OpenCall
  BY <1>3, <1>5 DEF OpenCall
<1>6. CASE CloseCall \/ FinishCallFromError
  BY <1>2, <1>4, <1>6 DEF CloseCall, FinishCallFromError, Close
<1>7. CASE Start \/ Return \/ Refused \/ Call \/ Rethrow \/ BuildStep
  BY <1>2, <1>7 DEF Start, Return, Refused, Call, Rethrow, BuildStep, Claim, Artifact,
       ResolveVersion, AttachVersion, Report, Quality, RenderPage, RenderRoot
<1>8. CASE PublishStep \/ Outcome
  BY <1>2, <1>8 DEF PublishStep, ReadSite, PutSiteDoc, WriteProjection, Seal, PutDerived, Verify,
       SetPublished, Flip, Outcome, Finish, Announce, FailJob, TellError
<1>9. CASE Evict \/ IndexMoves
  BY <1>2, <1>9 DEF Evict, IndexMoves, runVars
<1> QED
  BY <1>5, <1>6, <1>7, <1>8, <1>9 DEF Next, Step, ModelStep

----------------------------------------------------------------------------
\* Steps that write nothing a visitor or the dashboard reads.
Still == UNCHANGED <<rows, objects, sitemap, site, routing, job>>

LEMMA StillStep ==
  ASSUME Inv, Awake, run.at \notin {"fail", "tell"}, Still, clock' \in Nat,
         NEW l \in Labels, l \in Body(Cur) \cup {"return"},
         Within(l) => Reached',
         \/ Wrote(l)
         \/ Within(l)
         \/ \E code \in Codes \cup {Null} : Throw(code) \/ Raise(code)
  PROVE  Data' /\ Control'
<1>1. instance'.memo = instance.memo
  BY MemoStays DEF Inv
<1>2. Advanced'
  BY <1>1, Where, AdvancedStays DEF Inv, Still
<1>3. Data'
  BY DataStays DEF Inv, Still
<1>4. Control'
  <2>1. CASE Wrote(l)
    BY <1>2, <2>1, WriteStep DEF Inv
  <2>2. CASE Within(l)
    BY <1>2, <2>2, Moving, Stepped DEF Inv, Control
  <2>3. CASE \E code \in Codes \cup {Null} : Throw(code) \/ Raise(code)
    BY <1>2, <2>3, ThrowStep DEF Inv
  <2> QED
    BY <2>1, <2>2, <2>3
<1> QED
  BY <1>3, <1>4

LEMMA RefusedStep == Inv /\ Refused => Data' /\ Control'
<1> SUFFICES ASSUME Inv, Refused PROVE Data' /\ Control'
  OBVIOUS
<1>1. /\ Awake /\ run.at \notin {"fail", "tell"} /\ Still /\ clock' = clock
      /\ Throw("transport")
  BY DEF Refused, Awake, Still, publishVars
<1>2. Advanced'
  BY <1>1, WrittenCodes, MemoStays, Where, AdvancedStays DEF Inv, Still
<1> QED
  BY <1>1, <1>2, WrittenCodes, ThrowStep, DataStays DEF Inv, Still, Control, ControlType

LEMMA ModelStepInv == Inv /\ ModelStep => Data' /\ Control'
<1> SUFFICES ASSUME Inv, ModelStep PROVE Data' /\ Control'
  OBVIOUS
<1>1. /\ Awake /\ run.at \in {"open", "call", "close", "ledger", "raise"}
      /\ Still /\ clock' = clock
  BY DEF ModelStep, OpenCall, Call, CloseCall, FinishCallFromError, Rethrow, At, Awake, Still,
         publishVars
<1>2. clock' \in Nat
  BY <1>1 DEF Inv, Control, ControlType
<1>3. Cur \in ModelSteps /\ ~ instance.failed
  BY <1>1, Where DEF Inv, Body
<1>4. /\ {"call", "close", "ledger", "raise", "artifact"} \subseteq Body(Cur)
      /\ {"call", "close", "ledger", "raise", "artifact"} \subseteq Labels
      /\ Cur # "assemble"
  BY <1>3 DEF Body, Labels, ModelSteps
<1>5. ASSUME run'.at \in {"call", "close", "raise", "artifact"}, instance' = instance
      PROVE  Reached'
  BY <1>4, <1>5 DEF Reached, PublishLabels, Cur
<1>6. ASSUME NEW l \in {"close", "raise", "artifact"}, Within(l) PROVE Reached'
  <2>1. l \in Labels /\ ControlType
    BY <1>4, <1>6 DEF Inv, Control
  <2> QED
    BY <1>5, <1>6, <2>1, Moving
<1>7. CASE OpenCall
  <2>1. CASE /\ UNCHANGED <<instance, faults, lost>>
             /\ run' = [run EXCEPT !.at = "call", !.call = Len(calls')]
    <3>1. Len(calls') \in Nat
      <4>1. Rows'
        BY <1>7, CallsStep DEF Inv, Next, Step, ModelStep
      <4> QED
        BY <4>1 DEF Rows
    <3>2. run' \in Memory /\ run'.at = "call"
      BY <1>4, <2>1, <3>1 DEF Inv, Control, ControlType, Memory
    <3>3. Advanced'
      BY <1>1, <2>1, Where, AdvancedStays DEF Inv, Still
    <3> QED
      BY <1>1, <1>2, <1>4, <1>5, <2>1, <3>2, <3>3, Stepped, DataStays DEF Inv, Still
  <2>2. CASE Throw("transport")
    BY <1>1, <1>2, <1>4, <1>6, <2>2, WrittenCodes, StillStep
  <2> QED
    BY <1>7, <2>1, <2>2 DEF OpenCall
<1>8. CASE Call
  <2>1. Within("close") \/ \E code \in Codes \cup {Null} : Throw(code)
    BY <1>8, WrittenCodes DEF Call, Throws
  <2> QED
    BY <1>1, <1>2, <1>4, <1>6, <2>1, StillStep
<1>9. CASE CloseCall
  BY <1>1, <1>2, <1>4, <1>6, <1>9, StillStep DEF CloseCall
<1>10. CASE FinishCallFromError
  <2>1. Within("raise") \/ Raise("transport")
    BY <1>10 DEF FinishCallFromError
  <2> QED
    BY <1>1, <1>2, <1>4, <1>6, <2>1, WrittenCodes, StillStep
<1>11. CASE Rethrow
  <2>1. run.pending \in Codes \cup {Null}
    BY DEF Inv, Control, ControlType, Memory
  <2> QED
    BY <1>1, <1>2, <1>4, <1>6, <1>11, <2>1, StillStep DEF Rethrow
<1> QED
  BY <1>7, <1>8, <1>9, <1>10, <1>11 DEF ModelStep

----------------------------------------------------------------------------
\* The steps that claim, assemble, audit and render.
LEMMA ReturnStep == Inv /\ Return => Data' /\ Control'
<1> SUFFICES ASSUME Inv, Return PROVE Data' /\ Control'
  OBVIOUS
<1>1. Awake /\ run.at = "return" /\ Still /\ clock' = clock
  BY DEF Return, At, Awake, Still, publishVars
<1>2. /\ ~ instance.failed /\ instance.memo \in 0..12 /\ Reached /\ Advanced
      /\ Cur = "claim" <=> instance.memo = 0
      /\ Cur = "assemble" <=> instance.memo = 8
      /\ Cur = "publish" <=> instance.memo = 11
      /\ Cur = "finalise" <=> instance.memo = 12
  BY <1>1, Where DEF Inv
<1>3. Data'
  BY <1>1, DataStays DEF Inv, Still
<1>4. instance \in Instance /\ run \in Memory /\ clock' \in Nat
  BY <1>1 DEF Inv, Control, ControlType
<1>5. CASE Cur = "finalise"
  <2>1. instance' \in Instance /\ instance'.state = "ended"
    <3>1. instance' = [instance EXCEPT !.memo = @ + 1, !.retries = 0, !.state = "ended"]
      BY <1>5 DEF Return
    <3>2. instance.memo + 1 \in 0..13
      BY <1>2
    <3> QED
      BY <1>4, <3>1, <3>2 DEF Instance
  <2>2. run' \in Memory
    BY <1>5, OffType DEF Return
  <2> QED
    BY <1>3, <1>4, <2>1, <2>2 DEF Control, ControlType, Awake
<1>6. CASE Cur # "finalise"
  <2> DEFINE next == Pipeline[instance.memo + 2]
  <2>1. /\ instance' \in Instance /\ instance'.state = "awake" /\ instance'.failed = FALSE
        /\ instance'.memo = instance.memo + 1 /\ instance'.memo \in 1..12
    <3>1. instance' = [instance EXCEPT !.memo = instance.memo + 1, !.retries = 0,
                                       !.state = instance.state]
      BY <1>6 DEF Return
    <3>2. instance.memo + 1 \in 1..12 /\ instance.state = "awake" /\ instance.failed = FALSE
      BY <1>1, <1>2, <1>4, <1>6 DEF Awake, Instance
    <3>3. /\ instance'.state = "awake" /\ instance'.failed = FALSE
          /\ instance'.memo = instance.memo + 1
      BY <1>4, <3>1, <3>2 DEF Instance
    <3>4. instance' \in Instance
      <4>1. instance.memo + 1 \in 0..13 /\ instance.state \in {"awake", "asleep", "ended"}
        BY <1>4, <3>2 DEF Instance
      <4> QED
        BY <1>4, <3>1, <4>1 DEF Instance
    <3> QED
      BY <3>2, <3>3, <3>4
  <2>2. next = Cur' /\ next \in Steps
    BY <1>2, <2>1, PipelineFacts DEF Cur
  <2> HIDE DEF next
  <2>3. run' \in Memory /\ run'.at = First(next) /\ run'.host = 1
    <3>1. run' = [Off EXCEPT !.at = First(next), !.decision = run.decision]
      BY <1>6 DEF Return, next
    <3>2. First(next) \in Labels /\ run.decision \in Codes \cup {Null}
      BY <1>4, <2>2, FirstInBody DEF Memory
    <3> QED
      BY <3>1, <3>2, OffType DEF Memory
  <2>4. Advanced'
    <3>1. instance.memo = 0 => job.status # "queued"
      BY <1>1, <1>2 DEF Reached, PublishLabels
    <3>2. instance.memo = 8 => job.version # 0
      BY <1>1, <1>2 DEF Reached, PublishLabels
    <3>3. instance.memo = 11 => Live
      BY <1>1, <1>2 DEF Reached, PublishLabels
    <3>4. Live' = Live
      BY <1>1 DEF Live, Still
    <3> QED
      BY <1>1, <1>2, <2>1, <3>1, <3>2, <3>3, <3>4 DEF Advanced, Still
  <2>5. Reached'
    BY <2>2, <2>3, FirstInBody DEF Reached, PublishLabels
  <2> QED
    BY <1>3, <1>4, <2>1, <2>2, <2>3, <2>4, <2>5, FirstInBody DEF Control, ControlType, Awake
<1> QED
  BY <1>5, <1>6

LEMMA ClaimStep == Inv /\ Claim => Data' /\ Control'
<1> SUFFICES ASSUME Inv, Claim PROVE Data' /\ Control'
  OBVIOUS
<1>1. /\ Awake /\ run.at = "claim" /\ UNCHANGED <<rows, objects, sitemap, site, routing, clock>>
      /\ job' = [job EXCEPT !.status = IF @ = "queued" THEN "running" ELSE @]
      /\ Wrote("return")
  BY DEF Claim, At, Awake, publishVars
<1>2. job \in JobRow /\ Cur \in Steps /\ Advanced
  BY <1>1, Where DEF Inv, Data, DataType
<1>3. /\ job' \in JobRow /\ job'.version = job.version /\ job'.status # "queued"
      /\ job'.status = IF job.status = "queued" THEN "running" ELSE job.status
  BY <1>1, <1>2 DEF JobRow
<1>4. Data'
  BY <1>1, <1>3 DEF Inv, Data, DataType, Complete, Verified
<1>5. instance'.memo = instance.memo /\ "return" \in Labels
  BY <1>1, MemoStays DEF Inv, Labels
<1>6. Live' = Live
  BY <1>1, <1>3 DEF Live
<1>7. Advanced'
  BY <1>2, <1>3, <1>5, <1>6 DEF Advanced
<1>8. Cur = "claim"
  <2>1. "claim" \in Body(Cur)
    BY <1>1, Where DEF Inv
  <2> QED
    BY <1>2, <2>1 DEF Body, Steps
<1>9. ASSUME Within("return") PROVE Reached'
  <2>1. run'.at = "return" /\ Cur' = "claim"
    BY <1>5, <1>8, <1>9, Moving DEF Inv, Control, Cur
  <2> QED
    BY <1>3, <2>1 DEF Reached, PublishLabels
<1> QED
  BY <1>1, <1>4, <1>5, <1>7, <1>9, WriteStep DEF Inv, Control, ControlType

LEMMA ArtifactStep == Inv /\ Artifact => Data' /\ Control'
<1> SUFFICES ASSUME Inv, Artifact PROVE Data' /\ Control'
  OBVIOUS
<1>1. Awake /\ run.at = "artifact" /\ Still /\ clock' = clock
  BY DEF Artifact, At, Awake, Still, publishVars
<1>2. "return" \in Labels /\ clock' \in Nat /\ "return" \in Body(Cur) \cup {"return"}
  BY <1>1 DEF Labels, Inv, Control, ControlType
<1>3. Cur \notin {"claim", "publish"} /\ Reached
  BY <1>1, Where DEF Inv, Body, ModelSteps
<1>4. ASSUME Within("return") PROVE Reached'
  <2>1. run'.at = "return" /\ Cur' = Cur
    BY <1>2, <1>4, Moving DEF Inv, Control, Cur
  <2>2. Cur = "assemble" => job.version # 0
    BY <1>1, <1>3 DEF Reached, PublishLabels
  <2> QED
    BY <1>1, <1>3, <2>1, <2>2 DEF Reached, PublishLabels, Still
<1>5. Wrote("return") \/ \E code \in Codes \cup {Null} : Throw(code)
  BY WrittenCodes DEF Artifact, Throws
<1> QED
  BY <1>1, <1>2, <1>4, <1>5, StillStep

LEMMA AuditStep == Inv /\ (Report \/ Quality) => Data' /\ Control'
<1> SUFFICES ASSUME Inv, Report \/ Quality PROVE Data' /\ Control'
  OBVIOUS
<1>1. Awake /\ run.at \in {"report", "quality"} /\ Still /\ clock' = clock
  BY DEF Report, Quality, At, Awake, Still, publishVars
<1>2. /\ "return" \in Labels /\ "quality" \in Labels /\ clock' \in Nat
      /\ Cur = "audit" /\ "quality" \in Body(Cur) /\ "return" \in Body(Cur) \cup {"return"}
  BY <1>1, Where DEF Labels, Inv, Control, ControlType, Body, ModelSteps
<1>3. ASSUME NEW l \in {"quality", "return"}, Within(l) PROVE Reached'
  <2>1. run'.at = l /\ Cur' = Cur
    BY <1>2, <1>3, Moving DEF Inv, Control, Cur
  <2> QED
    BY <1>2, <2>1 DEF Reached, PublishLabels
<1>4. CASE Report
  BY <1>1, <1>2, <1>3, <1>4, StillStep DEF Report
<1>5. CASE Quality
  <2>1. Wrote("return") \/ \E code \in Codes \cup {Null} : Throw(code)
    BY <1>5, WrittenCodes DEF Quality, Throws
  <2> QED
    BY <1>1, <1>2, <1>3, <2>1, StillStep
<1> QED
  BY <1>4, <1>5

----------------------------------------------------------------------------
\* What each write leaves of what the stores hold.
LEMMA PutObjectData ==
  ASSUME Data, NEW v, NEW object, PutObject(v, object), job' = job
  PROVE  Data' /\ (Complete(job.version) => Complete(job.version)')
<1>1. objects \subseteq objects' /\ UNCHANGED <<rows, sitemap, site, routing, job>>
  BY DEF PutObject
<1>2. Complete(job.version) => Complete(job.version)'
  BY <1>1 DEF Complete, Verified
<1> QED
  BY <1>1, <1>2 DEF Data, DataType

LEMMA InsertData ==
  ASSUME Data, InsertSiteVersion, job' = job
  PROVE  Data' /\ Len(rows') # 0
<1>1. /\ rows \in Seq(VersionRow) /\ sitemap \in Seq(Nat) /\ Len(sitemap) = Len(rows)
      /\ Len(rows) \in Nat
  BY DEF Data, DataType
<1> DEFINE row == [pages |-> 0, sealed |-> FALSE]
<1>2. row \in VersionRow /\ row.sealed = FALSE
  BY DEF VersionRow
<1>3. rows' = Append(rows, row) /\ sitemap' = Append(sitemap, 0)
      /\ UNCHANGED <<objects, site, routing, job>>
  BY DEF InsertSiteVersion
<1> HIDE DEF row
<1>4. /\ rows' \in Seq(VersionRow) /\ sitemap' \in Seq(Nat)
      /\ Len(rows') = Len(rows) + 1 /\ Len(sitemap') = Len(rows')
      /\ \A v \in 1..Len(rows) : rows'[v] = rows[v] /\ sitemap'[v] = sitemap[v]
      /\ rows'[Len(rows) + 1] = row
  BY <1>1, <1>2, <1>3
<1>5. DataType'
  BY <1>1, <1>3, <1>4 DEF Data, DataType
<1>6. \A v \in 1..Len(rows') : rows'[v].sealed =>
        rows'[v].pages # 0 /\ <<v, "sitedoc">> \in objects'
  <2>1. \A v \in 1..Len(rows') : v \in 1..Len(rows) \/ v = Len(rows) + 1
    BY <1>1, <1>4
  <2> QED
    BY <1>2, <1>3, <1>4, <2>1 DEF Data
<1>7. Verified(job.version)' = Verified(job.version)
  BY <1>3 DEF Verified
<1>8. job.version # 0 => (Complete(job.version)' <=> Complete(job.version))
  BY <1>1, <1>4, <1>7 DEF Complete, Data, DataType
<1> QED
  BY <1>1, <1>3, <1>4, <1>5, <1>6, <1>8 DEF Data

LEMMA RowData ==
  ASSUME Data, job.version # 0, NEW row \in VersionRow,
         rows' = [rows EXCEPT ![job.version] = row],
         row.sealed => row.pages # 0 /\ <<job.version, "sitedoc">> \in objects,
         rows[job.version].sealed => row.sealed,
         UNCHANGED <<objects, sitemap, site, routing, job>>
  PROVE  /\ Data' /\ rows'[job.version] = row
         /\ (Complete(job.version) => Complete(job.version)')
<1>1. /\ rows \in Seq(VersionRow) /\ job.version \in 1..Len(rows) /\ Len(rows) \in Nat
  BY DEF Data, DataType
<1>2. /\ rows' \in Seq(VersionRow) /\ Len(rows') = Len(rows)
      /\ \A v \in 1..Len(rows) : rows'[v] = IF v = job.version THEN row ELSE rows[v]
  BY <1>1
<1>3. Complete(job.version) => Complete(job.version)'
  BY <1>1, <1>2 DEF Complete, Verified
<1>4. DataType'
  BY <1>2 DEF Data, DataType
<1> QED
  BY <1>1, <1>2, <1>3, <1>4 DEF Data

LEMMA SitemapData ==
  ASSUME Data, job.version # 0, NEW lastmod \in Nat \ {0},
         PutSitemap(job.version, lastmod), job' = job
  PROVE  /\ Data' /\ sitemap'[job.version] # 0
         /\ (Complete(job.version) => Complete(job.version)')
<1>1. /\ sitemap \in Seq(Nat) /\ job.version \in 1..Len(sitemap) /\ Len(sitemap) \in Nat
  BY DEF Data, DataType
<1>2. /\ sitemap' \in Seq(Nat) /\ Len(sitemap') = Len(sitemap)
      /\ sitemap'[job.version] = lastmod
      /\ UNCHANGED <<rows, objects, site, routing, job>>
  BY <1>1 DEF PutSitemap
<1>3. Complete(job.version) => Complete(job.version)'
  BY <1>2 DEF Complete, Verified
<1>4. DataType'
  BY <1>2 DEF Data, DataType
<1> QED
  BY <1>2, <1>3, <1>4 DEF Data

LEMMA PublishData ==
  ASSUME Data, job.version # 0, Complete(job.version), SetPublishedVersion(job.version),
         job' = job
  PROVE  /\ Data' /\ Complete(job.version)' /\ site'.published = job.version
         /\ routing' = routing
<1>1. /\ site' \in [published : Nat, index : IndexStates] /\ site'.published = job.version
      /\ UNCHANGED <<rows, objects, sitemap, routing, job>>
  BY DEF SetPublishedVersion, Data, DataType, JobRow
<1>2. Complete(job.version)'
  BY <1>1 DEF Complete, Verified
<1>3. DataType'
  BY <1>1 DEF Data, DataType
<1> QED
  BY <1>1, <1>2, <1>3 DEF Data

LEMMA FlipData ==
  ASSUME Data, job.version # 0, site.published = job.version, NEW h \in Host,
         NEW index \in IndexStates, PutRoutingPointer(h, job.version, index), job' = job
  PROVE  /\ Data' /\ routing'[h] # Null /\ routing'[h].live = job.version
         /\ \A g \in Host : routing[g] # Null => routing'[g] # Null
         /\ \A g \in Host \ {h} : routing'[g] = routing[g]
         /\ UNCHANGED <<rows, objects, sitemap, site>>
<1> DEFINE manifest == [live |-> job.version, index |-> index]
<1>1. manifest \in Manifests(Nat) /\ manifest # Null /\ manifest.live = job.version
  BY NoManifestAssumption DEF Manifests, Data, DataType, JobRow
<1>2. /\ routing' = [routing EXCEPT ![h] = manifest]
      /\ UNCHANGED <<rows, objects, sitemap, site, job>>
  BY DEF PutRoutingPointer
<1> HIDE DEF manifest
<1>3. /\ routing' \in [Host -> Manifests(Nat) \cup {Null}]
      /\ routing'[h] = manifest /\ \A g \in Host \ {h} : routing'[g] = routing[g]
  BY <1>1, <1>2 DEF Data, DataType
<1>4. DataType'
  BY <1>2, <1>3 DEF Data, DataType
<1>5. Complete(job.version)' = Complete(job.version)
  BY <1>2 DEF Complete, Verified
<1> QED
  BY <1>1, <1>2, <1>3, <1>4, <1>5 DEF Data

----------------------------------------------------------------------------
\* A write that moves neither the job nor the routing.
LEMMA StoreStep ==
  ASSUME Inv, Awake, run.at \notin {"fail", "tell"}, UNCHANGED <<routing, job, clock>>,
         NEW l \in Labels, l \in Body(Cur) \cup {"return"}, Wrote(l), Within(l) => Reached'
  PROVE  Control'
<1>1. instance'.memo = instance.memo
  BY MemoStays DEF Inv
<1>2. Advanced'
  BY <1>1, Where, AdvancedStays DEF Inv
<1> QED
  BY <1>2, WriteStep DEF Inv, Control, ControlType

LEMMA AssembleStep == Inv /\ ResolveVersion => Data' /\ Control'
<1> SUFFICES ASSUME Inv, ResolveVersion PROVE Data' /\ Control'
  OBVIOUS
<1>1. Awake /\ run.at = "version" /\ UNCHANGED <<job, clock, routing>>
  BY DEF ResolveVersion, At, Awake, publishVars, InsertSiteVersion
<1>2. /\ Cur = "assemble" /\ {"artifact", "attach"} \subseteq Body(Cur)
      /\ {"artifact", "attach"} \subseteq Labels
  BY <1>1, Where DEF Inv, Body, ModelSteps, Labels
<1>3. CASE job.version # 0 /\ Within("artifact") /\ UNCHANGED publishVars
  <2>1. Still
    BY <1>1, <1>3 DEF Still, publishVars
  <2>2. run'.at = "artifact" /\ Cur' = Cur
    BY <1>2, <1>3, Moving DEF Inv, Control, Cur
  <2>3. Reached'
    BY <1>1, <1>2, <1>3, <2>2 DEF Reached, PublishLabels
  <2> QED
    BY <1>1, <1>2, <1>3, <2>1, <2>3, StillStep DEF Inv, Control, ControlType
<1>4. CASE job.version = 0 /\ InsertSiteVersion /\ Wrote("attach")
  <2>1. Data' /\ Len(rows') # 0
    BY <1>1, <1>4, InsertData DEF Inv
  <2>2. ASSUME Within("attach") PROVE Reached'
    <3>1. run'.at = "attach"
      BY <1>2, <2>2, Moving DEF Inv, Control
    <3> QED
      BY <1>1, <1>4, <2>1, <3>1 DEF Reached, PublishLabels
  <2> QED
    BY <1>1, <1>2, <1>4, <2>1, <2>2, StoreStep
<1> QED
  BY <1>3, <1>4 DEF ResolveVersion

LEMMA AttachStep == Inv /\ AttachVersion => Data' /\ Control'
<1> SUFFICES ASSUME Inv, AttachVersion PROVE Data' /\ Control'
  OBVIOUS
<1>1. Awake /\ run.at = "attach" /\ UNCHANGED <<rows, objects, sitemap, site, routing, clock>>
      /\ Wrote("artifact")
  BY DEF AttachVersion, At, Awake, publishVars
<1>2. /\ Cur = "assemble" /\ "artifact" \in Body(Cur) /\ "artifact" \in Labels
      /\ instance.memo = 8 /\ Reached /\ Advanced
  BY <1>1, Where DEF Inv, Body, ModelSteps, Labels
<1>3. job.version = 0 /\ Len(rows) # 0 /\ Len(rows) \in Nat /\ job \in JobRow
  BY <1>1, <1>2 DEF Reached, PublishLabels, Inv, Data, DataType
<1>4. job.status = "running"
  BY <1>2, <1>3 DEF Inv, Data, JobRow, Closed, Advanced
<1>5. job' = [job EXCEPT !.status = "streaming", !.version = Len(rows)]
  BY <1>4 DEF AttachVersion
<1>6. job' \in JobRow /\ job'.status = "streaming" /\ job'.version = Len(rows)
  BY <1>3, <1>5 DEF JobRow
<1>7. site.published = 0 /\ \A h \in Host : routing[h] = Null
  BY <1>3 DEF Inv, Data
<1>8. Data'
  BY <1>1, <1>3, <1>6, <1>7 DEF Inv, Data, DataType
<1>9. instance'.memo = 8
  BY <1>1, <1>2, MemoStays DEF Inv
<1>10. Advanced'
  BY <1>3, <1>6, <1>9 DEF Advanced
<1>11. ASSUME Within("artifact") PROVE Reached'
  <2>1. run'.at = "artifact"
    BY <1>2, <1>11, Moving DEF Inv, Control
  <2> QED
    BY <1>3, <1>6, <2>1 DEF Reached, PublishLabels
<1> QED
  BY <1>1, <1>2, <1>8, <1>10, <1>11, WriteStep DEF Inv, Control, ControlType

LEMMA RenderStep == Inv /\ (RenderPage \/ RenderRoot) => Data' /\ Control'
<1> SUFFICES ASSUME Inv, RenderPage \/ RenderRoot PROVE Data' /\ Control'
  OBVIOUS
<1>1. Awake /\ run.at \in {"page", "root"} /\ UNCHANGED <<job, clock, routing>>
  BY DEF RenderPage, RenderRoot, At, Awake, publishVars, PutObject
<1>2. /\ Cur = "render" /\ "root" \in Body(Cur) /\ {"root", "return"} \subseteq Labels
  BY <1>1, Where DEF Inv, Body, ModelSteps, Labels
<1>3. ASSUME NEW l \in {"root", "return"}, Within(l) PROVE Reached'
  <2>1. run'.at = l /\ Cur' = Cur
    BY <1>2, <1>3, Moving DEF Inv, Control, Cur
  <2> QED
    BY <1>2, <2>1 DEF Reached, PublishLabels
<1>4. ASSUME NEW object, PutObject(job.version, object), NEW l \in {"root", "return"}, Wrote(l)
      PROVE  Data' /\ Control'
  <2>1. Data'
    BY <1>1, <1>4, PutObjectData DEF Inv
  <2> QED
    BY <1>1, <1>2, <1>3, <1>4, <2>1, StoreStep
<1>5. CASE Throws({"document_invalid"}) /\ UNCHANGED publishVars
  <2>1. Still /\ \E code \in Codes \cup {Null} : Throw(code)
    BY <1>1, <1>5, WrittenCodes DEF Still, publishVars, Throws
  <2> QED
    BY <1>1, <1>2, <1>3, <2>1, StillStep DEF Inv, Control, ControlType
<1> QED
  BY <1>4, <1>5 DEF RenderPage, RenderRoot

----------------------------------------------------------------------------
\* The steps of publishVersion().
LEMMA WherePublish ==
  ASSUME Inv, Awake, run.at \in PublishLabels
  PROVE  /\ Cur = "publish" /\ instance.memo = 11 /\ ~ instance.failed /\ Reached /\ Advanced
         /\ PublishLabels \subseteq Body(Cur) /\ PublishLabels \cup {"return"} \subseteq Labels
         /\ run.at \notin {"fail", "tell"}
         /\ job.version # 0 /\ job.version \in 1..Len(rows)
         /\ rows[job.version] \in VersionRow
         /\ run.lastmod \in Nat /\ run.index \in IndexStates
<1>1. run.at \notin {"fail", "tell"}
  BY DEF PublishLabels
<1>2. Cur \in Steps /\ run.at \in Body(Cur) /\ Reached /\ Advanced /\ ~ instance.failed
      /\ (Cur = "publish" <=> instance.memo = 11)
  BY <1>1, Where DEF Inv, PublishLabels
<1>3. Cur = "publish"
  BY <1>2 DEF Body, PublishLabels, Steps, ModelSteps
<1>4. job.version # 0 /\ job.version \in 1..Len(rows) /\ rows[job.version] \in VersionRow
  BY <1>2, <1>3 DEF Advanced, Inv, Data, DataType
<1>5. PublishLabels \subseteq Body(Cur) /\ PublishLabels \cup {"return"} \subseteq Labels
  BY <1>3 DEF Body, PublishLabels, Labels, ModelSteps
<1> QED
  BY <1>1, <1>2, <1>3, <1>4, <1>5 DEF Inv, Control, ControlType, Memory

LEMMA ReadSiteStep == Inv /\ ReadSite => Data' /\ Control'
<1> SUFFICES ASSUME Inv, ReadSite PROVE Data' /\ Control'
  OBVIOUS
<1> DEFINE lastmod == Lastmod(job.version, clock')
<1>1. /\ Awake /\ run.at = "read" /\ Still /\ instance' = instance /\ clock' = clock + 1
      /\ run' = [run EXCEPT !.at = Resume(job.version), !.index = site.index,
                            !.lastmod = lastmod]
  BY DEF ReadSite, At, Awake, Still, publishVars
<1>2. run.at \in PublishLabels
  BY <1>1 DEF PublishLabels
<1>3. clock' \in Nat \ {0}
  BY <1>1 DEF Inv, Control, ControlType
<1>4. lastmod \in Nat /\ lastmod # 0
  <2>1. CASE site.published = job.version
    <3>1. rows[job.version].pages # 0
      BY <1>1, <1>2, <2>1, WherePublish DEF Inv, Data, Complete
    <3> QED
      BY <1>1, <1>2, <2>1, <3>1, WherePublish DEF Lastmod, VersionRow
  <2>2. CASE site.published # job.version
    BY <1>3, <2>2 DEF Lastmod
  <2> QED
    BY <2>1, <2>2
<1>5. site.index \in IndexStates /\ run \in Memory /\ run.host = 1
  BY <1>1, <1>2, WherePublish DEF Inv, Data, DataType, Control, ControlType, Reached, PublishLabels
<1> HIDE DEF lastmod
<1>6. /\ run' \in Memory /\ run'.lastmod = lastmod /\ run'.host = 1
      /\ run'.at = IF rows[job.version].sealed THEN "sitemap" ELSE "sitedoc"
  <2>1. Resume(job.version) \in Labels
    BY DEF Resume, Labels
  <2> QED
    BY <1>1, <1>4, <1>5, <2>1 DEF Memory, Resume
<1>7. run'.at \in PublishLabels
  BY <1>6 DEF PublishLabels
<1>8. Reached'
  BY <1>1, <1>4, <1>6 DEF Reached, PublishLabels, Still
<1>9. Advanced'
  BY <1>1, <1>2, WherePublish, AdvancedStays DEF Still
<1> QED
  BY <1>1, <1>2, <1>3, <1>6, <1>7, <1>8, <1>9, WherePublish, Stepped, DataStays
     DEF Inv, Still

LEMMA StoringStep ==
  ASSUME Inv, PutSiteDoc \/ WriteProjection \/ Seal \/ PutDerived \/ SetPublished
  PROVE  Data' /\ Control'
<1>1. /\ Awake /\ run.at \in PublishLabels
      /\ run.at \in {"sitedoc", "pages", "seal", "sitemap", "point"}
      /\ UNCHANGED <<job, clock, routing>>
  BY DEF PutSiteDoc, WriteProjection, Seal, PutDerived, SetPublished, At, Awake, publishVars,
         PutObject, WritePages, SealVersion, PutSitemap, SetPublishedVersion, PublishLabels
<1>2. /\ Cur = "publish" /\ Reached /\ PublishLabels \subseteq Body(Cur)
      /\ PublishLabels \subseteq Labels /\ job.version # 0 /\ rows[job.version] \in VersionRow
      /\ run.lastmod \in Nat /\ run.at \notin {"fail", "tell"} /\ run.host = 1
      /\ job.version \in 1..Len(rows)
  BY <1>1, WherePublish DEF Reached
<1>3. ASSUME NEW l \in PublishLabels, Within(l)
      PROVE  run'.at = l /\ run'.lastmod = run.lastmod /\ run'.host = 1
  BY <1>2, <1>3, Moving DEF Inv, Control
<1>4. ASSUME NEW l \in PublishLabels, Wrote(l), Within(l) => Reached' PROVE Control'
  BY <1>1, <1>2, <1>4, StoreStep
<1>5. CASE PutSiteDoc
  <2>1. Data' /\ <<job'.version, "sitedoc">> \in objects' /\ Wrote("pages")
    BY <1>1, <1>5, PutObjectData DEF Inv, PutSiteDoc, PutObject
  <2>2. run.lastmod # 0
    BY <1>2, <1>5 DEF Reached, PutSiteDoc, At
  <2>3. Within("pages") => Reached'
    BY <1>3, <2>1, <2>2 DEF Reached, PublishLabels
  <2> QED
    BY <1>4, <2>1, <2>3 DEF PublishLabels
<1>6. CASE WriteProjection
  <2> DEFINE row == [rows[job.version] EXCEPT !.pages = IF @ = 0 THEN run.lastmod ELSE @]
  <2>1. /\ run.lastmod # 0 /\ <<job.version, "sitedoc">> \in objects
    BY <1>2, <1>6 DEF Reached, WriteProjection, At
  <2>2. /\ row \in VersionRow /\ row.pages # 0 /\ row.sealed = rows[job.version].sealed
    BY <1>2, <2>1 DEF VersionRow
  <2>3. /\ rows' = [rows EXCEPT ![job.version] = row]
        /\ UNCHANGED <<objects, sitemap, site, routing, job>> /\ Wrote("seal")
    BY <1>1, <1>6 DEF WriteProjection, WritePages
  <2> HIDE DEF row
  <2>4. Data' /\ rows'[job.version] = row
    BY <1>2, <2>1, <2>2, <2>3, RowData DEF Inv
  <2>5. Within("seal") => Reached'
    BY <1>3, <2>1, <2>2, <2>3, <2>4 DEF Reached, PublishLabels
  <2> QED
    BY <1>4, <2>3, <2>4, <2>5 DEF PublishLabels
<1>7. CASE Seal
  <2> DEFINE row == [rows[job.version] EXCEPT !.sealed = TRUE]
  <2>1. /\ run.lastmod # 0 /\ rows[job.version].pages # 0
        /\ <<job.version, "sitedoc">> \in objects
    BY <1>2, <1>7 DEF Reached, Seal, At
  <2>2. /\ row \in VersionRow /\ row.pages = rows[job.version].pages /\ row.sealed = TRUE
    BY <1>2 DEF VersionRow
  <2>3. /\ rows' = [rows EXCEPT ![job.version] = row]
        /\ UNCHANGED <<objects, sitemap, site, routing, job>> /\ Wrote("sitemap")
    BY <1>1, <1>7 DEF Seal, SealVersion
  <2> HIDE DEF row
  <2>4. Data' /\ rows'[job.version] = row
    BY <1>2, <2>1, <2>2, <2>3, RowData DEF Inv
  <2>5. Within("sitemap") => Reached'
    BY <1>3, <2>1, <2>2, <2>3, <2>4 DEF Reached, PublishLabels
  <2> QED
    BY <1>4, <2>3, <2>4, <2>5 DEF PublishLabels
<1>8. CASE PutDerived
  <2>1. /\ run.lastmod \in Nat \ {0} /\ rows[job.version].sealed
    BY <1>2, <1>8 DEF Reached, PutDerived, At
  <2>2. /\ PutSitemap(job.version, run.lastmod) /\ job' = job /\ rows' = rows
        /\ Wrote("verify")
    BY <1>1, <1>8 DEF PutDerived, PutSitemap
  <2>3. Data' /\ sitemap'[job.version] # 0
    BY <1>2, <2>1, <2>2, SitemapData DEF Inv
  <2>4. Within("verify") => Reached'
    BY <1>3, <2>1, <2>2, <2>3 DEF Reached, PublishLabels
  <2> QED
    BY <1>4, <2>2, <2>3, <2>4 DEF PublishLabels
<1>9. CASE SetPublished
  <2>1. Complete(job.version)
    BY <1>2, <1>9 DEF Reached, SetPublished, At
  <2>2. SetPublishedVersion(job.version) /\ job' = job /\ Wrote("flip")
    BY <1>1, <1>9 DEF SetPublished
  <2>3. Data' /\ Complete(job.version)' /\ site'.published = job.version
    BY <1>2, <2>1, <2>2, PublishData DEF Inv
  <2>4. 1 \in 1..Len(Hosts)
    BY HostsAssumption
  <2>5. Within("flip") => Reached'
    BY <1>3, <2>2, <2>3, <2>4 DEF Reached, PublishLabels
  <2> QED
    BY <1>4, <2>2, <2>3, <2>5 DEF PublishLabels
<1> QED
  BY <1>5, <1>6, <1>7, <1>8, <1>9

LEMMA VerifyStep == Inv /\ Verify => Data' /\ Control'
<1> SUFFICES ASSUME Inv, Verify PROVE Data' /\ Control'
  OBVIOUS
<1>1. Awake /\ run.at = "verify" /\ run.at \in PublishLabels /\ Still /\ clock' = clock
  BY DEF Verify, At, Awake, Still, publishVars, PublishLabels
<1>2. /\ Reached /\ "point" \in Body(Cur) /\ "point" \in Labels
      /\ run.at \notin {"fail", "tell"}
  BY <1>1, WherePublish DEF PublishLabels
<1>3. clock' \in Nat
  BY <1>1 DEF Inv, Control, ControlType
<1>4. CASE Verified(job.version) /\ Within("point")
  <2>1. run'.at = "point" /\ run'.host = 1
    BY <1>1, <1>2, <1>4, Moving DEF Inv, Control, Reached, PublishLabels
  <2>2. Complete(job.version)
    BY <1>1, <1>2, <1>4 DEF Reached, Complete
  <2>3. Complete(job.version)'
    BY <1>1, <2>2 DEF Complete, Verified, Still
  <2>4. Reached'
    BY <2>1, <2>3 DEF Reached, PublishLabels
  <2> QED
    BY <1>1, <1>2, <1>3, <1>4, <2>4, StillStep
<1>5. CASE ~ Verified(job.version) /\ Throw("document_invalid")
  <2>1. ~ Within("point")
    <3>1. Rewinds
      BY <1>1, <1>2, <1>5, WherePublish, WrittenCodes, Throwing DEF Inv, Control, PublishLabels
    <3>2. run'.at # "point"
      BY <1>1, <3>1, WherePublish DEF Rewinds, First
    <3> QED
      BY <1>2, <3>2, Moving DEF Inv, Control
  <2> QED
    BY <1>1, <1>2, <1>3, <1>5, <2>1, WrittenCodes, StillStep
<1> QED
  BY <1>4, <1>5 DEF Verify

LEMMA HostsFacts ==
  /\ Len(Hosts) \in Nat \ {0}
  /\ \A i \in 1..Len(Hosts) : Hosts[i] \in Host
  /\ \A h \in Host : \E i \in 1..Len(Hosts) : h = Hosts[i]
BY HostsAssumption DEF Host

LEMMA FlipStep == Inv /\ Flip => Data' /\ Control'
<1> SUFFICES ASSUME Inv, Flip PROVE Data' /\ Control'
  OBVIOUS
<1> DEFINE h == Hosts[run.host]
<1>1. /\ Awake /\ run.at = "flip" /\ run.at \in PublishLabels
      /\ PutRoutingPointer(h, job.version, run.index) /\ UNCHANGED <<job, clock>>
  BY DEF Flip, At, Awake, PublishLabels
<1>2. /\ Cur = "publish" /\ instance.memo = 11 /\ Reached /\ Advanced
      /\ PublishLabels \subseteq Body(Cur) /\ PublishLabels \cup {"return"} \subseteq Labels
      /\ run.at \notin {"fail", "tell"} /\ job.version # 0 /\ run.index \in IndexStates
  BY <1>1, WherePublish
<1>3. /\ Complete(job.version) /\ site.published = job.version
      /\ run.host \in 1..Len(Hosts)
      /\ \A i \in 1..(run.host - 1) : routing[Hosts[i]] # Null
  BY <1>1, <1>2 DEF Reached
<1>4. h \in Host
  BY <1>3, HostsFacts
<1> HIDE DEF h
<1>5. /\ Data' /\ routing'[h] # Null
      /\ \A g \in Host : routing[g] # Null => routing'[g] # Null
      /\ UNCHANGED <<rows, objects, sitemap, site, job>>
  BY <1>1, <1>2, <1>3, <1>4, FlipData DEF Inv
<1>6. clock' \in Nat
  BY <1>1 DEF Inv, Control, ControlType
<1>7. ASSUME instance'.memo = 11 PROVE Advanced'
  BY <1>1, <1>2, <1>7 DEF Advanced
<1>8. CASE /\ UNCHANGED instance
           /\ run' = [run EXCEPT !.host = @ + 1,
                                 !.at = IF run.host = Len(Hosts) THEN "return" ELSE @]
  <2>1. /\ run' \in Memory /\ run'.host = run.host + 1
        /\ run'.at = IF run.host = Len(Hosts) THEN "return" ELSE "flip"
    <3>1. run \in Memory /\ run.host + 1 \in Nat /\ "return" \in Labels
      BY <1>2, <1>3 DEF Inv, Control, ControlType
    <3> QED
      BY <1>1, <1>8, <3>1 DEF Memory
  <2>2. \A i \in 1..run.host : routing'[Hosts[i]] # Null
    <3>1. ASSUME NEW i \in 1..run.host PROVE routing'[Hosts[i]] # Null
      <4>1. Hosts[i] \in Host
        BY <1>3, HostsFacts
      <4>2. CASE i = run.host
        BY <1>5, <4>2 DEF h
      <4>3. CASE i # run.host
        <5>1. i \in 1..(run.host - 1)
          BY <1>3, <4>3, HostsFacts
        <5> QED
          BY <1>3, <1>5, <4>1, <5>1
      <4> QED
        BY <4>2, <4>3
    <3> QED
      BY <3>1
  <2>3. CASE run.host = Len(Hosts)
    <3>1. Live'
      <4>1. \A g \in Host : routing'[g] # Null
        BY <2>2, <2>3, HostsFacts
      <4> QED
        BY <1>2, <1>5, <4>1 DEF Data, Live
    <3>2. Reached'
      BY <1>2, <1>8, <2>1, <2>3, <3>1 DEF Reached, PublishLabels, Cur
    <3> QED
      BY <1>1, <1>2, <1>5, <1>6, <1>7, <1>8, <2>1, <2>3, <3>2, Stepped DEF Inv
  <2>4. CASE run.host # Len(Hosts)
    <3>1. run'.at = "flip" /\ run'.host \in 1..Len(Hosts) /\ run'.host - 1 = run.host
      BY <1>3, <2>1, <2>4, HostsFacts
    <3>2. Complete(job.version)'
      BY <1>3, <1>5 DEF Complete, Verified
    <3>3. Reached'
      BY <1>3, <1>5, <2>2, <3>1, <3>2 DEF Reached, PublishLabels
    <3> QED
      BY <1>1, <1>2, <1>5, <1>6, <1>7, <1>8, <2>1, <3>1, <3>3, Stepped DEF Inv, PublishLabels
  <2> QED
    BY <2>3, <2>4
<1>9. CASE Throw("transport")
  <2>1. Advanced'
    BY <1>1, <1>2, <1>7, <1>9, WrittenCodes, MemoStays DEF Inv
  <2> QED
    BY <1>1, <1>2, <1>5, <1>6, <1>9, <2>1, WrittenCodes, ThrowStep DEF Inv
<1> QED
  BY <1>8, <1>9 DEF Flip

----------------------------------------------------------------------------
\* The steps that close the job, and what happens between the steps of run().
LEMMA FinishStep == Inv /\ Finish => Data' /\ Control'
<1> SUFFICES ASSUME Inv, Finish PROVE Data' /\ Control'
  OBVIOUS
<1>1. /\ Awake /\ run.at = "finish" /\ UNCHANGED <<rows, objects, sitemap, site, routing, clock>>
      /\ job' = IF job.status \in {"running", "streaming"} THEN [job EXCEPT !.status = "succeeded"]
                ELSE job
      /\ Within("announce") \/ Throw("transport")
  BY DEF Finish, At, Awake, publishVars
<1>2. /\ Cur = "finalise" /\ "announce" \in Body(Cur) /\ "announce" \in Labels
      /\ instance.memo = 12 /\ Advanced
  BY <1>1, Where DEF Inv, Body, ModelSteps, Labels
<1>3. job \in JobRow /\ job.version # 0 /\ job.status \in {"streaming", "succeeded"}
  BY <1>2 DEF Inv, Data, DataType, JobRow, Closed, Advanced
<1>4. job' \in JobRow /\ job'.version = job.version /\ job'.status = "succeeded"
  BY <1>1, <1>3 DEF JobRow, Closed
<1>5. Data'
  BY <1>1, <1>4 DEF Inv, Data, DataType, Complete, Verified
<1>6. instance'.memo = 12
  BY <1>1, <1>2, WrittenCodes, MemoStays DEF Inv
<1>7. Advanced'
  BY <1>1, <1>2, <1>4, <1>6 DEF Advanced, Live
<1>8. clock' \in Nat /\ run.at \notin {"fail", "tell"}
  BY <1>1 DEF Inv, Control, ControlType
<1>9. CASE Within("announce")
  <2>1. instance' = instance /\ run' \in Memory /\ run'.at = "announce"
    BY <1>2, <1>9, Moving DEF Inv, Control
  <2>2. Reached'
    BY <2>1 DEF Reached, PublishLabels
  <2> QED
    BY <1>1, <1>2, <1>5, <1>7, <1>8, <2>1, <2>2, Stepped DEF Inv
<1>10. CASE Throw("transport")
  BY <1>1, <1>5, <1>7, <1>8, <1>10, WrittenCodes, ThrowStep DEF Inv
<1> QED
  BY <1>1, <1>9, <1>10

LEMMA AnnounceStep == Inv /\ Announce => Data' /\ Control'
<1> SUFFICES ASSUME Inv, Announce PROVE Data' /\ Control'
  OBVIOUS
<1>1. Awake /\ run.at = "announce" /\ Still /\ clock' = clock /\ Within("return")
  BY DEF Announce, At, Awake, Still, publishVars
<1>2. Cur = "finalise" /\ "return" \in Labels
  BY <1>1, Where DEF Inv, Body, ModelSteps, Labels
<1>3. run'.at = "return" /\ Cur' = Cur
  BY <1>1, <1>2, Moving DEF Inv, Control, Cur
<1>4. Reached'
  BY <1>2, <1>3 DEF Reached, PublishLabels
<1> QED
  BY <1>1, <1>2, <1>4, StillStep DEF Inv, Control, ControlType

\* The terminal handler is entered by a run that failed, and by no other.
LEMMA Failing ==
  ASSUME Inv, Awake, run.at \in {"fail", "tell"}
  PROVE  instance.failed
<1>1. Body(Cur) \cap {"fail", "tell", "return"} = {}
  BY DEF Body, ModelSteps
<1> QED
  BY <1>1 DEF Inv, Control, ControlType, Instance

LEMMA FinalCode == Inv => Final \in Codes
BY WrittenCodes DEF Final, Inv, Control, ControlType, Memory

LEMMA FailStep == Inv /\ FailJob => Data' /\ Control'
<1> SUFFICES ASSUME Inv, FailJob PROVE Data' /\ Control'
  OBVIOUS
<1>1. /\ Awake /\ run.at = "fail" /\ Within("tell")
      /\ UNCHANGED <<rows, objects, sitemap, site, routing, clock>>
      /\ job' = FinishFailed(Final) \/ job' = job
  BY DEF FailJob, At, Awake, publishVars
<1>2. instance.failed
  BY <1>1, Failing
<1>3. instance' = instance /\ run' \in Memory /\ run'.at = "tell"
  BY <1>1, Moving DEF Inv, Control, Labels
<1>4. Control'
  BY <1>1, <1>2, <1>3 DEF Inv, Control, ControlType, Awake
<1>5. /\ job' \in JobRow /\ job'.version = job.version
      /\ job' = job \/ job'.status \in {"failed", "timed_out"}
  <2>1. job \in JobRow /\ StatusOf(Final) \in {"failed", "timed_out"}
    BY DEF Inv, Data, DataType, StatusOf
  <2>2. CASE job' = job
    BY <2>1, <2>2
  <2>3. CASE job' = [job EXCEPT !.status = StatusOf(Final), !.code = Final]
    BY <2>1, <2>3, FinalCode DEF JobRow, Closed
  <2> QED
    BY <1>1, <2>2, <2>3 DEF FinishFailed
<1>6. Data'
  BY <1>1, <1>5 DEF Inv, Data, DataType, Complete, Verified
<1> QED
  BY <1>4, <1>6

LEMMA TellStep == Inv /\ TellError => Data' /\ Control'
<1> SUFFICES ASSUME Inv, TellError PROVE Data' /\ Control'
  OBVIOUS
<1>1. /\ Still /\ clock' = clock /\ run' = Off
      /\ instance' = [instance EXCEPT !.state = "ended"]
  BY DEF TellError, Still, publishVars
<1>2. instance' \in Instance /\ instance'.state = "ended"
  BY <1>1 DEF Inv, Control, ControlType, Instance
<1> QED
  BY <1>1, <1>2, OffType, DataStays DEF Inv, Still, Control, ControlType, Awake

LEMMA EvictStep == Inv /\ Evict => Data' /\ Control'
<1> SUFFICES ASSUME Inv, Evict PROVE Data' /\ Control'
  OBVIOUS
<1>1. /\ Awake /\ Still /\ clock' = clock /\ run' = Off
      /\ instance' = [instance EXCEPT !.state = "asleep"]
  BY DEF Evict, Awake, Still, publishVars
<1>2. /\ instance' \in Instance /\ instance'.state = "asleep" /\ instance'.memo = instance.memo
      /\ instance'.failed = instance.failed
  BY <1>1 DEF Inv, Control, ControlType, Instance
<1>3. Advanced => Advanced'
  BY <1>1, <1>2, AdvancedStays DEF Still
<1> QED
  BY <1>1, <1>2, <1>3, OffType, DataStays DEF Inv, Still, Control, ControlType, Awake

LEMMA StartStep == Inv /\ Start => Data' /\ Control'
<1> SUFFICES ASSUME Inv, Start PROVE Data' /\ Control'
  OBVIOUS
<1> DEFINE at == IF instance.failed THEN "fail" ELSE First(Cur)
<1>1. /\ instance.state = "asleep" /\ Still /\ clock' = clock
      /\ instance' = [instance EXCEPT !.state = "awake"] /\ run' = [Off EXCEPT !.at = at]
  BY DEF Start, Still, publishVars
<1>2. instance.memo \in 0..12 /\ Cur \in Steps
  BY <1>1, PipelineFacts DEF Inv, Control, ControlType, Instance, Cur
<1>3. at \in Labels
  BY <1>2, FirstInBody DEF Labels
<1> HIDE DEF at
<1>4. /\ instance' \in Instance /\ instance'.state = "awake" /\ instance'.memo = instance.memo
      /\ instance'.failed = instance.failed /\ Cur' = Cur
  BY <1>1 DEF Inv, Control, ControlType, Instance, Cur
<1>5. run' \in Memory /\ run'.at = at /\ run'.host = 1
  BY <1>1, <1>3, OffType DEF Memory
<1>6. Advanced => Advanced'
  BY <1>1, <1>4, AdvancedStays DEF Still
<1>7. ~ instance.failed => run'.at \in Body(Cur') /\ Reached'
  BY <1>2, <1>4, <1>5, FirstInBody DEF at, Reached, PublishLabels
<1>8. Control'
  BY <1>1, <1>2, <1>4, <1>5, <1>6, <1>7 DEF at, Inv, Control, ControlType, Awake
<1> QED
  BY <1>1, <1>8, DataStays DEF Inv, Still

LEMMA IndexStep == Inv /\ IndexMoves => Data' /\ Control'
<1> SUFFICES ASSUME Inv, IndexMoves PROVE Data' /\ Control'
  OBVIOUS
<1>1. PICK state \in IndexStates : SetIndexState(state)
  BY DEF IndexMoves
<1>2. /\ UNCHANGED <<rows, objects, sitemap, routing, instance, run, job, clock>>
      /\ site' = [site EXCEPT !.index = state]
  BY <1>1 DEF IndexMoves, SetIndexState, runVars
<1>3. site' \in [published : Nat, index : IndexStates] /\ site'.published = site.published
  BY <1>2 DEF Inv, Data, DataType
<1>4. Complete(job.version)' = Complete(job.version)
  BY <1>2 DEF Complete, Verified
<1>5. Data'
  BY <1>2, <1>3, <1>4 DEF Inv, Data, DataType
<1>6. Reached' = Reached /\ Advanced' = Advanced
  <2>1. Live' = Live /\ Cur' = Cur
    BY <1>2 DEF Live, Cur
  <2> QED
    BY <1>2, <1>3, <1>4, <2>1 DEF Reached, Advanced
<1>7. Control'
  BY <1>2, <1>6 DEF Inv, Control, ControlType, Awake, Cur
<1> QED
  BY <1>5, <1>7

----------------------------------------------------------------------------
LEMMA InitInv == Init => Inv
<1> SUFFICES ASSUME Init PROVE Inv
  OBVIOUS
<1>1. /\ rows = <<>> /\ objects = {} /\ sitemap = <<>>
      /\ site = [published |-> 0, index |-> "noindex"] /\ routing = [h \in Host |-> Null]
      /\ instance = [state |-> "asleep", memo |-> 0, retries |-> 0, failed |-> FALSE]
      /\ run = Off /\ job = [status |-> "queued", version |-> 0, code |-> Null]
      /\ calls = <<>> /\ clock = 0
  BY DEF Init, PublishInit
<1>2. DataType
  BY <1>1 DEF DataType, VersionRow, IndexStates, JobRow, Closed
<1>3. Data
  BY <1>1, <1>2 DEF Data
<1>4. Control
  BY <1>1, OffType DEF Control, ControlType, Instance, Advanced, Awake
<1>5. Rows
  BY <1>1 DEF Rows
<1> QED
  BY <1>3, <1>4, <1>5 DEF Inv

\* One step of each action, and the steps that change nothing.
LEMMA NextInv == Inv /\ [Next]_vars => Inv'
<1> SUFFICES ASSUME Inv, [Next]_vars PROVE Inv'
  OBVIOUS
<1>1. CASE Next
  <2>1. Rows'
    BY <1>1, CallsStep DEF Inv
  <2>2. CASE Start \/ Return \/ Refused \/ ModelStep
    BY <2>1, <2>2, StartStep, ReturnStep, RefusedStep, ModelStepInv DEF Inv
  <2>3. CASE BuildStep
    BY <2>1, <2>3, ClaimStep, ArtifactStep, AssembleStep, AttachStep, AuditStep, RenderStep
       DEF BuildStep, Inv
  <2>4. CASE PublishStep
    BY <2>1, <2>4, ReadSiteStep, StoringStep, VerifyStep, FlipStep DEF PublishStep, Inv
  <2>5. CASE Outcome
    BY <2>1, <2>5, FinishStep, AnnounceStep, FailStep, TellStep DEF Outcome, Inv
  <2>6. CASE Evict \/ IndexMoves
    BY <2>1, <2>6, EvictStep, IndexStep DEF Inv
  <2> QED
    BY <1>1, <2>2, <2>3, <2>4, <2>5, <2>6 DEF Next, Step
<1>2. CASE UNCHANGED vars
  <2>1. Still /\ UNCHANGED <<instance, run, clock, calls>>
    BY <1>2 DEF vars, publishVars, runVars, Still
  <2>2. Reached' = Reached /\ Advanced' = Advanced
    <3>1. Live' = Live /\ Cur' = Cur /\ Complete(job.version)' = Complete(job.version)
      BY <2>1 DEF Live, Cur, Still, Complete, Verified
    <3> QED
      BY <2>1, <3>1 DEF Reached, Advanced, Still
  <2>3. Control' /\ Rows'
    BY <2>1, <2>2 DEF Inv, Control, ControlType, Awake, Cur, Rows
  <2> QED
    BY <2>1, <2>3, DataStays DEF Inv, Still
<1> QED
  BY <1>1, <1>2

(***************************************************************************)
(* What the stores hold, and where run() stands in relation to it, hold of *)
(* every run.                                                              *)
(***************************************************************************)
THEOREM InvHolds == Spec => []Inv
<1> QED
  BY InitInv, NextInv, PTL DEF Spec

LEMMA WholeWhenRouted == Inv => LiveIsWhole
<1> SUFFICES ASSUME Inv, NEW h \in Host, routing[h] # Null PROVE Whole(h)
  BY DEF LiveIsWhole
<1> DEFINE v == job.version
<1>1. routing[h].live = v /\ site.published = v /\ v \in 1..Len(rows)
  BY DEF Inv, Data, DataType
<1>2. Complete(v)
  BY <1>1 DEF Inv, Data
<1>3. rows[v].pages # 0 /\ <<v, "sitedoc">> \in objects
  BY <1>1, <1>2 DEF Inv, Data, Complete
<1> QED
  BY <1>1, <1>2, <1>3 DEF Whole, Complete, Verified, Objects, Rendered

(***************************************************************************)
(* A host never points at half a site: publishVersion() verifies, names    *)
(* the version in the control plane, and only then flips, whatever attempt *)
(* of whatever step did the writes it finds.                               *)
(***************************************************************************)
THEOREM LiveIsWholeCorrect == Spec => []LiveIsWhole
<1> QED
  BY InvHolds, WholeWhenRouted, PTL

----------------------------------------------------------------------------
\* What a step of the run is for the reader of the job row.
Seen == [Abstract!Next]_(Abstract!vars)

LEMMA Unseen ==
  ASSUME UNCHANGED <<job, routing>>
  PROVE  Seen
<1>1. job'.status = job.status /\ Live' = Live
  BY DEF Live
<1> QED
  BY <1>1 DEF Seen, Abstract!vars

LEMMA ClaimSeen == Inv /\ Claim => Seen
<1> SUFFICES ASSUME Inv, Claim PROVE Seen
  OBVIOUS
<1>1. /\ job \in JobRow /\ routing' = routing
      /\ job' = [job EXCEPT !.status = IF @ = "queued" THEN "running" ELSE @]
  BY DEF Claim, publishVars, Inv, Data, DataType
<1>2. /\ job'.version = job.version
      /\ job'.status = IF job.status = "queued" THEN "running" ELSE job.status
  BY <1>1 DEF JobRow
<1>3. Live' = Live
  BY <1>1, <1>2 DEF Live
<1> QED
  BY <1>2, <1>3 DEF Seen, Abstract!vars, Abstract!Next, Abstract!Claim

LEMMA AttachSeen == Inv /\ AttachVersion => Seen
<1> SUFFICES ASSUME Inv, AttachVersion PROVE Seen
  OBVIOUS
<1>1. /\ Awake /\ run.at = "attach" /\ routing' = routing
      /\ job' = IF job.status \in {"running", "streaming"}
                THEN [job EXCEPT !.status = "streaming", !.version = Len(rows)] ELSE job
  BY DEF AttachVersion, At, Awake, publishVars
<1>2. Cur = "assemble" /\ instance.memo = 8 /\ Reached /\ Advanced
  BY <1>1, Where DEF Inv, Body, ModelSteps
<1>3. job.version = 0 /\ job \in JobRow
  BY <1>1, <1>2 DEF Reached, PublishLabels, Inv, Data, DataType
<1>4. job.status = "running"
  BY <1>2, <1>3 DEF Inv, Data, JobRow, Closed, Advanced
<1>5. job'.status = "streaming"
  BY <1>1, <1>3, <1>4 DEF JobRow
<1>6. Live = FALSE /\ Live' = FALSE
  <2>1. Hosts[1] \in Host
    BY HostsFacts
  <2>2. routing'[Hosts[1]] = Null
    BY <1>1, <1>3, <2>1 DEF Inv, Data
  <2> QED
    BY <1>3, <2>1, <2>2 DEF Live
<1> QED
  BY <1>4, <1>5, <1>6 DEF Seen, Abstract!Next, Abstract!Build

\* The flip of the last host is the moment the website goes public.
LEMMA FlipSeen == Inv /\ Flip => Seen
<1> SUFFICES ASSUME Inv, Flip PROVE Seen
  OBVIOUS
<1> DEFINE h == Hosts[run.host]
<1>1. /\ Awake /\ run.at = "flip" /\ run.at \in PublishLabels /\ job' = job
      /\ PutRoutingPointer(h, job.version, run.index)
  BY DEF Flip, At, Awake, PublishLabels
<1>2. /\ instance.memo = 11 /\ Reached /\ Advanced /\ job.version # 0
      /\ run.index \in IndexStates
  BY <1>1, WherePublish
<1>3. site.published = job.version /\ run.host \in 1..Len(Hosts)
  BY <1>1, <1>2 DEF Reached
<1>4. h \in Host
  BY <1>3, HostsFacts
<1> HIDE DEF h
<1>5. Data' /\ \A g \in Host : routing[g] # Null => routing'[g] # Null
  BY <1>1, <1>2, <1>3, <1>4, FlipData DEF Inv
<1>6. job.status = "streaming"
  BY <1>2 DEF Inv, Data, DataType, JobRow, Closed, Advanced
<1>7. Live => Live'
  BY <1>1, <1>2, <1>5 DEF Data, Live
<1>8. Live \in BOOLEAN /\ Live' \in BOOLEAN
  BY DEF Live
<1>9. CASE Live' = Live
  BY <1>1, <1>9 DEF Seen, Abstract!vars
<1>10. CASE ~ Live /\ Live'
  <2>1. Live' = TRUE
    BY <1>8, <1>10
  <2> QED
    BY <1>1, <1>6, <1>10, <2>1 DEF Seen, Abstract!Next, Abstract!GoLive
<1> QED
  BY <1>7, <1>8, <1>9, <1>10

LEMMA FinishSeen == Inv /\ Finish => Seen
<1> SUFFICES ASSUME Inv, Finish PROVE Seen
  OBVIOUS
<1>1. /\ Awake /\ run.at = "finish" /\ routing' = routing
      /\ job' = IF job.status \in {"running", "streaming"} THEN [job EXCEPT !.status = "succeeded"]
                ELSE job
  BY DEF Finish, At, Awake, publishVars
<1>2. instance.memo = 12 /\ Advanced
  BY <1>1, Where DEF Inv, Body, ModelSteps
<1>3. job \in JobRow /\ job.status \in {"streaming", "succeeded"} /\ Live
  BY <1>2 DEF Inv, Data, DataType, JobRow, Closed, Advanced
<1>4. job'.version = job.version /\ job'.status = "succeeded"
  BY <1>1, <1>3 DEF JobRow
<1>5. Live' = Live
  BY <1>1, <1>4 DEF Live
<1> QED
  BY <1>3, <1>4, <1>5 DEF Seen, Abstract!vars, Abstract!Next, Abstract!Succeed

LEMMA FailSeen == Inv /\ FailJob => Seen
<1> SUFFICES ASSUME Inv, FailJob PROVE Seen
  OBVIOUS
<1>1. routing' = routing /\ job \in JobRow /\ (job' = FinishFailed(Final) \/ job' = job)
  BY DEF FailJob, publishVars, Inv, Data, DataType
<1>2. CASE job' = job
  BY <1>1, <1>2, Unseen
<1>3. CASE /\ job.status \notin Closed
           /\ job' = [job EXCEPT !.status = StatusOf(Final), !.code = Final]
  <2>1. /\ job'.version = job.version /\ job'.status = StatusOf(Final)
        /\ StatusOf(Final) \in {"failed", "timed_out"}
    BY <1>1, <1>3 DEF JobRow, StatusOf
  <2>2. Live' = Live
    BY <1>1, <2>1 DEF Live
  <2> QED
    BY <1>3, <2>1, <2>2 DEF Seen, Abstract!Next, Abstract!Fail, Abstract!Closed, Closed
<1> QED
  BY <1>1, <1>2, <1>3 DEF FinishFailed

LEMMA StepSeen == Inv /\ [Next]_vars => Seen
<1> SUFFICES ASSUME Inv, [Next]_vars PROVE Seen
  OBVIOUS
<1>1. CASE Start \/ Return \/ Refused \/ ModelStep \/ Evict \/ IndexMoves \/ UNCHANGED vars
  BY <1>1, Unseen DEF Start, Return, Refused, ModelStep, OpenCall, Call, CloseCall,
     FinishCallFromError, Rethrow, Evict, IndexMoves, SetIndexState, vars, publishVars, runVars
<1>2. CASE Artifact \/ ResolveVersion \/ Report \/ Quality \/ RenderPage \/ RenderRoot
  BY <1>2, Unseen DEF Artifact, ResolveVersion, InsertSiteVersion, Report, Quality, RenderPage,
     RenderRoot, PutObject, publishVars
<1>3. CASE ReadSite \/ PutSiteDoc \/ WriteProjection \/ Seal \/ PutDerived \/ Verify \/ SetPublished
  BY <1>3, Unseen DEF ReadSite, PutSiteDoc, WriteProjection, Seal, PutDerived, Verify,
     SetPublished, PutObject, WritePages, SealVersion, PutSitemap, SetPublishedVersion, publishVars
<1>4. CASE Announce \/ TellError
  BY <1>4, Unseen DEF Announce, TellError, publishVars
<1>5. CASE Claim \/ AttachVersion \/ Flip \/ Finish \/ FailJob
  BY <1>5, ClaimSeen, AttachSeen, FlipSeen, FinishSeen, FailSeen
<1> QED
  BY <1>1, <1>2, <1>3, <1>4, <1>5 DEF Next, Step, BuildStep, PublishStep, Outcome

LEMMA InitSeen == Init => Abstract!Init
<1> SUFFICES ASSUME Init PROVE job.status = "queued" /\ Live = FALSE
  BY DEF Abstract!Init
<1> QED
  BY DEF Init, Live

(***************************************************************************)
(* Whatever is retried, refused or evicted, and however often, the job row *)
(* and the routing behave as Run: the run is claimed once, goes public     *)
(* while it is building, succeeds only once every host is routed to its    *)
(* version, and never leaves the status it ended in.                       *)
(***************************************************************************)
THEOREM ImplementsRun == Spec => IsRun
<1>1. Inv /\ [Next]_vars => [Abstract!Next]_(Abstract!vars)
  BY StepSeen DEF Seen
<1> QED
  BY <1>1, InitSeen, InvHolds, PTL DEF Spec, IsRun, Abstract!Spec

----------------------------------------------------------------------------
\* The ledger of calls, what became of a refusal, and what the customer was told.
CallRow == [step : {"structure", "copy", "blog"}, attempt : Nat \ {0},
            outcome : {"open", "ok", "refused", "failed"}]

Attempts(c, step) == {i \in DOMAIN c : c[i].step = step}

\* The run knows the row it has open, the latest one, and no row is numbered above
\* how many its step has.
Ledgered ==
  /\ calls \in Seq(CallRow)
  /\ run.call \in {0, Len(calls)} /\ (~ Awake => run.call = 0)
  /\ run.at = "call" => run.call # 0
  /\ run.call # 0 /\ run.at \notin {"call", "close", "ledger"} => calls[run.call].outcome # "open"
  /\ \A i \in 1..Len(calls) : calls[i].attempt <= Cardinality(Attempts(calls, calls[i].step))
  /\ LedgerIsComplete

\* A refusal is on its way to the terminal handler, or has reached the job row,
\* or an eviction took it from there.
ActedOn(i) ==
  \/ /\ Awake /\ ~ instance.failed
     /\ run.at \in {"ledger", "raise"} /\ run.pending = "model_refusal" /\ run.call = i
  \/ Awake /\ instance.failed /\ run.decision = "model_refusal"
  \/ instance.failed /\ blurred # {}
  \/ Ended /\ job.code = "model_refusal"

Refusing ==
  /\ 0 \notin refusals
  /\ \A i \in refusals \ lost : i = Len(calls) /\ ActedOn(i)

\* Nothing is told before the row says it, and only the two handlers that close a
\* job stand between its row and its end.
Telling ==
  /\ "done" \in told => job.status = "succeeded"
  /\ job.status = "succeeded" => Live
  /\ Awake /\ run.at = "announce" => job.status = "succeeded"
  /\ \A code \in told \ {"done"} :
       Ended /\ ((job.code = code /\ job.status = StatusOf(code)) \/ blurred # {})
  /\ blurred = {} /\ ~ Ended /\ job.status \in Closed =>
       Awake /\ (run.at = "tell" \/ (run.at \in {"announce", "return"} /\ ~ instance.failed))
  /\ Awake /\ run.at = "tell" /\ blurred = {} => job.code = Final /\ job.status = StatusOf(Final)

Accounts == Ledgered /\ Refusing /\ Telling

----------------------------------------------------------------------------
\* What a row of the ledger holds.
LEMMA RowHolds ==
  ASSUME calls \in Seq(CallRow), NEW i \in 1..Len(calls)
  PROVE  /\ calls[i] \in CallRow /\ calls[i].attempt \in Nat
         /\ calls[i].outcome \in {"open", "ok", "refused", "failed"}
<1>1. calls[i] \in CallRow
  OBVIOUS
<1> QED
  BY <1>1 DEF CallRow

\* The rows of a step can be counted.
LEMMA AttemptsFinite ==
  ASSUME calls \in Seq(CallRow), NEW step
  PROVE  IsFiniteSet(Attempts(calls, step)) /\ Cardinality(Attempts(calls, step)) \in Nat
<1>1. DOMAIN calls = 1..Len(calls) /\ Len(calls) \in Nat
  OBVIOUS
<1>2. IsFiniteSet(1..Len(calls)) /\ Attempts(calls, step) \in SUBSET (1..Len(calls))
  BY <1>1, FS_Interval DEF Attempts
<1> QED
  BY <1>2, FS_Subset, FS_CardinalityType

\* A throw keeps the row of a call until the ledger has closed it; a refusal that
\* is raised ends the run.
LEMMA RaiseLeaves ==
  ASSUME ControlType, ~ instance.failed, Awake, NEW code \in Codes \cup {Null}, Raise(code)
  PROVE  /\ run'.call = 0 /\ Awake'
         /\ run'.at = "fail" \/ run'.at = First(Cur)
         /\ code = "model_refusal" /\ Cur # "finalise" =>
              instance'.failed /\ run'.decision = "model_refusal"
<1> DEFINE decision == IF Cur # "finalise" THEN code ELSE run.decision
<1>1. CASE /\ instance' = [instance EXCEPT !.retries = @ + 1]
           /\ run' = [Off EXCEPT !.at = First(Cur), !.decision = decision]
           /\ Cur # "finalise" => Retryable(code)
  BY <1>1 DEF ControlType, Instance, Awake, Off, Retryable, Terminal, Policy
<1>2. CASE /\ instance' = [instance EXCEPT !.failed = TRUE]
           /\ run' = [Off EXCEPT !.at = "fail", !.decision = decision]
  BY <1>2 DEF ControlType, Instance, Awake, Off
<1> QED
  BY <1>1, <1>2 DEF Raise

LEMMA ThrowLeaves ==
  ASSUME ControlType, ~ instance.failed, Awake, NEW code \in Codes \cup {Null}, Throw(code)
  PROVE  /\ Awake'
         /\ \/ /\ InTry /\ instance' = instance /\ run'.at = "ledger" /\ run'.pending = code
               /\ run'.call = run.call
            \/ ~ InTry /\ run'.call = 0 /\ (run'.at = "fail" \/ run'.at = First(Cur))
<1>1. CASE InTry
  BY <1>1 DEF Throw, ControlType, Memory, Awake
<1>2. CASE ~ InTry
  BY <1>2, RaiseLeaves DEF Throw
<1> QED
  BY <1>1, <1>2

\* The first label of a step is none of those a refusal or an outcome is in.
LEMMA FirstIsPlain ==
  ASSUME Control, Awake, run.at \notin {"fail", "tell"}
  PROVE  First(Cur) \notin {"call", "close", "ledger", "raise", "announce", "return", "tell", "fail"}
BY Where, FirstInBody

\* While a run is elsewhere than with its ledger or its outcome, every refusal it
\* had is one of a row it lost track of.
LEMMA NoRefusalPending ==
  ASSUME Refusing, Awake, ~ instance.failed, run.at \notin {"ledger", "raise"}
  PROVE  refusals \subseteq lost
BY DEF Refusing, ActedOn, Awake, Ended

\* Steps that say nothing to the customer and close no job.
LEMMA TellingStays ==
  ASSUME Inv, Telling, Awake, run.at \notin {"announce", "return", "tell"},
         UNCHANGED <<told, blurred>>,
         job' = job \/ {job.status, job'.status} \cap Closed = {},
         job.status = "succeeded" => Live',
         Awake', run'.at \notin {"announce", "tell"}
  PROVE  Telling'
<1>1. told \subseteq {"done"} /\ ~ Ended /\ ~ Ended'
  BY DEF Telling, Awake, Ended
<1>2. blurred = {} => job.status \notin Closed
  BY <1>1 DEF Telling
<1>3. "succeeded" \in Closed
  BY DEF Closed
<1> QED
  BY <1>1, <1>2, <1>3 DEF Telling, Awake

\* A row the run has closed, or loses track of, may be forgotten.
LEMMA KeptLedger ==
  ASSUME Ledgered, calls' = calls, lost \subseteq lost', run'.at # "call",
         Awake' \/ run'.call = 0,
         \/ run'.call = run.call /\ (run'.at \in {"close", "ledger"} \/ run.at \notin {"call", "close", "ledger"})
         \/ run'.call = 0 /\ (run.at \notin {"call", "close", "ledger"} \/ run.call \in lost' \cup {0})
  PROVE  Ledgered'
<1>1. \A step : Attempts(calls', step) = Attempts(calls, step)
  BY DEF Attempts
<1>2. LedgerIsComplete'
  <2>1. \A i \in DOMAIN calls : calls[i].outcome = "open" => i \in lost' \cup {run'.call}
    BY DEF Ledgered, LedgerIsComplete
  <2> QED
    BY <2>1 DEF Ledgered, LedgerIsComplete
<1>3. run'.call # 0 /\ run'.at \notin {"call", "close", "ledger"} => calls[run'.call].outcome # "open"
  BY DEF Ledgered
<1> QED
  BY <1>1, <1>2, <1>3 DEF Ledgered

\* Steps of the body that leave the ledger alone: run() goes on, or throws.
GoesOn ==
  /\ run.at \notin {"call", "close"}
  /\ instance' = instance /\ run'.call = run.call
  /\ run'.at \notin {"call", "close", "ledger", "raise", "announce", "fail", "tell"}

LEMMA PlainStep ==
  ASSUME Inv, Accounts, Awake,
         run.at \notin {"ledger", "raise", "announce", "return", "fail", "tell"},
         UNCHANGED <<calls, told, lost, refusals, blurred>>,
         job' = job \/ {job.status, job'.status} \cap Closed = {},
         job.status = "succeeded" => Live',
         GoesOn \/ \E code \in Codes : Throw(code)
  PROVE  Accounts'
<1>1. ControlType /\ ~ instance.failed /\ refusals \subseteq lost
  BY Where, NoRefusalPending DEF Inv, Control, Accounts
<1>2. /\ Awake' /\ run'.at \notin {"call", "close", "announce", "tell"}
      /\ \/ run'.call = run.call /\ (run'.at = "ledger" \/ run.at \notin {"call", "close"})
         \/ run'.call = 0 /\ run.at \notin {"call", "close"}
  <2>1. CASE GoesOn
    BY <2>1 DEF GoesOn, Awake
  <2>2. ASSUME NEW code \in Codes, Throw(code)
        PROVE  /\ Awake' /\ run'.at \notin {"call", "close", "announce", "tell"}
               /\ \/ run'.call = run.call /\ run'.at = "ledger"
                  \/ run'.call = 0 /\ run.at \notin {"call", "close"}
    <3>1. run.at \in {"call", "close"} => InTry
      BY Where DEF Inv, InTry, Body, Steps
    <3> QED
      BY <1>1, <2>2, <3>1, ThrowLeaves, FirstIsPlain DEF Inv
  <2> QED
    BY <2>1, <2>2
<1>3. Ledgered'
  <2>1. run'.call = run.call => run'.at = "ledger" \/ run.at \notin {"call", "close", "ledger"}
    BY <1>2
  <2> QED
    BY <1>2, <2>1, KeptLedger DEF Accounts
<1>4. Refusing'
  BY <1>1 DEF Accounts, Refusing
<1>5. Telling'
  BY <1>2, TellingStays DEF Accounts
<1> QED
  BY <1>3, <1>4, <1>5 DEF Accounts

----------------------------------------------------------------------------
\* A row that is inserted takes the next number of its step, and is the run's or
\* lost.
LEMMA OpenCallAccounts == ASSUME Inv, Accounts, OpenCall PROVE Accounts'
<1> DEFINE step == Ledger(Cur)
<1> DEFINE row == [step |-> step, attempt |-> NextAttempt(step), outcome |-> "open"]
<1>1. /\ Awake /\ run.at = "open" /\ UNCHANGED <<job, routing, told, refusals, blurred>>
      /\ calls' = Append(calls, row)
  BY DEF OpenCall, At, Awake, publishVars
<1>2. ControlType /\ ~ instance.failed /\ Cur \in ModelSteps /\ refusals \subseteq lost
  <2>1. Cur \in Steps /\ "open" \in Body(Cur) /\ ~ instance.failed
    BY <1>1, Where DEF Inv
  <2> QED
    BY <1>1, <2>1, NoRefusalPending DEF Body, Accounts, Inv, Control
<1>3. /\ calls \in Seq(CallRow) /\ Len(calls) \in Nat
      /\ \A t : IsFiniteSet(Attempts(calls, t)) /\ Cardinality(Attempts(calls, t)) \in Nat
  BY AttemptsFinite DEF Accounts, Ledgered
<1>4. row \in CallRow /\ row.attempt = Cardinality(Attempts(calls, step)) + 1 /\ row.outcome = "open"
      /\ row.step = step
  <2>1. step \in {"structure", "copy", "blog"}
    BY <1>2 DEF Ledger, ModelSteps
  <2>2. NextAttempt(step) = Cardinality(Attempts(calls, step)) + 1
    BY DEF NextAttempt, Attempts
  <2> HIDE DEF step
  <2>3. NextAttempt(step) \in Nat \ {0}
    BY <1>3, <2>2
  <2> QED
    BY <2>1, <2>2, <2>3 DEF CallRow
<1> HIDE DEF row, step
<1>5. /\ calls' \in Seq(CallRow) /\ Len(calls') = Len(calls) + 1
      /\ calls'[Len(calls')] = row
      /\ \A i \in 1..Len(calls) : calls'[i] = calls[i]
      /\ DOMAIN calls = 1..Len(calls) /\ DOMAIN calls' = 1..Len(calls')
      /\ \A i \in 1..Len(calls') : i \in 1..Len(calls) \/ i = Len(calls')
  BY <1>1, <1>3, <1>4
<1>6. \A t : Attempts(calls', t) = IF t = step THEN Attempts(calls, t) \cup {Len(calls')} ELSE Attempts(calls, t)
  BY <1>3, <1>4, <1>5 DEF Attempts
<1>7. \A t : /\ Cardinality(Attempts(calls', t)) \in Nat
             /\ Cardinality(Attempts(calls, t)) <= Cardinality(Attempts(calls', t))
             /\ t = step => Cardinality(Attempts(calls', t)) = Cardinality(Attempts(calls, t)) + 1
  <2> SUFFICES ASSUME NEW t
               PROVE  /\ Cardinality(Attempts(calls', t)) \in Nat
                      /\ Cardinality(Attempts(calls, t)) <= Cardinality(Attempts(calls', t))
                      /\ t = step => Cardinality(Attempts(calls', t)) = Cardinality(Attempts(calls, t)) + 1
    OBVIOUS
  <2>1. Len(calls') \notin Attempts(calls, t)
    BY <1>3, <1>5 DEF Attempts
  <2>2. Cardinality(Attempts(calls, t) \cup {Len(calls')}) = Cardinality(Attempts(calls, t)) + 1
    BY <1>3, <2>1, FS_AddElement
  <2>3. Cardinality(Attempts(calls, t)) \in Nat
    BY <1>3
  <2>4. CASE t = step
    <3>1. Attempts(calls', t) = Attempts(calls, t) \cup {Len(calls')}
      BY <1>6, <2>4
    <3> QED
      BY <2>2, <2>3, <3>1
  <2>5. CASE t # step
    <3>1. Attempts(calls', t) = Attempts(calls, t)
      BY <1>6, <2>5
    <3> QED
      BY <2>3, <2>5, <3>1
  <2> QED
    BY <2>4, <2>5
<1>0. \A i \in 1..Len(calls) : calls[i].attempt <= Cardinality(Attempts(calls, calls[i].step))
  BY DEF Accounts, Ledgered
<1>8. \A i \in 1..Len(calls') : calls'[i].attempt <= Cardinality(Attempts(calls', calls'[i].step))
  <2> SUFFICES ASSUME NEW i \in 1..Len(calls')
               PROVE  calls'[i].attempt <= Cardinality(Attempts(calls', calls'[i].step))
    OBVIOUS
  <2>1. CASE i \in 1..Len(calls)
    <3>1. calls[i].attempt <= Cardinality(Attempts(calls, calls[i].step)) /\ calls[i].attempt \in Nat
      BY <1>0, <1>3, <2>1, RowHolds
    <3>2. Cardinality(Attempts(calls, calls[i].step)) <= Cardinality(Attempts(calls', calls[i].step))
          /\ Cardinality(Attempts(calls, calls[i].step)) \in Nat
          /\ Cardinality(Attempts(calls', calls[i].step)) \in Nat
      BY <1>3, <1>7
    <3>3. calls'[i] = calls[i]
      BY <1>5, <2>1
    <3> QED
      BY <3>1, <3>2, <3>3
  <2>2. CASE i = Len(calls')
    BY <1>3, <1>4, <1>5, <1>7, <2>2
  <2> QED
    BY <1>5, <2>1, <2>2
<1>9. ASSUME NEW i \in 1..Len(calls), calls[i].step = step
      PROVE  calls[i].attempt # row.attempt
  <2>1. calls[i].attempt <= Cardinality(Attempts(calls, step))
    BY <1>0, <1>9
  <2>2. calls[i].attempt \in Nat /\ Cardinality(Attempts(calls, step)) \in Nat
    BY <1>3, <1>9, RowHolds
  <2> QED
    BY <1>4, <2>1, <2>2
<1>10. ASSUME NEW i \in 1..Len(calls), calls[i].outcome = "open" PROVE i \in lost
  BY <1>1, <1>5, <1>10 DEF Accounts, Ledgered, LedgerIsComplete
<1>11. \/ /\ instance' = instance /\ lost' = lost
          /\ run'.at = "call" /\ run'.call = Len(calls')
       \/ /\ Awake' /\ run'.call = 0 /\ lost' = lost \cup {Len(calls')}
          /\ run'.at = "fail" \/ run'.at = First(Cur)
  <2>1. CASE /\ UNCHANGED <<instance, faults, lost>>
             /\ run' = [run EXCEPT !.at = "call", !.call = Len(calls')]
    BY <1>2, <2>1 DEF ControlType, Memory
  <2>2. CASE Throw("transport") /\ lost' = lost \cup {Len(calls')}
    <3>1. ~ InTry
      BY <1>1 DEF InTry
    <3> QED
      BY <1>1, <1>2, <2>2, <3>1, ThrowLeaves, WrittenCodes
  <2> QED
    BY <2>1, <2>2 DEF OpenCall
<1>12. LedgerIsComplete'
  BY <1>3, <1>4, <1>5, <1>9, <1>10, <1>11 DEF Accounts, Ledgered, LedgerIsComplete
<1>13. /\ Awake' /\ run'.at \in {"call", "fail", First(Cur)}
       /\ First(Cur) \notin {"call", "close", "ledger", "announce", "tell"}
  BY <1>1, <1>11, FirstIsPlain DEF Awake, Inv
<1>14. Ledgered'
  BY <1>3, <1>5, <1>8, <1>11, <1>12, <1>13 DEF Ledgered
<1>15. Refusing'
  BY <1>1, <1>2, <1>11 DEF Accounts, Refusing
<1>16. Telling'
  BY <1>1, <1>13, TellingStays DEF Accounts, Telling, Live
<1> QED
  BY <1>14, <1>15, <1>16 DEF Accounts

\* The provider's refusal is acted on before anything else is asked of it.
LEMMA CallAccounts == ASSUME Inv, Accounts, Call PROVE Accounts'
<1>1. /\ Awake /\ run.at = "call" /\ UNCHANGED <<job, routing, calls, told, lost, blurred>>
  BY DEF Call, At, Awake, publishVars
<1>2. ControlType /\ ~ instance.failed /\ InTry /\ refusals \subseteq lost
  <2>1. Cur \in Steps /\ "call" \in Body(Cur) /\ ~ instance.failed
    BY <1>1, Where DEF Inv
  <2> QED
    BY <1>1, <2>1, NoRefusalPending DEF Body, Accounts, Inv, Control, InTry
<1>3. /\ Awake' /\ instance' = instance /\ run'.call = run.call /\ run'.at \in {"close", "ledger"}
      /\ \/ refusals' = refusals
         \/ /\ refusals' = refusals \cup {run.call}
            /\ run'.at = "ledger" /\ run'.pending = "model_refusal"
  <2>1. CASE Within("close") /\ UNCHANGED <<faults, refusals>>
    BY <1>1, <1>2, <2>1 DEF Within, ControlType, Memory, Awake
  <2>2. CASE Throws({"model_refusal"}) /\ refusals' = refusals \cup {run.call}
    BY <1>1, <1>2, <2>2, ThrowLeaves, WrittenCodes DEF Throws
  <2>3. ASSUME NEW code \in {"step_deadline", "transport"}, Throw(code), refusals' = refusals
        PROVE  Awake' /\ instance' = instance /\ run'.call = run.call /\ run'.at = "ledger"
    BY <1>1, <1>2, <2>3, ThrowLeaves, WrittenCodes
  <2> QED
    BY <2>1, <2>2, <2>3 DEF Call
<1>4. run.call = Len(calls) /\ run.call # 0
  BY <1>1 DEF Accounts, Ledgered
<1>5. Ledgered'
  <2>1. \A step : Attempts(calls', step) = Attempts(calls, step)
    BY <1>1 DEF Attempts
  <2> QED
    BY <1>1, <1>3, <2>1 DEF Accounts, Ledgered, LedgerIsComplete
<1>6. Refusing'
  <2> SUFFICES ASSUME NEW i \in refusals' \ lost' PROVE i = Len(calls') /\ ActedOn(i)'
    BY <1>3, <1>4 DEF Accounts, Refusing
  <2>1. i = run.call /\ run'.at = "ledger" /\ run'.pending = "model_refusal"
    BY <1>1, <1>2, <1>3
  <2> QED
    BY <1>1, <1>2, <1>3, <1>4, <2>1 DEF ActedOn
<1>7. Telling'
  BY <1>1, <1>3, TellingStays DEF Accounts, Telling, Live
<1> QED
  BY <1>5, <1>6, <1>7 DEF Accounts

\* A row that is closed stays the row it is but for its outcome.
LEMMA CloseLeaves ==
  ASSUME calls \in Seq(CallRow), NEW i \in 0..Len(calls),
         NEW outcome \in {"ok", "refused", "failed"}, Close(i, outcome)
  PROVE  /\ calls' \in Seq(CallRow) /\ Len(calls') = Len(calls)
         /\ \A j \in 1..Len(calls) :
              /\ calls'[j].step = calls[j].step /\ calls'[j].attempt = calls[j].attempt
              /\ j # i => calls'[j] = calls[j]
              /\ j = i => calls'[j].outcome # "open"
         /\ \A step : Attempts(calls', step) = Attempts(calls, step)
<1> DEFINE row == [calls[i] EXCEPT !.outcome = IF @ = "open" THEN outcome ELSE @]
<1>1. calls' = [calls EXCEPT ![i] = row] /\ Len(calls) \in Nat
  BY DEF Close
<1>2. i \in 1..Len(calls) =>
        /\ row \in CallRow /\ row.outcome # "open"
        /\ row.step = calls[i].step /\ row.attempt = calls[i].attempt
  <2> SUFFICES ASSUME i \in 1..Len(calls)
               PROVE  /\ row \in CallRow /\ row.outcome # "open"
                      /\ row.step = calls[i].step /\ row.attempt = calls[i].attempt
    OBVIOUS
  <2> DEFINE old == calls[i]
  <2>1. old \in CallRow
    OBVIOUS
  <2> HIDE DEF old
  <2>2. [old EXCEPT !.outcome = IF @ = "open" THEN outcome ELSE @] \in CallRow
    BY <2>1 DEF CallRow
  <2>3. LET new == [old EXCEPT !.outcome = IF @ = "open" THEN outcome ELSE @]
        IN new.outcome # "open" /\ new.step = old.step /\ new.attempt = old.attempt
    BY <2>1 DEF CallRow
  <2> QED
    BY <2>2, <2>3 DEF old
<1> HIDE DEF row
<1>3. calls' \in Seq(CallRow) /\ Len(calls') = Len(calls)
  <2>1. calls \in [1..Len(calls) -> CallRow]
    BY LenProperties
  <2>2. calls' \in [1..Len(calls) -> CallRow]
    BY <1>1, <1>2, <2>1
  <2> QED
    BY <1>1, <2>2
<1>4. \A j \in 1..Len(calls) :
        /\ calls'[j].step = calls[j].step /\ calls'[j].attempt = calls[j].attempt
        /\ j # i => calls'[j] = calls[j]
        /\ j = i => calls'[j].outcome # "open"
  BY <1>1, <1>2
<1>5. \A step : Attempts(calls', step) = Attempts(calls, step)
  BY <1>3, <1>4 DEF Attempts
<1> QED
  BY <1>3, <1>4, <1>5

\* Once the row of the run is closed or lost, the run may forget it.
LEMMA ClosedLedger ==
  ASSUME Ledgered, calls' = calls \/ \E o \in {"ok", "refused", "failed"} : Close(run.call, o),
         lost \subseteq lost', calls' # calls \/ run.call \in lost' \/ run'.call = run.call,
         run'.call \in {0, run.call}, run'.at # "call", Awake',
         run'.call # 0 /\ run'.at \notin {"close", "ledger"} =>
           \E o \in {"ok", "refused", "failed"} : Close(run.call, o)
  PROVE  Ledgered'
<1>1. calls \in Seq(CallRow) /\ run.call \in 0..Len(calls) /\ Len(calls) \in Nat
  BY DEF Ledgered
<1>2. /\ calls' \in Seq(CallRow) /\ Len(calls') = Len(calls)
      /\ \A j \in 1..Len(calls) :
           /\ calls'[j].step = calls[j].step /\ calls'[j].attempt = calls[j].attempt
           /\ calls'[j].outcome = "open" => calls[j].outcome = "open"
           /\ calls' # calls /\ j = run.call => calls'[j].outcome # "open"
      /\ \A step : Attempts(calls', step) = Attempts(calls, step)
  <2>1. CASE calls' = calls
    BY <1>1, <2>1 DEF Attempts
  <2>2. ASSUME NEW o \in {"ok", "refused", "failed"}, Close(run.call, o)
        PROVE  /\ calls' \in Seq(CallRow) /\ Len(calls') = Len(calls)
               /\ \A j \in 1..Len(calls) :
                    /\ calls'[j].step = calls[j].step /\ calls'[j].attempt = calls[j].attempt
                    /\ calls'[j].outcome = "open" => calls[j].outcome = "open"
                    /\ j = run.call => calls'[j].outcome # "open"
               /\ \A step : Attempts(calls', step) = Attempts(calls, step)
    <3>1. \A j \in 1..Len(calls) : j # run.call => calls'[j] = calls[j]
      BY <1>1, <2>2, CloseLeaves
    <3> QED
      BY <1>1, <2>2, <3>1, CloseLeaves
  <2> QED
    BY <2>1, <2>2
<1>3. \A j \in 1..Len(calls) : calls'[j].outcome = "open" => j \in lost' \cup {run'.call}
  BY <1>1, <1>2 DEF Ledgered, LedgerIsComplete
<1>4. LedgerIsComplete'
  BY <1>1, <1>2, <1>3 DEF Ledgered, LedgerIsComplete
<1>5. run'.call # 0 /\ run'.at \notin {"close", "ledger"} => calls'[run'.call].outcome # "open"
  BY <1>1, <1>2, CloseLeaves
<1> QED
  BY <1>1, <1>2, <1>4, <1>5 DEF Ledgered

\* The answer is stored in the ledger before the artifact is.
LEMMA CloseCallAccounts == ASSUME Inv, Accounts, CloseCall PROVE Accounts'
<1>1. /\ Awake /\ run.at = "close" /\ UNCHANGED <<job, routing, told, lost, refusals, blurred>>
      /\ Close(run.call, "ok")
  BY DEF CloseCall, At, Awake, publishVars
<1>2. ControlType /\ ~ instance.failed /\ InTry /\ refusals \subseteq lost
  <2>1. Cur \in Steps /\ "close" \in Body(Cur) /\ ~ instance.failed
    BY <1>1, Where DEF Inv
  <2> QED
    BY <1>1, <2>1, NoRefusalPending DEF Body, Accounts, Inv, Control, InTry
<1>3. Awake' /\ run'.call = run.call /\ run'.at \in {"artifact", "ledger"}
  <2>1. CASE Within("artifact")
    BY <1>1, <1>2, <2>1 DEF Within, ControlType, Memory, Awake
  <2>2. CASE Throw("transport")
    BY <1>1, <1>2, <2>2, ThrowLeaves, WrittenCodes
  <2> QED
    BY <2>1, <2>2 DEF CloseCall, Wrote
<1>4. Ledgered'
  BY <1>1, <1>3, ClosedLedger DEF Accounts
<1>5. Refusing'
  BY <1>1, <1>2 DEF Accounts, Refusing
<1>6. Telling'
  BY <1>1, <1>3, TellingStays DEF Accounts, Telling, Live
<1> QED
  BY <1>4, <1>5, <1>6 DEF Accounts

\* The row of a call that failed is closed, or the run loses track of it.
LEMMA FinishCallFromErrorAccounts ==
  ASSUME Inv, Accounts, FinishCallFromError PROVE Accounts'
<1>1. /\ Awake /\ run.at = "ledger" /\ UNCHANGED <<job, routing, told, refusals, blurred>>
  BY DEF FinishCallFromError, At, Awake, publishVars
<1>2. ControlType /\ ~ instance.failed /\ calls \in Seq(CallRow) /\ run.call \in 0..Len(calls)
  BY <1>1, Where DEF Inv, Control, Accounts, Ledgered
<1>3. First(Cur) \notin {"call", "close", "ledger", "raise", "announce", "return", "tell", "fail"}
  BY <1>1, FirstIsPlain DEF Inv
<1>4. CASE /\ Within("raise") /\ UNCHANGED lost
           /\ \E o \in {"refused", "failed"} : Close(run.call, o)
  <2>1. /\ Awake' /\ instance' = instance /\ run'.call = run.call /\ run'.at = "raise"
        /\ run'.pending = run.pending
    BY <1>1, <1>2, <1>4 DEF Within, ControlType, Memory, Awake
  <2>2. Ledgered'
    BY <1>1, <1>4, <2>1, ClosedLedger DEF Accounts
  <2>3. Len(calls') = Len(calls)
    BY <1>2, <1>4, CloseLeaves
  <2>4. Refusing'
    BY <1>1, <1>2, <1>4, <2>1, <2>3 DEF Accounts, Refusing, ActedOn, Ended, Awake
  <2>5. Telling'
    BY <1>1, <2>1, TellingStays DEF Accounts, Telling, Live
  <2> QED
    BY <2>2, <2>4, <2>5 DEF Accounts
<1>5. CASE /\ Raise("transport") /\ lost' = lost \cup {run.call}
           /\ calls' = calls \/ \E o \in {"refused", "failed"} : Close(run.call, o)
  <2>1. Awake' /\ run'.call = 0 /\ (run'.at = "fail" \/ run'.at = First(Cur))
    BY <1>1, <1>2, <1>5, RaiseLeaves, WrittenCodes
  <2>2. Ledgered'
    BY <1>1, <1>3, <1>5, <2>1, ClosedLedger DEF Accounts
  <2>3. Refusing'
    <3>1. \A i \in refusals \ lost : run.call = i
      BY <1>1, <1>2 DEF Accounts, Refusing, ActedOn, Ended, Awake
    <3> QED
      BY <1>1, <1>5, <3>1 DEF Accounts, Refusing
  <2>4. Telling'
    BY <1>1, <1>3, <2>1, TellingStays DEF Accounts, Telling, Live
  <2> QED
    BY <2>2, <2>3, <2>4 DEF Accounts
<1> QED
  BY <1>4, <1>5 DEF FinishCallFromError

\* A refusal goes to the terminal handler; any other failure may be tried again.
LEMMA RethrowAccounts == ASSUME Inv, Accounts, Rethrow PROVE Accounts'
<1>1. /\ Awake /\ run.at = "raise" /\ Raise(run.pending)
      /\ UNCHANGED <<job, routing, calls, told, lost, refusals, blurred>>
  BY DEF Rethrow, At, Awake, publishVars
<1>2. ControlType /\ ~ instance.failed /\ Cur # "finalise" /\ run.pending \in Codes \cup {Null}
  <2>1. /\ ~ instance.failed /\ "raise" \in Body(Cur)
    BY <1>1, Where DEF Inv
  <2> QED
    BY <2>1 DEF Inv, Control, ControlType, Memory, Body, ModelSteps
<1>3. First(Cur) \notin {"call", "close", "ledger", "raise", "announce", "return", "tell", "fail"}
  BY <1>1, FirstIsPlain DEF Inv
<1>4. /\ Awake' /\ run'.call = 0 /\ (run'.at = "fail" \/ run'.at = First(Cur))
      /\ run.pending = "model_refusal" => instance'.failed /\ run'.decision = "model_refusal"
  BY <1>1, <1>2, RaiseLeaves
<1>5. Ledgered'
  BY <1>1, <1>3, <1>4, KeptLedger DEF Accounts
<1>6. Refusing'
  BY <1>1, <1>2, <1>4 DEF Accounts, Refusing, ActedOn, Ended, Awake
<1>7. Telling'
  BY <1>1, <1>3, <1>4, TellingStays DEF Accounts, Telling, Live
<1> QED
  BY <1>5, <1>6, <1>7 DEF Accounts

\* The steps of the body that write neither the ledger nor the outcome.
PlainLabels == {"artifact", "quality", "root", "attach", "pages", "seal", "sitemap", "sitedoc",
                "verify", "point", "flip", "return"}

LEMMA WroteGoesOn ==
  ASSUME ControlType, run.at \notin {"call", "close"}, NEW l \in PlainLabels,
         Wrote(l) \/ Within(l)
  PROVE  GoesOn \/ \E code \in Codes : Throw(code)
<1>1. CASE Within(l)
  <2>1. run'.at = l /\ run'.call = run.call /\ instance' = instance
    BY <1>1 DEF Within, ControlType, Memory
  <2> QED
    BY <2>1 DEF GoesOn, PlainLabels
<1>2. CASE Throw("transport")
  BY <1>2, WrittenCodes
<1> QED
  BY <1>1, <1>2 DEF Wrote

LEMMA RefusedAccounts == ASSUME Inv, Accounts, Refused PROVE Accounts'
<1>1. /\ Awake /\ run.at \notin {"ledger", "raise", "announce", "return", "fail", "tell"}
      /\ UNCHANGED <<job, routing, calls, told, lost, refusals, blurred>> /\ Throw("transport")
  BY DEF Refused, Awake, publishVars
<1>2. job.status = "succeeded" => Live'
  BY <1>1 DEF Accounts, Telling, Live
<1> QED
  BY <1>1, <1>2, WrittenCodes, PlainStep

LEMMA BuildAccounts == ASSUME Inv, Accounts, BuildStep PROVE Accounts'
<1>1. /\ Awake /\ run.at \in {"claim", "artifact", "version", "attach", "report", "quality", "page",
                             "root"}
      /\ UNCHANGED <<routing, calls, told, lost, refusals, blurred>>
      /\ job' = job \/ Claim \/ AttachVersion
  BY DEF BuildStep, Claim, Artifact, ResolveVersion, AttachVersion, Report, Quality, RenderPage,
         RenderRoot, At, Awake, publishVars, PutObject, InsertSiteVersion
<1>2. ControlType /\ job \in JobRow
  BY DEF Inv, Control, Data, DataType
<1>3. job' = job \/ {job.status, job'.status} \cap Closed = {}
  <2>1. CASE Claim
    BY <1>2, <2>1 DEF Claim, JobRow, Closed
  <2>2. CASE AttachVersion
    BY <1>2, <2>2 DEF AttachVersion, JobRow, Closed
  <2> QED
    BY <1>1, <2>1, <2>2
<1>4. job.status = "succeeded" => Live'
  BY <1>1, <1>3 DEF Accounts, Telling, Live, Closed
<1>5. GoesOn \/ \E code \in Codes : Throw(code)
  <2>1. CASE Claim \/ AttachVersion \/ Report
    BY <1>1, <1>2, <2>1, WroteGoesOn DEF Claim, AttachVersion, Report, PlainLabels
  <2>2. CASE ResolveVersion \/ RenderRoot
    BY <1>1, <1>2, <2>2, WroteGoesOn DEF ResolveVersion, RenderRoot, PlainLabels
  <2>3. CASE Artifact \/ Quality \/ RenderPage
    BY <1>1, <1>2, <2>3, WroteGoesOn, WrittenCodes DEF Artifact, Quality, RenderPage, PlainLabels,
         Throws
  <2> QED
    BY <2>1, <2>2, <2>3 DEF BuildStep
<1> QED
  BY <1>1, <1>3, <1>4, <1>5, PlainStep

LEMMA PublishAccounts == ASSUME Inv, Accounts, PublishStep PROVE Accounts'
<1>1. /\ Awake /\ run.at \in PublishLabels
      /\ UNCHANGED <<job, calls, told, lost, refusals, blurred>>
  BY DEF PublishStep, ReadSite, PutSiteDoc, WriteProjection, Seal, PutDerived, Verify,
         SetPublished, Flip, At, Awake, PublishLabels
<1>2. ControlType /\ job.status # "succeeded"
      /\ run.at \notin {"call", "close", "ledger", "raise", "announce", "return", "fail", "tell"}
  <2>1. run.at \notin {"call", "close", "ledger", "raise", "announce", "return", "fail", "tell"}
    BY <1>1 DEF PublishLabels
  <2>2. instance.memo = 11 /\ Advanced
    BY <1>1, WherePublish DEF Inv
  <2> QED
    BY <2>1, <2>2 DEF Inv, Control, Advanced
<1>3. GoesOn \/ \E code \in Codes : Throw(code)
  <2>1. CASE ReadSite
    BY <1>2, <2>1 DEF ReadSite, Resume, GoesOn, ControlType, Memory
  <2>2. CASE PutSiteDoc \/ WriteProjection \/ Seal \/ PutDerived \/ SetPublished
    BY <1>2, <2>2, WroteGoesOn DEF PutSiteDoc, WriteProjection, Seal, PutDerived, SetPublished,
         PlainLabels
  <2>3. CASE Verify
    BY <1>2, <2>3, WroteGoesOn, WrittenCodes DEF Verify, PlainLabels
  <2>4. CASE Flip
    <3>1. CASE /\ UNCHANGED instance
               /\ run' = [run EXCEPT !.host = @ + 1,
                                     !.at = IF run.host = Len(Hosts) THEN "return" ELSE @]
      BY <1>2, <2>4, <3>1 DEF Flip, At, GoesOn, ControlType, Memory
    <3>2. CASE Throw("transport")
      BY <3>2, WrittenCodes
    <3> QED
      BY <2>4, <3>1, <3>2 DEF Flip
  <2> QED
    BY <2>1, <2>2, <2>3, <2>4 DEF PublishStep
<1> QED
  BY <1>1, <1>2, <1>3, PlainStep

----------------------------------------------------------------------------
\* Between two steps no row is open, no refusal pending and no job closed.
LEMMA ReturnAccounts == ASSUME Inv, Accounts, Return PROVE Accounts'
<1>1. /\ Awake /\ run.at = "return"
      /\ UNCHANGED <<job, routing, calls, told, lost, refusals, blurred>>
  BY DEF Return, At, Awake, publishVars
<1>2. /\ ControlType /\ ~ instance.failed /\ instance.memo \in 0..12 /\ Advanced
      /\ Cur = "finalise" <=> instance.memo = 12
      /\ refusals \subseteq lost
  BY <1>1, Where, NoRefusalPending DEF Inv, Control, Accounts
<1>3. /\ run'.call = 0 /\ run'.at \notin {"call", "announce", "tell"}
      /\ IF Cur = "finalise" THEN Ended' ELSE Awake'
  <2>1. CASE Cur = "finalise"
    BY <1>2, <2>1 DEF Return, Off, ControlType, Instance, Awake, Ended
  <2>2. CASE Cur # "finalise"
    <3>1. instance.memo + 1 \in 0..12 /\ (instance.memo + 1) + 1 = instance.memo + 2
      BY <1>2, <2>2
    <3>2. Pipeline[instance.memo + 2] \in Steps
      BY <3>1, PipelineFacts
    <3>3. First(Pipeline[instance.memo + 2]) \notin {"call", "announce", "tell"}
      BY <3>2, FirstInBody
    <3>4. run'.call = 0 /\ run'.at = First(Pipeline[instance.memo + 2]) /\ Awake'
      BY <1>1, <1>2, <2>2 DEF Return, Off, ControlType, Instance, Awake
    <3> QED
      BY <2>2, <3>3, <3>4
  <2> QED
    BY <2>1, <2>2
<1>4. Ledgered'
  <2>1. Awake' \/ run'.call = 0
    BY <1>3
  <2> QED
    BY <1>1, <1>3, <2>1, KeptLedger DEF Accounts
<1>5. Refusing'
  BY <1>1, <1>2 DEF Accounts, Refusing
<1>6. Telling'
  <2>1. told \subseteq {"done"} /\ ("done" \in told => job.status = "succeeded")
        /\ (job.status = "succeeded" => Live')
    BY <1>1 DEF Accounts, Telling, Awake, Ended, Live
  <2>2. Cur # "finalise" => job.status \notin Closed
    BY <1>2 DEF Advanced, Closed
  <2> QED
    BY <1>1, <1>3, <2>1, <2>2 DEF Telling, Awake, Ended
<1> QED
  BY <1>4, <1>5, <1>6 DEF Accounts

\* What run() holds when it is started says nothing of a call.
LEMMA StartAccounts == ASSUME Inv, Accounts, Start PROVE Accounts'
<1>1. /\ instance.state = "asleep" /\ ~ Awake /\ ~ Ended
      /\ UNCHANGED <<job, routing, calls, told, lost, refusals, blurred>>
  BY DEF Start, Awake, Ended, publishVars
<1>2. ControlType /\ instance.memo \in 0..12 /\ Cur \in Steps
  <2>1. ControlType /\ instance.memo \in 0..12
    BY <1>1 DEF Inv, Control, ControlType, Instance
  <2> QED
    BY <2>1, PipelineFacts DEF Cur
<1>3. /\ Awake' /\ instance'.failed = instance.failed /\ run'.call = 0
      /\ run'.at \notin {"call", "announce", "tell"}
  BY <1>2, FirstInBody DEF Start, Off, ControlType, Instance, Awake
<1>4. Ledgered'
  <2>1. run.call = 0
    BY <1>1 DEF Accounts, Ledgered
  <2> QED
    BY <1>1, <1>3, <2>1, KeptLedger DEF Accounts
<1>5. Refusing'
  BY <1>1, <1>3 DEF Accounts, Refusing, ActedOn
<1>6. Telling'
  <2>1. /\ told \subseteq {"done"} /\ ("done" \in told => job.status = "succeeded")
        /\ job.status = "succeeded" => Live'
        /\ blurred = {} => job.status \notin Closed
    BY <1>1 DEF Accounts, Telling, Live
  <2> QED
    BY <1>1, <1>3, <2>1 DEF Telling
<1> QED
  BY <1>4, <1>5, <1>6 DEF Accounts

\* An eviction loses the row of the call it interrupts, and the decision of a run
\* that had failed.
LEMMA EvictAccounts == ASSUME Inv, Accounts, Evict PROVE Accounts'
<1>1. /\ Awake /\ ~ Ended /\ ~ Awake' /\ ~ Ended' /\ run'.call = 0 /\ run'.at = "off"
      /\ instance'.failed = instance.failed
      /\ UNCHANGED <<job, routing, calls, told, refusals>>
      /\ lost' = lost \cup ({run.call} \ {0})
      /\ blurred \subseteq blurred' /\ (instance.failed => blurred' # {})
      /\ job.status = "succeeded" => blurred' # {}
  BY DEF Evict, Off, Awake, Ended, publishVars, Inv, Control, ControlType, Instance
<1>2. Ledgered'
  BY <1>1, KeptLedger DEF Accounts
<1>3. Refusing'
  <2> SUFFICES ASSUME NEW i \in refusals \ lost' PROVE i = Len(calls) /\ ActedOn(i)'
    BY <1>1 DEF Accounts, Refusing
  <2>1. i = Len(calls) /\ i # 0 /\ ActedOn(i)
    BY <1>1 DEF Accounts, Refusing
  <2> QED
    BY <1>1, <2>1 DEF ActedOn
<1>4. Telling'
  <2>1. told \subseteq {"done"} /\ (job.status = "succeeded" => Live')
    BY <1>1 DEF Accounts, Telling, Live
  <2>2. ASSUME blurred' = {} PROVE job.status \notin Closed
    <3>1. ~ instance.failed /\ job.status # "succeeded" /\ blurred = {}
      BY <1>1, <2>2
    <3>2. run.at \notin {"fail", "tell"}
      BY <1>1, <3>1, Failing
    <3>3. Advanced
      BY <1>1, <3>2, Where DEF Inv
    <3> QED
      BY <3>1, <3>3 DEF Advanced, Closed
  <2> QED
    BY <1>1, <2>1, <2>2 DEF Accounts, Telling
<1> QED
  BY <1>2, <1>3, <1>4 DEF Accounts

----------------------------------------------------------------------------
\* The job succeeds before it is announced.
LEMMA FinishAccounts == ASSUME Inv, Accounts, Finish PROVE Accounts'
<1>1. /\ Awake /\ run.at = "finish" /\ UNCHANGED <<routing, calls, told, lost, refusals>>
      /\ job' = IF job.status \in {"running", "streaming"} THEN [job EXCEPT !.status = "succeeded"]
                ELSE job
      /\ \/ Within("announce") /\ blurred' = blurred
         \/ Throw("transport") /\ blurred' = blurred \cup {"committed"}
  BY DEF Finish, At, Awake, publishVars
<1>2. /\ ControlType /\ ~ instance.failed /\ instance.memo = 12 /\ Advanced
      /\ refusals \subseteq lost /\ ~ InTry
      /\ First(Cur) \notin {"call", "close", "ledger", "raise", "announce", "return", "tell", "fail"}
  <2>1. /\ ~ instance.failed /\ Advanced /\ run.at \in Body(Cur)
        /\ Cur = "finalise" <=> instance.memo = 12
    BY <1>1, Where DEF Inv
  <2>2. Cur = "finalise"
    BY <1>1, <2>1 DEF Body
  <2> QED
    BY <1>1, <2>1, <2>2, NoRefusalPending, FirstIsPlain DEF Inv, Control, Accounts, InTry
<1>3. job \in JobRow /\ job.status \in {"running", "streaming", "succeeded"}
  BY <1>2 DEF Inv, Data, DataType, JobRow, Closed, Advanced
<1>4. job'.status = "succeeded" /\ job'.version = job.version
  BY <1>1, <1>3 DEF JobRow
<1>5. /\ Awake' /\ run'.at \notin {"call", "tell"}
      /\ \/ run'.call = run.call /\ run'.at = "announce" /\ instance' = instance
         \/ run'.call = 0 /\ blurred' # {}
  <2>1. CASE Within("announce")
    BY <1>1, <1>2, <2>1 DEF Within, ControlType, Memory, Awake
  <2>2. CASE Throw("transport") /\ blurred' = blurred \cup {"committed"}
    BY <1>1, <1>2, <2>2, ThrowLeaves, WrittenCodes
  <2> QED
    BY <1>1, <2>1, <2>2
<1>6. Ledgered'
  BY <1>1, <1>5, KeptLedger DEF Accounts
<1>7. Refusing'
  BY <1>1, <1>2 DEF Accounts, Refusing
<1>8. Telling'
  <2>1. told \subseteq {"done"}
    BY <1>1 DEF Accounts, Telling, Awake, Ended
  <2>2. Live'
    BY <1>1, <1>2, <1>4 DEF Advanced, Live
  <2> QED
    BY <1>1, <1>2, <1>4, <1>5, <2>1, <2>2 DEF Telling
<1> QED
  BY <1>6, <1>7, <1>8 DEF Accounts

LEMMA AnnounceAccounts == ASSUME Inv, Accounts, Announce PROVE Accounts'
<1>1. /\ Awake /\ run.at = "announce" /\ told \subseteq told' /\ told' \subseteq told \cup {"done"}
      /\ UNCHANGED <<job, routing, calls, lost, refusals, blurred>> /\ Within("return")
  BY DEF Announce, At, Awake, publishVars, Posted
<1>2. ControlType /\ ~ instance.failed /\ refusals \subseteq lost
  BY <1>1, Where, NoRefusalPending DEF Inv, Control, Accounts
<1>3. Awake' /\ instance' = instance /\ run'.call = run.call /\ run'.at = "return"
  BY <1>1, <1>2 DEF Within, ControlType, Memory, Awake
<1>4. Ledgered'
  BY <1>1, <1>3, KeptLedger DEF Accounts
<1>5. Refusing'
  BY <1>1, <1>2 DEF Accounts, Refusing
<1>6. Telling'
  <2>1. told \subseteq {"done"} /\ job.status = "succeeded" /\ Live'
    BY <1>1 DEF Accounts, Telling, Awake, Ended, Live
  <2> QED
    BY <1>1, <1>2, <1>3, <2>1 DEF Telling
<1> QED
  BY <1>4, <1>5, <1>6 DEF Accounts

\* The row is closed with the decision that is then told.
LEMMA FailAccounts == ASSUME Inv, Accounts, FailJob PROVE Accounts'
<1>1. /\ Awake /\ run.at = "fail" /\ UNCHANGED <<routing, calls, told, lost, refusals>>
      /\ Within("tell")
      /\ \/ job' = FinishFailed(Final) /\ blurred' = blurred
         \/ job' = job /\ blurred' = blurred \cup {"unwritten"}
  BY DEF FailJob, At, Awake, publishVars
<1>2. ControlType /\ instance.failed /\ Final \in Codes
  BY <1>1, Failing, FinalCode DEF Inv, Control
<1>3. /\ Awake' /\ instance' = instance /\ run'.call = run.call /\ run'.at = "tell"
      /\ run'.decision = run.decision /\ Final' = Final /\ ~ Ended /\ ~ Ended'
  BY <1>1, <1>2 DEF Within, ControlType, Memory, Awake, Ended, Final
<1>4. Ledgered'
  BY <1>1, <1>3, KeptLedger DEF Accounts
<1>5. Refusing'
  BY <1>1, <1>2, <1>3 DEF Accounts, Refusing, ActedOn
<1>6. Telling'
  <2>1. /\ told \subseteq {"done"} /\ ("done" \in told => job.status = "succeeded")
        /\ job.status = "succeeded" => Live
        /\ blurred = {} => job.status \notin Closed
    BY <1>1, <1>2, <1>3 DEF Accounts, Telling
  <2>2. CASE job' = job /\ blurred' # {}
    BY <1>1, <1>3, <2>1, <2>2 DEF Telling, Live
  <2>3. CASE job.status \notin Closed /\ job' = FinishFailed(Final)
    <3>1. /\ job'.status = StatusOf(Final) /\ job'.code = Final /\ job'.status # "succeeded"
      BY <2>3 DEF FinishFailed, StatusOf, Inv, Data, DataType, JobRow
    <3>2. told = {}
      BY <2>1, <2>3 DEF Closed
    <3> QED
      BY <1>1, <1>3, <3>1, <3>2 DEF Telling
  <2> QED
    BY <1>1, <2>1, <2>2, <2>3 DEF FinishFailed
<1> QED
  BY <1>4, <1>5, <1>6 DEF Accounts

LEMMA TellAccounts == ASSUME Inv, Accounts, TellError PROVE Accounts'
<1>1. /\ Awake /\ run.at = "tell" /\ told' \subseteq told \cup {Final}
      /\ told \subseteq told'
      /\ UNCHANGED <<job, routing, calls, lost, refusals, blurred>>
      /\ Ended' /\ ~ Awake' /\ instance'.failed = instance.failed
      /\ run'.call = 0 /\ run'.at = "off"
  BY DEF TellError, At, Awake, publishVars, Posted, Off, Ended, Inv, Control, ControlType, Instance
<1>2. instance.failed /\ Final # "done" /\ ~ Ended
  BY <1>1, Failing, FinalCode DEF Codes, Terminal, Policy, Awake, Ended
<1>3. Ledgered'
  BY <1>1, KeptLedger DEF Accounts
<1>4. Refusing'
  <2> SUFFICES ASSUME NEW i \in refusals \ lost PROVE ActedOn(i)'
    BY <1>1 DEF Accounts, Refusing
  <2>1. ActedOn(i)
    BY DEF Accounts, Refusing
  <2>2. CASE blurred # {}
    BY <1>1, <1>2, <2>2 DEF ActedOn
  <2>3. CASE blurred = {}
    <3>1. run.decision = "model_refusal" /\ Final = "model_refusal" /\ job.code = Final
      BY <1>1, <1>2, <2>1, <2>3, NoCodeAssumption
         DEF ActedOn, Accounts, Telling, Final, Codes, Terminal, Policy
    <3> QED
      BY <1>1, <3>1 DEF ActedOn
  <2> QED
    BY <2>2, <2>3
<1>5. Telling'
  <2>1. /\ told \subseteq {"done"} /\ (job.status = "succeeded" => Live')
        /\ blurred = {} => job.code = Final /\ job.status = StatusOf(Final)
    BY <1>1, <1>2 DEF Accounts, Telling, Live
  <2> QED
    BY <1>1, <1>2, <2>1 DEF Accounts, Telling
<1> QED
  BY <1>3, <1>4, <1>5 DEF Accounts

----------------------------------------------------------------------------
LEMMA IndexAccounts == ASSUME Inv, Accounts, IndexMoves \/ UNCHANGED vars PROVE Accounts'
<1>1. UNCHANGED <<routing, runVars>>
  BY DEF IndexMoves, SetIndexState, vars, publishVars
<1>2. Ledgered'
  BY <1>1 DEF Accounts, Ledgered, LedgerIsComplete, Awake, runVars
<1>3. Refusing'
  BY <1>1 DEF Accounts, Refusing, ActedOn, Awake, Ended, runVars
<1>4. Telling'
  BY <1>1 DEF Accounts, Telling, Live, Final, Awake, Ended, runVars
<1> QED
  BY <1>2, <1>3, <1>4 DEF Accounts

LEMMA InitAccounts == Init => Accounts
<1> SUFFICES ASSUME Init PROVE Accounts
  OBVIOUS
<1>1. /\ calls = <<>> /\ run.call = 0 /\ run.at = "off" /\ ~ Awake /\ ~ Ended
      /\ job.status = "queued" /\ told = {} /\ lost = {} /\ refusals = {}
  BY DEF Init, Off, Awake, Ended
<1>2. Ledgered
  BY <1>1 DEF Ledgered, LedgerIsComplete
<1>3. Refusing /\ Telling
  BY <1>1 DEF Refusing, Telling, Closed
<1> QED
  BY <1>2, <1>3 DEF Accounts

LEMMA NextAccounts == Inv /\ Accounts /\ [Next]_vars => Accounts'
<1> SUFFICES ASSUME Inv, Accounts, [Next]_vars PROVE Accounts'
  OBVIOUS
<1>1. CASE Start \/ Return \/ Refused \/ Evict
  BY <1>1, StartAccounts, ReturnAccounts, RefusedAccounts, EvictAccounts
<1>2. CASE ModelStep
  BY <1>2, OpenCallAccounts, CallAccounts, CloseCallAccounts, FinishCallFromErrorAccounts,
     RethrowAccounts DEF ModelStep
<1>3. CASE BuildStep \/ PublishStep
  BY <1>3, BuildAccounts, PublishAccounts
<1>4. CASE Outcome
  BY <1>4, FinishAccounts, AnnounceAccounts, FailAccounts, TellAccounts DEF Outcome
<1>5. CASE IndexMoves \/ UNCHANGED vars
  BY <1>5, IndexAccounts
<1> QED
  BY <1>1, <1>2, <1>3, <1>4, <1>5 DEF Next, Step

\* The ledger, the refusals and what was told are accounted for in every state.
THEOREM AccountsHold == Spec => []Accounts
<1> QED
  BY InitAccounts, NextAccounts, InvHolds, PTL DEF Spec

(***************************************************************************)
(* LedgerIsCompleteCorrect: however often a step is tried and wherever it  *)
(* is evicted, no two rows of a ledger step share a number, and a row is   *)
(* left open only where the run lost track of its call (ledger.ts).        *)
(***************************************************************************)
THEOREM LedgerIsCompleteCorrect == Spec => []LedgerIsComplete
<1>1. Accounts => LedgerIsComplete
  BY DEF Accounts, Ledgered
<1> QED
  BY <1>1, AccountsHold, PTL

(***************************************************************************)
(* RefusalEndsRunCorrect: after a refusal no further call is opened and    *)
(* the job ends in needs_review, but for an eviction or a refused write    *)
(* that comes between the refusal and the terminal handler (retry.ts).     *)
(***************************************************************************)
THEOREM RefusalEndsRunCorrect == Spec => []RefusalEndsRun
<1>1. Accounts => RefusalEndsRun
  <2> SUFFICES ASSUME Accounts PROVE RefusalEndsRun
    OBVIOUS
  <2>1. \A i \in refusals : i = Len(calls) \/ i \in lost
    BY DEF Accounts, Refusing
  <2>2. ASSUME Ended, refusals # {}
        PROVE  job.code = "model_refusal" \/ refusals \cap lost # {} \/ blurred # {}
    <3>1. PICK i \in refusals : TRUE
      BY <2>2
    <3>2. i \notin lost => ActedOn(i)
      BY DEF Accounts, Refusing
    <3> QED
      BY <2>2, <3>1, <3>2 DEF ActedOn, Awake, Ended
  <2> QED
    BY <2>1, <2>2 DEF RefusalEndsRun
<1> QED
  BY <1>1, AccountsHold, PTL

(***************************************************************************)
(* OutcomeIsToldCorrect: "done" is only told of a job that succeeded and   *)
(* is served by every host, an error only as the job row has it, unless    *)
(* the outcome was lost on the way (finaliseFailure(), workflow.ts).       *)
(***************************************************************************)
THEOREM OutcomeIsToldCorrect == Spec => []OutcomeIsTold
<1>1. Accounts => OutcomeIsTold
  BY DEF Accounts, Telling, Live, OutcomeIsTold
<1> QED
  BY <1>1, AccountsHold, PTL
=============================================================================
