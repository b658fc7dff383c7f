------------------------------- MODULE JobHub -------------------------------
(***************************************************************************)
(* Progress of one generation run: the Workflow's emits                    *)
(* (apps/generator/src/progress.ts), the run's event log and its SSE       *)
(* streams (apps/generator/src/do/JobHub.ts), the proxy and the polling    *)
(* route (apps/api/src/routes/jobs.ts), and the modal that watches         *)
(* (apps/marketing/src/islands/hooks/useSSE.ts).                           *)
(*                                                                         *)
(* The object is single-threaded, but a subscriber's drain awaits every    *)
(* frame it writes, so the drains of an append's fan-out, of the next      *)
(* append's and of the connect's backlog overlap.  Writes to one stream    *)
(* resolve in order, and a drain has one write outstanding; so all the     *)
(* drains of a subscriber are one queue of outstanding writes, each with   *)
(* the row its drain will go on to.                                        *)
(*                                                                         *)
(* Abstracted: payloads, percentages and the heartbeat; an event is its    *)
(* label (the idempotency key), or 0 for a keyless delta, and its seq is   *)
(* its place in the log.  An alarm is "soon" (seconds away) or "keep" (the *)
(* day a finished log is kept).                                            *)
(***************************************************************************)
EXTENDS Naturals, Sequences, SequencesExt

CONSTANTS
  Viewers,    \* open modals
  Labels,     \* the keyed emits of a run are 1..Labels, in order; the last ends it
  Batch,      \* MIRROR_BATCH_SIZE
  MaxDeltas,  \* bound on keyless posts
  MaxRetries, \* bound on step attempts after the first
  MaxLost,    \* bound on posts, shard writes and polls that fail
  MaxDrops,   \* bound on broken connections and evictions
  MaxRefused, \* bound on connections answered with an HTTP error
  Null

ASSUME LabelsAssumption == Labels \in Nat \ {0} /\ Batch \in Nat \ {0}
ASSUME HubBounds == {MaxDeltas, MaxRetries, MaxLost, MaxDrops, MaxRefused} \subseteq Nat
ASSUME HubNull == Null \notin Nat \cup {"soon", "keep"}

VARIABLES
  next,     \* the Workflow: the label it emits next; Labels + 1 when it is over
  flying,   \* deltas posted and not yet at the object
  log,      \* events, in order of seq
  terminal, \* the object's terminal flag, in memory and in meta
  ending,   \* a terminal append has yet to close the subscribers
  conn,     \* each viewer's subscriber; Null when it has none
  client,   \* each viewer: mode, lastSeq (seen), last event id, failures in a row
  mirrored, \* rows of the log marked mirrored
  alarm,    \* the object's alarm
  flush,    \* the alarm handler's batch at the shard: its last row
  expires,  \* expiresAt: "unset", "set" or "passed"
  torn,     \* an eviction cut the latest append before its alarm was set
  deltas, retries, lost, drops, refused

run == <<next, flying, deltas, retries>>
hub == <<log, terminal, ending, conn, mirrored, alarm, flush, expires, torn>>
store == <<log, terminal, ending, mirrored, alarm, flush, expires, torn>>
limits == <<lost, drops, refused>>
vars == <<run, hub, client, limits>>

Lost == lost < MaxLost /\ lost' = lost + 1 /\ UNCHANGED <<drops, refused>>
Dropped == drops < MaxDrops /\ drops' = drops + 1 /\ UNCHANGED <<lost, refused>>

----------------------------------------------------------------------------
\* The object: append and fan-out.

\* Mutant: a keyed replay is appended again.
AppendedAgain(k) == Append(log, k)

\* append(): a replayed key answers with the row it already has.
Appended(k) == IF k # 0 /\ Contains(log, k) THEN log ELSE Append(log, k)

\* An outstanding write of row, by a drain that has read rows of the log.  Row 0
\* is the retry hint, after which the connect's own drain, the backlog, begins.
Writing(row, rows, backlog) == [row |-> row, rows |-> rows, backlog |-> backlog]

\* Mutant: a fan-out sends what was just appended.
DrainsNewest(c, rows) == <<Writing(Len(rows), rows, FALSE)>>

\* drain(): everything after the cursor.
Drains(c, rows) ==
  IF c.cursor < Len(rows) THEN <<Writing(c.cursor + 1, rows, FALSE)>> ELSE <<>>

\* fanOut(): to every subscriber that is not being closed.
FannedOut(rows) ==
  [v \in Viewers |-> IF conn[v] # Null /\ ~ conn[v].closing
                     THEN [conn[v] EXCEPT !.queue = @ \o Drains(conn[v], rows)]
                     ELSE conn[v]]

\* handleAppend() up to the closing of the subscribers: append, fan out, and
\* scheduleMirror(), which leaves an alarm that is set.
Receive(k) ==
  /\ log' = Appended(k)
  /\ terminal' = (terminal \/ k = Labels)
  /\ ending' = (ending \/ k = Labels)
  /\ conn' = FannedOut(log')
  /\ alarm' = IF alarm = Null THEN "soon" ELSE alarm
  /\ torn' = FALSE
  /\ UNCHANGED <<mirrored, flush, expires>>

\* closeSubscribers(): a close waits for the writes outstanding, not for the
\* drains that would write more.
CloseSubscribers ==
  /\ ending
  /\ ending' = FALSE
  /\ conn' = [v \in Viewers |-> IF conn[v] = Null THEN Null
                                ELSE [conn[v] EXCEPT !.closing = TRUE]]
  /\ UNCHANGED <<log, terminal, mirrored, alarm, flush, expires, torn>>
  /\ UNCHANGED <<run, client, limits>>

----------------------------------------------------------------------------
\* The modal's connection.

MaxStreamFailures == 2

\* The error listener: the browser reconnects by itself, until the second
\* failure in a row.
Failed(c) ==
  [c EXCEPT !.failures = @ + 1,
            !.mode = IF c.failures + 1 >= MaxStreamFailures THEN "polling" ELSE "connecting"]

\* What becomes of the clients when their streams go.
Disconnected == [v \in Viewers |-> IF conn[v] = Null THEN client[v] ELSE Failed(client[v])]

\* Mutant: a connection starts with the next live event.
ContinuesLive(h, cursor) ==
  IF h.row > 0 /\ h.row < Len(h.rows) THEN <<[h EXCEPT !.row = @ + 1]>> ELSE <<>>

\* What a drain writes when its write of h is done.
Continues(h, cursor) ==
  CASE h.row = 0 /\ cursor < Len(log) -> <<Writing(cursor + 1, log, TRUE)>>
    [] h.row > 0 /\ h.row < Len(h.rows) -> <<[h EXCEPT !.row = @ + 1]>>
    [] OTHER -> <<>>

CursorAfter(c, h) == IF h.row = 0 THEN c.cursor ELSE h.row

\* The client takes a frame and its write resolves: the drain writes on, unless
\* the stream is closing; the connect's drain, when it is through, closes a
\* finished run's stream.
Served(c) ==
  LET h == Head(c.queue)
      on == Continues(h, CursorAfter(c, h))
  IN [cursor  |-> CursorAfter(c, h),
      closing |-> c.closing \/ (h.backlog /\ on = <<>> /\ terminal),
      queue   |-> Tail(c.queue) \o (IF c.closing THEN <<>> ELSE on)]

\* handleEvents(), asked for what comes after the last event id.
Open(v) ==
  /\ client[v].mode = "connecting"
  /\ client' = [client EXCEPT ![v].mode = "live", ![v].failures = 0]
  /\ conn' = [conn EXCEPT ![v] = [cursor |-> client[v].lastId, closing |-> FALSE,
                                  queue |-> <<Writing(0, <<>>, TRUE)>>]]
  /\ UNCHANGED <<store, run, limits>>

\* onMessage(), deliver(): what was seen is dropped; a terminal event closes the
\* EventSource.
Take(v) ==
  LET h == Head(conn[v].queue) IN
  /\ conn[v] # Null /\ conn[v].queue # <<>>
  /\ IF h.row = 0 THEN UNCHANGED client
     ELSE client' = [client EXCEPT ![v] =
            [mode |-> IF h.rows[h.row] = Labels THEN "closed" ELSE "live",
             seen |-> IF h.row > @.seen THEN h.row ELSE @.seen,
             lastId |-> h.row, failures |-> 0]]
  /\ conn' = [conn EXCEPT ![v] = IF client'[v].mode = "closed" THEN Null ELSE Served(@)]
  /\ UNCHANGED <<store, run, limits>>

\* The object's close reaches a client the outcome did not.
EndOfStream(v) ==
  /\ conn[v] # Null /\ conn[v].closing /\ conn[v].queue = <<>>
  /\ conn' = [conn EXCEPT ![v] = Null]
  /\ client' = [client EXCEPT ![v] = Failed(@)]
  /\ UNCHANGED <<store, run, limits>>

\* The connection breaks, or cannot be made.
Break(v) ==
  /\ client[v].mode \in {"connecting", "live"}
  /\ Dropped
  /\ conn' = [conn EXCEPT ![v] = Null]
  /\ client' = [client EXCEPT ![v] = Failed(@)]
  /\ UNCHANGED <<store, run>>

\* The proxy answers with an error status: an EventSource reconnects after a
\* broken connection and never after an HTTP error.
Refuse(v) ==
  /\ client[v].mode = "connecting"
  /\ refused < MaxRefused
  /\ refused' = refused + 1
  /\ client' = [client EXCEPT ![v] =
       [Failed(client[v]) EXCEPT !.mode = IF @ = "polling" THEN "polling" ELSE "dead"]]
  /\ UNCHANGED <<hub, run, lost, drops>>

\* The polling route answers with the log's latest event, or with the job row
\* when the log has none or the object cannot be reached.
Poll(v) ==
  /\ client[v].mode = "polling"
  /\ \/ log # <<>> /\ Last(log) = Labels /\ UNCHANGED limits
     \/ log = <<>> /\ next > Labels /\ UNCHANGED limits
     \/ next > Labels /\ Lost
  /\ client' = [client EXCEPT ![v].mode = "closed"]
  /\ UNCHANGED <<hub, run>>

----------------------------------------------------------------------------
\* The Workflow (external but for its emitter): an emit is awaited, a delta is
\* not, and neither ever fails a step.  Every emit is the first thing a step
\* does; the step's next attempt emits the same label again.

Proceed ==
  \/ next' = next + 1 /\ UNCHANGED retries
  \/ retries < MaxRetries /\ retries' = retries + 1 /\ UNCHANGED next

Emit ==
  /\ next <= Labels
  /\ Proceed
  /\ \/ Receive(next) /\ UNCHANGED limits
     \/ Lost /\ UNCHANGED hub
  /\ UNCHANGED <<flying, deltas, client>>

\* Tokens stream inside a step, so after its own emit and before the last.
Delta ==
  /\ next \in 2..Labels
  /\ deltas < MaxDeltas
  /\ deltas' = deltas + 1
  /\ flying' = flying + 1
  /\ UNCHANGED <<next, retries, hub, client, limits>>

Land ==
  /\ flying > 0
  /\ flying' = flying - 1
  /\ Receive(0)
  /\ UNCHANGED <<next, deltas, retries, client, limits>>

----------------------------------------------------------------------------
\* Evictions: streams and handlers go with the isolate; hydrate() reads the rest
\* back, and an interrupted alarm is delivered again.
Evicted(rows) ==
  /\ log' = rows
  /\ terminal' = Contains(rows, Labels)
  /\ ending' = FALSE
  /\ conn' = [v \in Viewers |-> Null]
  /\ client' = Disconnected
  /\ flush' = Null
  /\ alarm' = IF flush = Null THEN alarm ELSE "soon"

Evict ==
  /\ Dropped
  /\ Evicted(log)
  /\ UNCHANGED <<mirrored, expires, torn, run>>

\* The object goes between an append and its alarm; the emit is not repeated.
EmitCut ==
  /\ next <= Labels
  /\ alarm = Null
  /\ Dropped
  /\ next' = next + 1
  /\ Evicted(Appended(next))
  /\ torn' = (flush = Null)
  /\ UNCHANGED <<mirrored, expires, flying, deltas, retries>>

----------------------------------------------------------------------------
\* The mirror: alarm(), with the append handlers that run while it awaits the
\* shard.

\* Mutant: a full batch is taken for the whole.
AfterBatchDone(n) == "done"

\* A full batch may not be the last.
AfterBatch(n) == IF n = Batch THEN "more" ELSE "done"

\* Mutant: a failed batch is taken for done.
ConcludeAnyway(outcome) ==
  CASE ~ terminal -> UNCHANGED <<alarm, log, expires>>
    [] terminal /\ expires # "passed" -> alarm' = "keep" /\ expires' = "set" /\ UNCHANGED log
    [] terminal /\ expires = "passed" -> log' = <<>> /\ UNCHANGED <<alarm, expires>>

\* The rest of alarm(): come back soon, or keep a finished log for a day, or
\* delete it.
Conclude(outcome) ==
  CASE outcome # "done" -> alarm' = "soon" /\ UNCHANGED <<log, expires>>
    [] outcome = "done" /\ ~ terminal -> UNCHANGED <<alarm, log, expires>>
    [] outcome = "done" /\ terminal /\ expires # "passed" ->
         alarm' = "keep" /\ expires' = "set" /\ UNCHANGED log
    [] outcome = "done" /\ terminal /\ expires = "passed" ->
         log' = <<>> /\ UNCHANGED <<alarm, expires>>

\* The alarm fires, cleared before its handler runs: it reads a batch and awaits
\* the shard.
Mirror ==
  /\ flush = Null
  /\ alarm = "soon" \/ (alarm = "keep" /\ expires = "passed")
  /\ alarm' = Null
  /\ flush' = IF mirrored + Batch < Len(log) THEN mirrored + Batch ELSE Len(log)
  /\ UNCHANGED <<log, terminal, ending, conn, mirrored, expires, torn>>
  /\ UNCHANGED <<run, client, limits>>

Mirrored ==
  /\ flush # Null
  /\ Conclude(AfterBatch(flush - mirrored))
  /\ mirrored' = IF log' = <<>> THEN 0 ELSE flush
  /\ flush' = Null
  /\ UNCHANGED <<terminal, ending, conn, torn>>
  /\ UNCHANGED <<run, client, limits>>

MirrorFails ==
  /\ flush # Null /\ flush > mirrored
  /\ Lost
  /\ Conclude("failed")
  /\ mirrored' = IF log' = <<>> THEN 0 ELSE mirrored
  /\ flush' = Null
  /\ UNCHANGED <<terminal, ending, conn, torn>>
  /\ UNCHANGED <<run, client>>

\* A day after the outcome: the run, what it posted and its streams are over.
DayPasses ==
  /\ expires = "set"
  /\ next > Labels /\ flying = 0
  /\ \A v \in Viewers : conn[v] = Null
  /\ expires' = "passed"
  /\ UNCHANGED <<log, terminal, ending, conn, mirrored, alarm, flush, torn>>
  /\ UNCHANGED <<run, client, limits>>

----------------------------------------------------------------------------
Init ==
  /\ next = 1 /\ flying = 0
  /\ log = <<>> /\ terminal = FALSE /\ ending = FALSE
  /\ conn = [v \in Viewers |-> Null]
  /\ client = [v \in Viewers |->
                 [mode |-> "connecting", seen |-> 0, lastId |-> 0, failures |-> 0]]
  /\ mirrored = 0 /\ alarm = Null /\ flush = Null /\ expires = "unset" /\ torn = FALSE
  /\ deltas = 0 /\ retries = 0 /\ lost = 0 /\ drops = 0 /\ refused = 0

Viewer(v) ==
  Open(v) \/ Take(v) \/ EndOfStream(v) \/ Break(v) \/ Refuse(v) \/ Poll(v)

Next ==
  \/ Emit \/ EmitCut \/ Delta \/ Land
  \/ CloseSubscribers
  \/ \E v \in Viewers : Viewer(v)
  \/ Mirror \/ Mirrored \/ MirrorFails
  \/ DayPasses \/ Evict

Spec == Init /\ [][Next]_vars

\* A browser that is there reads on, reconnects after a break, and polls on.
\* Nothing else is owed: neither an emit, nor a flush, nor a close.
Fairness ==
  \A v \in Viewers : /\ WF_vars(Open(v))
                     /\ WF_vars(Take(v))
                     /\ WF_vars(EndOfStream(v))
                     /\ WF_vars(Poll(v))

FairSpec == Spec /\ Fairness

----------------------------------------------------------------------------
\* Properties.

TypeOK ==
  /\ next \in 1..(Labels + 1) /\ flying \in 0..MaxDeltas
  /\ log \in Seq(0..Labels) /\ terminal \in BOOLEAN /\ ending \in BOOLEAN
  /\ \A v \in Viewers :
       /\ client[v].mode \in {"connecting", "live", "polling", "dead", "closed"}
       /\ client[v].failures \in 0..MaxStreamFailures
       /\ conn[v] # Null <=> client[v].mode = "live"
  /\ mirrored \in 0..Len(log)
  /\ alarm \in {Null, "soon", "keep"}
  /\ flush = Null \/ flush \in mirrored..Len(log)
  /\ expires \in {"unset", "set", "passed"} /\ torn \in BOOLEAN

\* Exactly once per label, and in the Workflow's order: whatever a step's retry
\* emits again and however many posts are lost, the rail never goes back.
RailAdvances ==
  \A i, j \in 1..Len(log) : i < j /\ log[i] # 0 /\ log[j] # 0 => log[i] < log[j]

\* The overlapping drains of one subscriber never put an older frame after a
\* newer one, so where the browser resumes is where the modal is.
FramesInOrder == \A v \in Viewers : client[v].lastId = client[v].seen

\* "Nothing can fall between them": backlog, fan-out, breaks and resumes hand the
\* modal every event of the log, none skipped.
NothingFallsBetween ==
  [][\A v \in Viewers : client'[v].seen <= client[v].seen + 1]_vars

\* What the durable mirror lacks, an alarm or a flush in progress will bring,
\* except when an eviction cut the latest append before its alarm.
UnmirroredHasAlarm ==
  torn \/ mirrored = Len(log) \/ alarm # Null \/ flush # Null

\* A finished run's log is deleted only when the shard has all of it.
PurgeLosesNothing ==
  [][log # <<>> /\ log' = <<>> => flush = Len(log)]_vars

\* A run's outcome, once it is the last word of the log and stays it, reaches
\* every modal whose connections were never refused, through breaks, evictions,
\* streams closed too early and the polling fallback.
OutcomeReaches ==
  \A v \in Viewers :
    <>[](log # <<>> /\ Last(log) = Labels /\ refused = 0) => <>(client[v].mode = "closed")

\* The same of a connection that was answered with an error: "after two
\* consecutive failed connections the stream is abandoned for polling".
OutcomeReachesRefused ==
  \A v \in Viewers :
    <>[](log # <<>> /\ Last(log) = Labels) => <>(client[v].mode = "closed")
=============================================================================
