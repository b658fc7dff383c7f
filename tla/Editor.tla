------------------------------- MODULE Editor -------------------------------
(***************************************************************************)
(* The website editor: browser tabs running useDraftEditor over the one    *)
(* SiteDraftDO of a site.  A tab applies every patch to its own document   *)
(* at once, queues it, and sends one request at a time under the revision  *)
(* the server last confirmed; undo and redo are computed by the server and *)
(* come back with the whole document.                                      *)
(*                                                                         *)
(* Between a tab and the object lies a network: a request or its answer is *)
(* lost, a request lands after its tab gave it up.  Other actors are other *)
(* tabs, a subscription that lapses, a site that is generated anew.        *)
(*                                                                         *)
(* drifted, deaf and author are history variables.  Abstracted: theme      *)
(* tokens, the preview frame, the access check of the route (a 404 is an   *)
(* answer fetch cannot parse: a lost one).                                 *)
(***************************************************************************)
EXTENDS SiteDraft

CONSTANTS
  Tabs,        \* browser tabs on the same site
  Seed,        \* Seed[v]: the published document of version v
  MaxEdits,    \* bound: what the customers type, click, undo and redo
  MaxLosses,   \* bound: requests or answers lost
  MaxLoads,    \* bound: page loads
  MaxVersions  \* bound: the newest version generated

ASSUME SeedAssumption ==
  /\ MaxVersions \in Nat \ {0} /\ 1..MaxVersions \subseteq Versions /\ Versions \subseteq Nat
  /\ Seed \in [Versions -> Documents]

VARIABLES
  tab,      \* per tab: what the hook and the loader keep, or Null
  wire,     \* per tab: the request in flight and its answer, or Null
  timer,    \* per tab and slot: the debounced text with the document its
            \* closure captured, or Null
  late,     \* a request its tab gave up, that may still arrive, or Null
  version,  \* the editable version of the site
  entitled, \* checkEntitlement() lets a write through
  edits, losses, loads, \* the bounded counters
  drifted,  \* per tab: its document was not rebuilt from its own latest one,
            \* or an edit it shows was dropped
  deaf,     \* per tab: an answer of the server never reached it
  author    \* per revision: the tab whose request wrote it, or Null

tabVars == <<tab, wire, timer>>
worldVars == <<version, entitled, losses, loads>>
vars == <<draft, history, timeline, tab, wire, timer, late, version, entitled,
          edits, losses, loads, drifted, deaf, author>>

Halted(t) == tab[t].status \in {"conflict", "blocked"}
Live(t) == tab[t] # Null
NoTimers == [s \in Slots |-> Null]

Patching(p) == [kind |-> "patch", patch |-> p]
Stepping(kind) == [kind |-> kind]

\* What fetch carries: the entry, and the revision it is sent under.
Request(entry, rev) == [entry |-> entry, rev |-> rev, answer |-> Null]

\* Of which they are made: queue entries, the hook's state, answers, requests.
Entries == {Patching(p) : p \in Patches} \cup {Stepping(k) : k \in {"undo", "redo"}}
Statuses == {"idle", "saving", "saved", "rejected", "conflict", "blocked"}
Queues == Seq(Entries)
Hooks == [doc: Documents, rev: Nat, canUndo: BOOLEAN, canRedo: BOOLEAN, status: Statuses,
          queue: Queues, stale: BOOLEAN]
Replies == [ok: {TRUE}, rev: Nat, canUndo: BOOLEAN, canRedo: BOOLEAN,
            doc: Documents \cup {Null}] \cup
           [ok: {FALSE}, reason: {"stale_rev", "blocked", "nothing_to_do"}]
Requests == [entry: Entries, rev: Nat, answer: Replies \cup {Null}]

ASSUME NoneAssumption == Null \notin Documents \cup Hooks \cup Replies \cup Requests \cup Tabs

----------------------------------------------------------------------------
\* pump() over the queue a handler leaves: the head goes out unless a request is
\* in flight or the queue halted.
Pump(t, hook, queue) ==
  IF hook.status \in {"conflict", "blocked"} \/ queue = <<>>
  THEN /\ tab' = [tab EXCEPT ![t] = [hook EXCEPT !.queue = queue]]
       /\ wire' = [wire EXCEPT ![t] = Null]
  ELSE /\ tab' = [tab EXCEPT ![t] = [hook EXCEPT !.queue = Tail(queue), !.status = "saving"]]
       /\ wire' = [wire EXCEPT ![t] = Request(Head(queue), hook.rev)]

\* Mutant: pump() does not look at sending.
EnqueueUnserialised(t, hook, entry) == Pump(t, hook, Append(hook.queue, entry))

Enqueue(t, hook, entry) ==
  IF wire[t] = Null
  THEN Pump(t, hook, Append(hook.queue, entry))
  ELSE /\ tab' = [tab EXCEPT ![t] = [hook EXCEPT !.queue = Append(@, entry)]]
       /\ UNCHANGED wire

\* push(): applied to the document of the render its caller closed over.
Push(t, p, base) ==
  /\ ~ Halted(t)
  /\ IF Accepts(p)
     THEN /\ Enqueue(t, [tab[t] EXCEPT !.doc = ApplyPatch(base, p)], Patching(p))
          /\ drifted' = [drifted EXCEPT ![t] = @ \/ base # tab[t].doc]
     ELSE /\ tab' = [tab EXCEPT ![t].status = "rejected"]
          /\ UNCHANGED <<wire, drifted>>

\* A customer acts on a tab.
Acts(t) == Live(t) /\ edits < MaxEdits /\ edits' = edits + 1

----------------------------------------------------------------------------
\* The editor's loader: readState, or initialise where there is no draft.  The
\* hook starts over; a request of the page before it may still arrive.
Fresh(row, redo) ==
  [doc |-> row.doc, rev |-> row.rev, canUndo |-> row.cursor > 0, canRedo |-> redo,
   status |-> "idle", queue |-> <<>>, stale |-> row.base # version]

GiveUp(t) ==
  \/ UNCHANGED late
  \/ /\ wire[t] # Null /\ wire[t].answer = Null
     /\ late' = wire[t]

Load(t) ==
  /\ loads < MaxLoads
  /\ loads' = loads + 1
  /\ IF HasDraft
     THEN /\ UNCHANGED <<draftVars, author>>
          /\ tab' = [tab EXCEPT ![t] = Fresh(draft, CanRedo)]
     ELSE /\ Initialise(Seed[version], version)
          /\ author' = Append(author, Null)
          /\ tab' = [tab EXCEPT ![t] = Fresh(draft', FALSE)]
  /\ GiveUp(t)
  /\ wire' = [wire EXCEPT ![t] = Null]
  /\ timer' = [timer EXCEPT ![t] = NoTimers]
  /\ drifted' = [drifted EXCEPT ![t] = FALSE]
  /\ deaf' = [deaf EXCEPT ![t] = FALSE]
  /\ UNCHANGED <<version, entitled, edits, losses>>

\* ContentPanel: a keystroke (re)starts the field's timer, whose callback holds
\* the push() of this render.
Type(t, s, text) ==
  /\ Acts(t)
  /\ [op |-> "set_copy", slot |-> s, text |-> text] \in Patches
  /\ timer' = [timer EXCEPT ![t][s] = [text |-> text, base |-> tab[t].doc]]
  /\ UNCHANGED <<draftVars, tab, wire, late, worldVars, drifted, deaf, author>>

\* The debounce runs out.
Fire(t, s) ==
  /\ Live(t) /\ timer[t][s] # Null
  /\ timer' = [timer EXCEPT ![t][s] = Null]
  /\ \/ Push(t, [op |-> "set_copy", slot |-> s, text |-> timer[t][s].text],
             timer[t][s].base)
     \/ Halted(t) /\ UNCHANGED <<tab, wire, drifted>>
  /\ UNCHANGED <<draftVars, late, worldVars, edits, deaf, author>>

\* Another panel is opened: ContentPanel unmounts and clears its timers.
LeavePanel(t) ==
  /\ Live(t) /\ timer[t] # NoTimers
  /\ timer' = [timer EXCEPT ![t] = NoTimers]
  /\ UNCHANGED <<draftVars, tab, wire, late, worldVars, edits, drifted, deaf, author>>

\* The other panels push at once, over the document on the screen.
Click(t, p) ==
  /\ Acts(t)
  /\ p.op # "set_copy"
  /\ Push(t, p, tab[t].doc)
  /\ UNCHANGED <<draftVars, timer, late, worldVars, deaf, author>>

AskStep(t, kind) ==
  /\ Acts(t)
  /\ ~ Halted(t)
  /\ IF kind = "undo" THEN tab[t].canUndo ELSE tab[t].canRedo
  /\ Enqueue(t, tab[t], Stepping(kind))
  /\ UNCHANGED <<draftVars, timer, late, worldVars, drifted, deaf, author>>

----------------------------------------------------------------------------
\* Mutant: a stale revision is not looked at.
StaleNever(r) == FALSE

Stale(r) == HasDraft /\ r.entry.kind = "patch" /\ r.rev # draft.rev

\* The DO call a request makes, past every refusal.
Apply(r) ==
  \/ r.entry.kind = "patch" /\ ~ Stale(r) /\ ApplyEdit(r.entry.patch)
  \/ r.entry.kind = "undo" /\ Undo
  \/ r.entry.kind = "redo" /\ Redo

\* The resource route refuses, or the object does.
Reason(r) ==
  IF ~ entitled THEN "blocked"
  ELSE IF Stale(r) THEN "stale_rev"
  ELSE IF r.entry.kind = "patch" \/ (HasDraft /\ draft.cursor + (IF r.entry.kind = "undo"
                                                    THEN 0 ELSE 1) \in DOMAIN history)
  THEN "ok"
  ELSE "nothing_to_do"

Refused(reason) == [ok |-> FALSE, reason |-> reason]

Accepted(r) ==
  [ok |-> TRUE, rev |-> draft'.rev, canUndo |-> CanUndoNext,
   canRedo |-> IF r.entry.kind = "patch" THEN FALSE ELSE CanRedoNext,
   doc |-> IF r.entry.kind = "patch" THEN Null ELSE draft'.doc]

\* The route handles the request of a tab that still listens.
Serve(t) ==
  /\ wire[t] # Null /\ wire[t].answer = Null
  /\ \/ /\ Reason(wire[t]) = "ok"
        /\ Apply(wire[t])
        /\ author' = Append(author, t)
        /\ wire' = [wire EXCEPT ![t].answer = Accepted(wire[t])]
     \/ /\ Reason(wire[t]) # "ok"
        /\ wire' = [wire EXCEPT ![t].answer = Refused(Reason(wire[t]))]
        /\ UNCHANGED <<draftVars, author>>
  /\ UNCHANGED <<tab, timer, late, worldVars, edits, drifted, deaf>>

\* It handles one that nobody listens to any more.
ServeLate ==
  /\ late # Null
  /\ late' = Null
  /\ \/ /\ Reason(late) = "ok"
        /\ Apply(late)
        /\ author' = Append(author, Null)
     \/ Reason(late) # "ok" /\ UNCHANGED <<draftVars, author>>
  /\ UNCHANGED <<tabVars, worldVars, edits, drifted, deaf>>

Patched(q) == {i \in DOMAIN q : q[i].kind = "patch"}

\* pump() past its await, where the answer is ok.  The document of an undo or a
\* redo replaces the tab's, queued edits and all.
Confirm(t) ==
  LET a == wire[t].answer
      hook == [tab[t] EXCEPT !.rev = a.rev, !.canUndo = a.canUndo, !.canRedo = a.canRedo,
                             !.status = "saved",
                             !.doc = IF a.doc = Null THEN @ ELSE a.doc]
  IN
  /\ wire[t] # Null /\ a # Null /\ a.ok
  /\ Pump(t, hook, tab[t].queue)
  /\ drifted' = [drifted EXCEPT ![t] =
                   IF a.doc = Null THEN @ ELSE Patched(tab[t].queue) # {}]
  /\ UNCHANGED <<draftVars, timer, late, worldVars, edits, deaf, author>>

\* Another writer, or no subscription: the queue stops.
Halt(t) ==
  /\ wire[t] # Null /\ wire[t].answer # Null
  /\ wire[t].answer.ok = FALSE /\ wire[t].answer.reason \in {"stale_rev", "blocked"}
  /\ Pump(t, [tab[t] EXCEPT !.status = IF wire[t].answer.reason = "stale_rev"
                                       THEN "conflict" ELSE "blocked"], <<>>)
  /\ UNCHANGED <<draftVars, timer, late, worldVars, edits, drifted, deaf, author>>

\* Any other refusal: the entry is dropped and the queue goes on.
Drop(t) ==
  /\ wire[t] # Null /\ wire[t].answer # Null
  /\ wire[t].answer.ok = FALSE /\ wire[t].answer.reason \notin {"stale_rev", "blocked"}
  /\ Pump(t, [tab[t] EXCEPT !.status = "rejected"], tab[t].queue)
  /\ drifted' = [drifted EXCEPT ![t] = @ \/ wire[t].entry.kind = "patch"]
  /\ UNCHANGED <<draftVars, timer, late, worldVars, edits, deaf, author>>

\* Mutant: what throws does not pump again.
FailAndStop(t) ==
  /\ wire[t] # Null
  /\ losses < MaxLosses
  /\ losses' = losses + 1
  /\ tab' = [tab EXCEPT ![t].status = "rejected"]
  /\ wire' = [wire EXCEPT ![t] = Null]
  /\ drifted' = [drifted EXCEPT ![t] = TRUE]
  /\ deaf' = [deaf EXCEPT ![t] = TRUE]
  /\ UNCHANGED <<draftVars, timer, late, version, entitled, loads, edits, author>>

\* fetch throws: the request or its answer is lost, and the entry is dropped.
Fail(t) ==
  /\ wire[t] # Null
  /\ losses < MaxLosses
  /\ losses' = losses + 1
  /\ GiveUp(t)
  /\ Pump(t, [tab[t] EXCEPT !.status = "rejected"], tab[t].queue)
  /\ drifted' = [drifted EXCEPT ![t] = TRUE]
  /\ deaf' = [deaf EXCEPT ![t] = TRUE]
  /\ UNCHANGED <<draftVars, timer, version, entitled, loads, edits, author>>

----------------------------------------------------------------------------
\* The route's action behind the stale notice: the draft is reseeded.  The hook
\* of the tab keeps its state (EditorScreen is keyed by the site alone); whether
\* the loader's notice goes away is React Router's business.
Discard(t) ==
  /\ Live(t) /\ tab[t].stale /\ entitled
  /\ Acts(t)
  /\ Reseed(Seed[version], version)
  /\ author' = Append(author, Null)
  /\ \E s \in BOOLEAN : tab' = [tab EXCEPT ![t].stale = s]
  /\ UNCHANGED <<wire, timer, late, worldVars, drifted, deaf>>

\* The generator writes a new version (external).
Regenerate ==
  /\ version < MaxVersions
  /\ version' = version + 1
  /\ UNCHANGED <<draftVars, tabVars, late, entitled, edits, losses, loads, drifted, deaf, author>>

\* The subscription lapses (external).
Lapse ==
  /\ entitled
  /\ entitled' = FALSE
  /\ UNCHANGED <<draftVars, tabVars, late, version, edits, losses, loads, drifted, deaf, author>>

Init ==
  /\ DraftInit
  /\ tab = [t \in Tabs |-> Null]
  /\ wire = [t \in Tabs |-> Null]
  /\ timer = [t \in Tabs |-> NoTimers]
  /\ late = Null
  /\ version = 1 /\ entitled = TRUE
  /\ edits = 0 /\ losses = 0 /\ loads = 0
  /\ drifted = [t \in Tabs |-> FALSE]
  /\ deaf = [t \in Tabs |-> FALSE]
  /\ author = <<>>

TabStep(t) ==
  \/ Load(t)
  \/ \E s \in Slots, x \in Texts : Type(t, s, x)
  \/ \E s \in Slots : Fire(t, s)
  \/ LeavePanel(t)
  \/ \E p \in Patches : Click(t, p)
  \/ \E kind \in {"undo", "redo"} : AskStep(t, kind)
  \/ Serve(t)
  \/ Confirm(t)
  \/ Halt(t)
  \/ Drop(t)
  \/ Fail(t)
  \/ Discard(t)

Next ==
  \/ \E t \in Tabs : TabStep(t)
  \/ ServeLate
  \/ Regenerate
  \/ Lapse

Spec == Init /\ [][Next]_vars

Answer(t) == Confirm(t) \/ Halt(t) \/ Drop(t)

\* A Worker answers and a fetch settles.
FairSpec == Spec /\ \A t \in Tabs : WF_vars(Serve(t)) /\ WF_vars(Answer(t))

----------------------------------------------------------------------------
TypeOK ==
  /\ DraftTypeOK
  /\ tab \in [Tabs -> Hooks \cup {Null}]
  /\ wire \in [Tabs -> Requests \cup {Null}]
  /\ late \in Requests \cup {Null}
  /\ version \in 1..MaxVersions
  /\ author \in Seq(Tabs \cup {Null})
  /\ drifted \in [Tabs -> BOOLEAN] /\ deaf \in [Tabs -> BOOLEAN]

\* The edits a tab waits for are sent or queued: over the stored document, and
\* the request in flight if it is not served yet, they make the document on the
\* screen.
Unserved(t) ==
  IF wire[t] # Null /\ wire[t].answer = Null THEN <<wire[t].entry>> \o tab[t].queue
  ELSE tab[t].queue

Replay(q, doc) ==
  LET shown[n \in 0..Len(q)] == IF n = 0 THEN doc ELSE ApplyPatch(shown[n - 1], q[n].patch)
  IN  shown[Len(q)]

\* A tab knows the stored revision: by its last answer, or by one on its way.
Current(t) ==
  IF wire[t] # Null /\ wire[t].answer # Null
  THEN wire[t].answer.ok /\ wire[t].answer.rev = draft.rev
  ELSE tab[t].rev = draft.rev
AwaitsStep(t) ==
  \/ wire[t] # Null /\ wire[t].entry.kind # "patch"
  \/ \E i \in DOMAIN tab[t].queue : tab[t].queue[i].kind # "patch"

\* The optimistic document and the stored one do not drift apart
\* (useDraftEditor.ts:24-27), but for three causes: a debounced push over an
\* older render, an undo's document over queued edits, an edit dropped.  A tab
\* none of them met shows what is stored with its unsent edits applied, whatever
\* other tabs, late requests, lapses and reseeds do.
DriftHasACause ==
  \A t \in Tabs :
    (Live(t) /\ ~ Halted(t) /\ ~ drifted[t] /\ Current(t) /\ ~ AwaitsStep(t)) =>
      tab[t].doc = Replay(Unserved(t), draft.doc)

\* A conflict means another writer (useDraftEditor.ts:30-34), or an answer this
\* tab never heard: never its own queue.
ConflictHasACause ==
  \A t \in Tabs :
    (Live(t) /\ tab[t].status = "conflict") =>
      \/ deaf[t]
      \/ \E r \in (tab[t].rev + 1)..Len(author) : author[r] # t

\* "Saved" is the word a customer looks for before closing the tab: the page
\* shows what is stored (useDraftEditor.ts:24-27, site.editor.tsx:385).
SavedIsStored ==
  \A t \in Tabs :
    (Live(t) /\ tab[t].status = "saved" /\ tab[t].rev = draft.rev) =>
      tab[t].doc = draft.doc

\* What is queued goes out, or is let go of in so many words: no entry waits
\* for ever behind a request that was answered.
QueueDrains ==
  \A t \in Tabs : (Live(t) /\ tab[t].queue # <<>>) ~> (Live(t) /\ tab[t].queue = <<>>)
=============================================================================
