------------------------------ MODULE Autosave ------------------------------
(***************************************************************************)
(* The onboarding draft: the tabs of one browser that edit it              *)
(* (useDraft.ts, OnboardingModal.tsx), the rows the api keeps of it        *)
(* (drafts.ts, packages/db/src/cp/drafts.ts), and the submit that closes   *)
(* it, of which Submit models the rest.                                    *)
(*                                                                         *)
(* A form is the set of edits it shows.  Every edit and every write of the *)
(* api takes a new instant; the clock of the browser is off by Skew.       *)
(* Requests overtake one another; an answer may be lost and its request    *)
(* sent again; a tab may be hidden or closed at any time.                  *)
(*                                                                         *)
(* History variables and fields: loose, restored, outrun, writers, form,   *)
(* saved, owed.                                                            *)
(* Abstracted: which field an edit is of and what its column accepts, the  *)
(* step the wizard is on, Turnstile except for the draft it binds a submit *)
(* to, the age of cookies and rows (30 days, no purge runs).               *)
(***************************************************************************)
EXTENDS Integers, Sequences, SequencesExt

CONSTANTS
  Tabs,
  Skew,        \* how far the clock of the browser is ahead of the api's
  MaxEdits,    \* bound: edits
  MaxUploads,  \* bound: requests for a draft a tab has sent when a photo asks for one
  Budgets      \* bound: per tab, what its visitor does and its network fails to do

ASSUME AutosaveAssumption ==
  Skew \in Int /\ MaxEdits \in Nat /\ MaxUploads \in Nat /\ Budgets \subseteq [Tabs -> Nat]

VARIABLES
  rows,     \* onboarding_drafts, by the order they were created in
  cookie,   \* __Host-aib_draft: the session, named by its first row, or 0
  local,    \* localStorage: the draft the tabs of the browser share
  tab,      \* the useDraft() and the submit of each tab
  adrift,   \* saves whose answer nobody waits for
  now,      \* the clock of the api
  edits, moves,  \* the bounded counters
  loose,    \* edits put on a screen in a way that may leave them unsaved
  restored, \* edits a tab took from a copy that was out of date, or that a save of
            \* its own may not have
  outrun    \* edits a save took out of a row that, by the clock of the api, was written
            \* after the draft it carries; there are none unless the browser's is ahead

vars == <<rows, cookie, local, tab, adrift, now, edits, moves, loose, restored, outrun>>

Edits == 1..MaxEdits
Pages == {"closed", "mounted", "read", "resume", "editing"}
Submits == {"idle", "flushing", "creating", "token", "sent", "received", "screened",
            "accepted", "refused"}

\* A draft as a tab, localStorage or a conflict has it: id 0 is the null of
\* draftId, and of an answer that there is no draft.
Draft == [id : Nat, content : SUBSET Edits, stamp : Int]
NoDraft == [id |-> 0, content |-> {}, stamp |-> 0]

Row == [session : Nat, status : {"open", "rejected", "submitted"}, content : SUBSET Edits,
        updated : Nat, writers : SUBSET Tabs, form : SUBSET Edits, owed : SUBSET Edits]

Save == [state : {"sent", "stored", "refused"}, body : Draft, session : Nat, reply : Draft,
         awaited : BOOLEAN]
Create == [session : Nat, id : Nat, awaited : BOOLEAN]
Submission == [at : Submits, payload : SUBSET Edits, session : Nat, id : Nat, row : Nat,
               saved : Nat]

TypeOK ==
  /\ rows \in Seq(Row) /\ cookie \in 0..Len(rows) /\ local \in Draft
  /\ tab \in [Tabs -> [page : Pages, draft : Draft, dirty : BOOLEAN, frozen : BOOLEAN,
                       due : BOOLEAN, failed : BOOLEAN, ask : Draft,
                       got : Draft, saves : Seq(Save), creates : Seq(Create),
                       submit : Submission]]
  /\ adrift \subseteq [by : Tabs, body : Draft, session : Nat]
  /\ now \in Nat /\ edits \in 0..MaxEdits /\ moves \in [Tabs -> Nat]
  /\ loose \subseteq Edits /\ restored \subseteq Edits /\ outrun \subseteq Edits

Idle == [at |-> "idle", payload |-> {}, session |-> 0, id |-> 0, row |-> 0, saved |-> 0]

\* useDraft() when the island mounts: the draft is the one localStorage holds.
Fresh(page, draft) ==
  [page |-> page, draft |-> draft, dirty |-> FALSE, frozen |-> FALSE, due |-> FALSE,
   failed |-> FALSE, ask |-> NoDraft, got |-> NoDraft, saves |-> <<>>,
   creates |-> <<>>, submit |-> Idle]

Init ==
  /\ rows = <<>> /\ cookie = 0 /\ local = NoDraft
  /\ tab = [t \in Tabs |-> Fresh("closed", NoDraft)]
  /\ adrift = {} /\ now = 0
  /\ edits = 0 /\ moves \in Budgets /\ loose = {} /\ restored = {} /\ outrun = {}

----------------------------------------------------------------------------
Move(t) == moves[t] > 0 /\ moves' = [moves EXCEPT ![t] = @ - 1]
Tick == now' = now + 1
Becomes(t, c) == tab' = [tab EXCEPT ![t] = c]
Editing(t) == tab[t].page = "editing" /\ ~ tab[t].frozen

\* getLatestDraftForSession()
Current(session) ==
  CHOOSE i \in DOMAIN rows :
    /\ rows[i].session = session
    /\ \A j \in DOMAIN rows : rows[j].session = session => rows[j].updated <= rows[i].updated

\* toDraftView()
View(i) == [id |-> i, content |-> rows[i].content, stamp |-> rows[i].updated]

\* What of a client is written by update() and its schedule().
Scheduled(c) == [c EXCEPT !.dirty = TRUE, !.due = TRUE]
Updated(c, content) == Scheduled([c EXCEPT !.draft.content = content, !.draft.stamp = now + 1 + Skew])

\* writeServer(): the PUT it sends, if it sends one.
Writes(c) == ~ c.frozen /\ c.draft.id # 0 /\ c.dirty
Sent(c, session, awaited) ==
  [state |-> "sent", body |-> c.draft, session |-> session, reply |-> NoDraft, awaited |-> awaited]
Writing(c, session, awaited) ==
  IF Writes(c) THEN [c EXCEPT !.saves = Append(@, Sent(c, session, awaited))] ELSE c

\* flush(), with its writeLocal().
Flushing(c, awaited) == Writing([c EXCEPT !.due = FALSE], cookie, awaited)

SavesOf(t) == tab[t].saves # <<>>
InFlight(t) == SavesOf(t) \/ \E p \in adrift : p.by = t
Restores(t, copy) ==
  restored' = IF copy.id # 0 /\ (InFlight(t) \/ rows[copy.id].updated # copy.stamp)
              THEN restored \cup copy.content ELSE restored

----------------------------------------------------------------------------
\* The form.
Edit(t) ==
  /\ Editing(t) /\ Move(t) /\ Tick
  /\ edits < MaxEdits /\ edits' = edits + 1
  /\ LET e == edits'
         c == Updated(tab[t], tab[t].draft.content \cup {e})
     IN /\ Becomes(t, c) /\ local' = c.draft
        /\ loose' = IF SavesOf(t) THEN loose \cup {e} ELSE loose
  /\ UNCHANGED <<rows, cookie, adrift, restored, outrun>>

\* The next step: setStep(), then flush().
Advance(t) ==
  /\ Editing(t) /\ Move(t) /\ Tick
  /\ LET c == Flushing(Updated(tab[t], tab[t].draft.content), FALSE)
     IN Becomes(t, c) /\ local' = c.draft
  /\ UNCHANGED <<rows, cookie, adrift, edits, loose, restored, outrun>>

\* closeDialog() flushes; the next start() offers to resume what is there.
Leave(t) ==
  /\ Editing(t) /\ tab[t].submit.at = "idle" /\ tab[t].draft.content # {} /\ Move(t)
  /\ Becomes(t, [Flushing(tab[t], FALSE) EXCEPT !.page = "resume"])
  /\ local' = tab[t].draft
  /\ UNCHANGED <<rows, cookie, adrift, now, edits, loose, restored, outrun>>

Resume(t) ==
  /\ tab[t].page = "resume"
  /\ Becomes(t, [tab[t] EXCEPT !.page = "editing"])
  /\ UNCHANGED <<rows, cookie, local, adrift, now, edits, moves, loose, restored, outrun>>

\* Mutant: reset() alone, which only marks the draft dirty.
ResetOnly(c) == [c EXCEPT !.draft.content = {}, !.draft.stamp = 0, !.dirty = TRUE]

\* reset() empties the draft and keeps its id; goToStep(1) then stamps it.
Emptied(c) == Updated(c, {})

Restart(t) ==
  /\ tab[t].page = "resume" /\ Move(t) /\ Tick
  /\ LET c == Emptied(tab[t])
     IN Becomes(t, [c EXCEPT !.page = "editing"]) /\ local' = c.draft
  /\ UNCHANGED <<rows, cookie, adrift, edits, loose, restored, outrun>>

\* The server debounce fires.
ServerTimer(t) ==
  /\ tab[t].due /\ tab[t].page # "closed"
  /\ Becomes(t, Writing([tab[t] EXCEPT !.due = FALSE], cookie, FALSE))
  /\ UNCHANGED <<rows, cookie, local, adrift, now, edits, moves, loose, restored, outrun>>

\* The online event.
Online(t) ==
  /\ tab[t].failed /\ tab[t].page # "closed"
  /\ Becomes(t, Writing([tab[t] EXCEPT !.failed = FALSE], cookie, FALSE))
  /\ UNCHANGED <<rows, cookie, local, adrift, now, edits, moves, loose, restored, outrun>>

\* flushDraftOnUnload(): a save that outlives its document.
Parting(t) ==
  IF Writes(tab[t]) THEN {[by |-> t, body |-> tab[t].draft, session |-> cookie]} ELSE {}

\* The tab is hidden, and stays.
Hide(t) ==
  /\ tab[t].page # "closed" /\ Move(t)
  /\ local' = tab[t].draft
  /\ adrift' = adrift \cup Parting(t)
  /\ UNCHANGED <<rows, cookie, tab, now, edits, loose, restored, outrun>>

\* A save that was sent may still arrive when its tab is gone; a submit that was
\* sent goes on.
Adrift(t, p) == [by |-> t, body |-> p.body, session |-> p.session]
Reached == {"sent", "received", "screened", "accepted", "refused"}
Close(t) ==
  /\ tab[t].page # "closed" /\ Move(t)
  /\ local' = tab[t].draft
  /\ adrift' = adrift \cup Parting(t)
       \cup {Adrift(t, tab[t].saves[k]) : k \in {j \in DOMAIN tab[t].saves : tab[t].saves[j].state = "sent"}}
  /\ Becomes(t, IF tab[t].submit.at \in Reached
                 THEN [Fresh("closed", tab[t].draft) EXCEPT !.submit = tab[t].submit]
                 ELSE Fresh("closed", NoDraft))
  /\ UNCHANGED <<rows, cookie, now, edits, loose, restored, outrun>>

----------------------------------------------------------------------------
\* Opening: the island mounts with localStorage; start() asks the api, and
\* hydrates from what it answered.
Mount(t) ==
  /\ tab[t].page = "closed" /\ tab[t].submit.at = "idle" /\ Move(t)
  /\ Becomes(t, Fresh("mounted", local))
  /\ restored' = restored \cup
       {e \in local.content : \E p \in adrift : p.by = t /\ e \notin p.body.content}
  /\ UNCHANGED <<rows, cookie, local, adrift, now, edits, loose, outrun>>

\* GET /v1/drafts/me: the draft, none, or no answer.
Load(t) ==
  /\ tab[t].page = "mounted"
  /\ \/ /\ Becomes(t, [tab[t] EXCEPT !.page = "read",
                         !.got = IF cookie = 0 THEN NoDraft ELSE View(Current(cookie))])
        /\ UNCHANGED <<moves, loose>>
     \/ /\ Move(t)
        /\ Becomes(t, [tab[t] EXCEPT !.page = "read"])
        /\ loose' = loose \cup tab[t].draft.content
  /\ UNCHANGED <<rows, cookie, local, adrift, now, edits, restored, outrun>>

\* hydrate(): ask when the copy of the api is newer by more than a minute, take it
\* when it is newer by less or there is nothing here, else push what is here.
\* A job stored in the browser leads to the checkout screen, frozen.
Newer(t) == tab[t].got.stamp > tab[t].draft.stamp

Hydrated(t) ==
  LET c == tab[t]
      full == c.draft.content # {}
  IN IF c.got.id = 0 THEN {c}
     ELSE IF Newer(t) /\ full THEN {[c EXCEPT !.ask = c.got], [c EXCEPT !.draft = c.got]}
     ELSE IF Newer(t) \/ ~ full THEN {[c EXCEPT !.draft = c.got]}
     ELSE {Writing([c EXCEPT !.draft.id = c.got.id, !.dirty = TRUE], cookie, FALSE)}

Hydrate(t) ==
  /\ tab[t].page = "read"
  /\ \E c \in Hydrated(t), frozen \in BOOLEAN, page \in {"editing", "resume"} :
       /\ frozen => \E i \in DOMAIN rows : rows[i].status = "submitted"
       /\ page = "resume" => c.draft.content # {} /\ ~ frozen
       /\ Becomes(t, [c EXCEPT !.page = page, !.frozen = frozen, !.got = NoDraft])
  /\ Restores(t, tab[t].got)
  /\ UNCHANGED <<rows, cookie, local, adrift, now, edits, moves, loose, outrun>>

----------------------------------------------------------------------------
\* PUT /v1/drafts/me.
\* Mutant: the autosave does not compare the time of the row.
StorableAnyTime(i, body) == rows[i].status = "open"

\* updateDraftIntake(): WHERE status = 'open' AND updated_at <= ifUnmodifiedSince.
Storable(i, body) == rows[i].status = "open" /\ rows[i].updated <= body.stamp

Stored(i, t, content) ==
  [rows EXCEPT ![i].content = content, ![i].updated = now + 1, ![i].writers = @ \cup {t}]

Answer(t, k, state, reply) ==
  tab' = [tab EXCEPT ![t].saves[k].state = state, ![t].saves[k].reply = reply]

\* The time of the row admits a draft that, by the clock of the api, is older.
Outruns(i, body) == body.stamp \in rows[i].updated .. rows[i].updated + Skew - 1

Overtakes(t, i, body) ==
  outrun' = IF Outruns(i, body)
            THEN outrun \cup ((rows[i].content \ body.content) \cap tab[t].draft.content) ELSE outrun

\* The whole form is written, or the 409 carries the draft as it is.
Put(t, k) ==
  LET s == tab[t].saves[k]
      i == Current(s.session)
  IN /\ s.state = "sent"
     /\ \/ /\ Storable(i, s.body)
           /\ rows' = Stored(i, t, s.body.content) /\ Tick /\ Overtakes(t, i, s.body)
           /\ Answer(t, k, "stored", [id |-> i, content |-> {}, stamp |-> now + 1])
        \/ /\ ~ Storable(i, s.body)
           /\ Answer(t, k, "refused", View(i))
           /\ UNCHANGED <<rows, now, outrun>>
     /\ UNCHANGED <<cookie, local, adrift, edits, moves, loose, restored>>

\* A save nobody waits for arrives.
PutAdrift(p) ==
  LET i == Current(p.session)
  IN /\ adrift' = adrift \ {p}
     /\ IF Storable(i, p.body)
        THEN rows' = Stored(i, p.by, p.body.content) /\ Tick /\ Overtakes(p.by, i, p.body)
        ELSE UNCHANGED <<rows, now, outrun>>
     /\ UNCHANGED <<cookie, local, tab, edits, moves, loose, restored>>

\* ensureServerDraft(): a POST /v1/drafts, unless the draft has its id.
Post(c, awaited) == [c EXCEPT !.creates = Append(@, [session |-> cookie, id |-> 0, awaited |-> awaited])]

\* A submit goes on when its flush is over, whatever came of it.
Ensured(c) ==
  IF c.draft.id = 0 THEN [Post(c, TRUE) EXCEPT !.submit.at = "creating"]
                    ELSE [c EXCEPT !.submit.at = "token"]
Flushed(c, s, saved) ==
  IF s.awaited /\ c.submit.at = "flushing"
  THEN Ensured([c EXCEPT !.submit.saved = saved]) ELSE c

Without(c, k) == [c EXCEPT !.saves = RemoveAt(@, k)]

\* Mutant: a save that was refused is taken for done as well.
SettledClean(c, s) ==
  IF s.state = "stored"
  THEN [c EXCEPT !.dirty = FALSE, !.failed = FALSE, !.draft.stamp = s.reply.stamp]
  ELSE [c EXCEPT !.dirty = FALSE]

\* writeServer(), after its await.
Settled(c, s) ==
  IF s.state = "stored"
  THEN [c EXCEPT !.dirty = FALSE, !.failed = FALSE, !.draft.stamp = s.reply.stamp]
  ELSE [c EXCEPT !.ask = s.reply]

Return(t, k) ==
  LET s == tab[t].saves[k]
  IN /\ s.state # "sent"
     /\ Becomes(t, Flushed(Settled(Without(tab[t], k), s), s,
                           IF s.state = "stored" THEN s.reply.id ELSE 0))
     /\ loose' = IF s.state = "stored" /\ s.reply.id # tab[t].draft.id
                 THEN loose \cup tab[t].draft.content ELSE loose
     /\ UNCHANGED <<rows, cookie, local, adrift, now, edits, moves, restored, outrun>>

\* putDraft() is retried: an answer was lost, or the request was given up while
\* it may still arrive.
Retry(t, k) ==
  LET s == tab[t].saves[k]
  IN /\ Move(t)
     /\ \/ s.state # "sent" /\ Answer(t, k, "sent", NoDraft) /\ UNCHANGED adrift
        \/ s.state = "sent" /\ adrift' = adrift \cup {Adrift(t, s)} /\ UNCHANGED tab
     /\ UNCHANGED <<rows, cookie, local, now, edits, loose, restored, outrun>>

\* The last attempt fails as well.
GiveUp(t, k) ==
  LET s == tab[t].saves[k]
  IN /\ Move(t)
     /\ Becomes(t, Flushed([Without(tab[t], k) EXCEPT !.failed = TRUE], s, 0))
     /\ adrift' = IF s.state = "sent" THEN adrift \cup {Adrift(t, s)} ELSE adrift
     /\ UNCHANGED <<rows, cookie, local, now, edits, loose, restored, outrun>>

\* resolveConflict()
UseServer(t) ==
  /\ tab[t].ask.id # 0 /\ tab[t].page # "closed" /\ Move(t)
  /\ Becomes(t, [tab[t] EXCEPT !.draft = tab[t].ask, !.ask = NoDraft, !.dirty = FALSE,
                   !.submit.saved = IF @ = tab[t].ask.id THEN @ ELSE 0])
  /\ local' = tab[t].ask
  /\ Restores(t, tab[t].ask)
  /\ UNCHANGED <<rows, cookie, adrift, now, edits, loose, outrun>>

UseLocal(t) ==
  /\ tab[t].ask.id # 0 /\ tab[t].page # "closed" /\ Move(t)
  /\ LET ask == tab[t].ask
         c == [tab[t] EXCEPT !.draft.id = ask.id, !.draft.stamp = tab[t].ask.stamp,
                             !.ask = NoDraft, !.dirty = TRUE]
     IN /\ Becomes(t, Writing(c, cookie, FALSE))
        /\ loose' = IF ask.id = tab[t].draft.id THEN loose ELSE loose \cup c.draft.content
  /\ UNCHANGED <<rows, cookie, local, adrift, now, edits, restored, outrun>>

----------------------------------------------------------------------------
\* POST /v1/drafts: a photo, or a submit, needs a draft.
Upload(t) ==
  /\ Editing(t) /\ tab[t].draft.id = 0 /\ Len(tab[t].creates) < MaxUploads /\ Move(t)
  /\ Becomes(t, Post(tab[t], FALSE))
  /\ UNCHANGED <<rows, cookie, local, adrift, now, edits, loose, restored, outrun>>

\* An open draft of the session is used again; a session is minted with the row
\* unless the request has one.
Mint(session) ==
  [session |-> IF session = 0 THEN Len(rows) + 1 ELSE session, status |-> "open", content |-> {},
   updated |-> now + 1, writers |-> {}, form |-> {}, owed |-> {}]

CreateDraft(t, k) ==
  LET session == tab[t].creates[k].session
      reuse == session # 0 /\ rows[Current(session)].status = "open"
  IN /\ tab[t].creates[k].id = 0
     /\ IF reuse THEN UNCHANGED <<rows, now>> ELSE rows' = Append(rows, Mint(session)) /\ Tick
     /\ tab' = [tab EXCEPT ![t].creates[k].id = IF reuse THEN Current(session) ELSE Len(rows) + 1]
     /\ UNCHANGED <<cookie, local, adrift, edits, moves, loose, restored, outrun>>

\* The answer brings the cookie and the id; what is there is pushed, not awaited.
Created(t, k) ==
  LET c == tab[t]
      new == c.creates[k]
      session == rows[new.id].session
      named == [c EXCEPT !.creates = RemoveAt(@, k), !.draft.id = new.id, !.dirty = TRUE,
                         !.submit.at = IF new.awaited /\ @ = "creating" THEN "token" ELSE @]
  IN /\ new.id # 0
     /\ cookie' = session
     /\ Becomes(t, Writing(named, session, FALSE))
     /\ loose' = IF c.draft.id # 0 THEN loose \cup c.draft.content ELSE loose
     /\ UNCHANGED <<rows, local, adrift, now, edits, moves, restored, outrun>>

CreateFails(t, k) ==
  /\ Move(t)
  /\ Becomes(t, [tab[t] EXCEPT !.creates = RemoveAt(@, k),
                   !.submit = IF tab[t].creates[k].awaited THEN Idle ELSE @])
  /\ UNCHANGED <<rows, cookie, local, adrift, now, edits, loose, restored, outrun>>

----------------------------------------------------------------------------
\* submit(): the form is taken as it is, flushed, and sent.
\* Mutant: the flush is not waited for.
BeginUnawaited(c) ==
  Ensured([Flushing(c, FALSE) EXCEPT
             !.submit = [Idle EXCEPT !.payload = c.draft.content, !.saved = c.draft.id]])

Begin(c) ==
  LET saved == IF c.dirty \/ c.ask.id # 0 THEN 0 ELSE c.draft.id
      begun == [Flushing(c, TRUE) EXCEPT
                  !.submit = [Idle EXCEPT !.at = "flushing", !.payload = c.draft.content, !.saved = saved]]
  IN IF Writes(c) THEN begun ELSE Ensured(begun)

Submit(t) ==
  /\ Editing(t) /\ tab[t].submit.at = "idle" /\ tab[t].draft.content # {} /\ Move(t)
  /\ Becomes(t, Begin(tab[t]))
  /\ local' = tab[t].draft
  /\ UNCHANGED <<rows, cookie, adrift, now, edits, loose, restored, outrun>>

\* The token is bound to the draft the tab knows.
SendSubmit(t) ==
  /\ tab[t].submit.at = "token"
  /\ Becomes(t, [tab[t] EXCEPT !.submit.at = "sent", !.submit.session = cookie,
                               !.submit.id = tab[t].draft.id])
  /\ UNCHANGED <<rows, cookie, local, adrift, now, edits, moves, loose, restored, outrun>>

Goes(t, at) == Becomes(t, [tab[t] EXCEPT !.submit.at = at])
Closed(i) == IF rows[i].status = "submitted" THEN "accepted" ELSE "refused"

\* The api reads the draft: one that is not open is replayed, and the token must
\* be of this draft.
Receive(t) ==
  LET i == Current(tab[t].submit.session)
  IN /\ tab[t].submit.at = "sent"
     /\ \/ rows[i].status # "open" /\ Goes(t, Closed(i))
        \/ rows[i].status = "open" /\ Goes(t, "refused")
        \/ /\ rows[i].status = "open" /\ tab[t].submit.id = i
           /\ Becomes(t, [tab[t] EXCEPT !.submit.at = "received", !.submit.row = i])
     /\ UNCHANGED <<rows, cookie, local, adrift, now, edits, moves, loose, restored, outrun>>

\* The policy screen: setDraftPolicyScreen() writes its verdict, unless the draft is
\* submitted by now.
Judged(i, status) ==
  IF rows[i].status = "submitted" THEN UNCHANGED <<rows, now>>
  ELSE rows' = [rows EXCEPT ![i].status = status, ![i].updated = now + 1] /\ Tick

Screen(t) ==
  /\ tab[t].submit.at = "received"
  /\ \/ Goes(t, "screened") /\ Judged(tab[t].submit.row, "open")
     \/ Goes(t, "refused") /\ Judged(tab[t].submit.row, "rejected")
  /\ UNCHANGED <<cookie, local, adrift, edits, moves, loose, restored, outrun>>

\* What the row of a submit is to hold: the form that was submitted, when its
\* flush was stored and no other tab has written the row.
Owed(t, i) ==
  IF tab[t].submit.saved = i /\ rows[i].writers \subseteq {t}
  THEN (tab[t].submit.payload \cap tab[t].draft.content) \ (loose \cup restored \cup outrun) ELSE {}

\* The batch: the draft is submitted, with the content its row has.
Seal(t) ==
  LET i == tab[t].submit.row
  IN /\ tab[t].submit.at = "screened"
     /\ \/ Goes(t, "refused") /\ UNCHANGED <<rows, now>>
        \/ rows[i].status # "open" /\ Goes(t, Closed(i)) /\ UNCHANGED <<rows, now>>
        \/ /\ rows[i].status = "open" /\ Goes(t, "accepted") /\ Tick
           /\ rows' = [rows EXCEPT ![i].status = "submitted", ![i].updated = now + 1,
                                   ![i].form = tab[t].submit.payload, ![i].owed = Owed(t, i)]
     /\ UNCHANGED <<cookie, local, adrift, edits, moves, loose, restored, outrun>>

\* The answer: accepted, it freezes the draft.
Submitted(t) ==
  /\ tab[t].submit.at \in {"accepted", "refused"}
  /\ IF tab[t].page # "closed" /\ tab[t].submit.at = "accepted"
     THEN Becomes(t, [tab[t] EXCEPT !.submit = Idle, !.frozen = TRUE, !.due = FALSE])
     ELSE Becomes(t, [tab[t] EXCEPT !.submit = Idle])
  /\ UNCHANGED <<rows, cookie, local, adrift, now, edits, moves, loose, restored, outrun>>

\* The token or the schema refuses, or the request or its answer is lost.
SubmitFails(t) ==
  /\ tab[t].submit.at \in {"token", "sent", "accepted", "refused"} /\ tab[t].page # "closed" /\ Move(t)
  /\ Becomes(t, [tab[t] EXCEPT !.submit = Idle])
  /\ UNCHANGED <<rows, cookie, local, adrift, now, edits, loose, restored, outrun>>

----------------------------------------------------------------------------
Visitor(t) ==
  \/ Edit(t) \/ Advance(t) \/ Leave(t) \/ Resume(t) \/ Restart(t) \/ Online(t) \/ Hide(t)
  \/ Close(t) \/ Mount(t) \/ UseServer(t) \/ UseLocal(t) \/ Upload(t) \/ Submit(t)
Api(t) ==
  \/ \E k \in DOMAIN tab[t].saves : Put(t, k)
  \/ \E k \in DOMAIN tab[t].creates : CreateDraft(t, k)
  \/ Receive(t) \/ Screen(t) \/ Seal(t)
Hook(t) ==
  \/ Load(t) \/ Hydrate(t) \/ SendSubmit(t) \/ Submitted(t)
  \/ \E k \in DOMAIN tab[t].saves : Return(t, k)
  \/ \E k \in DOMAIN tab[t].creates : Created(t, k)
Network(t) ==
  \/ \E k \in DOMAIN tab[t].saves : Retry(t, k) \/ GiveUp(t, k)
  \/ \E k \in DOMAIN tab[t].creates : CreateFails(t, k)
  \/ SubmitFails(t)

Next ==
  \/ \E t \in Tabs : Visitor(t) \/ ServerTimer(t) \/ Api(t) \/ Hook(t) \/ Network(t)
  \/ \E p \in adrift : PutAdrift(p)
Spec == Init /\ [][Next]_vars

----------------------------------------------------------------------------
\* Whose save is stored in a step that changes the content of a row.
Lands(t) == tab'[t] # tab[t] \/ \E p \in adrift \ adrift' : p.by = t

\* Autosaves overtake one another (a debounce and a flush, a save on hiding, a
\* retry), and the guard on updated_at is what orders them: a save that lands
\* takes nothing out of the row that its own tab still shows.  The one exception is
\* the guard's own: it compares a time of the browser with one of the api, and a
\* browser ahead lets older drafts pass by as much (outrun).
NothingRollsBack ==
  [][\A t \in Tabs : \A i \in DOMAIN rows :
       rows'[i].content # rows[i].content /\ Lands(t) =>
         (rows[i].content \ rows'[i].content) \cap tab[t].draft.content \subseteq restored \cup outrun']_vars

\* A tab that believes it is saved, and has no conflict to show, shows nothing that
\* the row lacks, whatever was lost, retried, hidden, closed or opened again, as
\* long as no other tab wrote the row; loose names the four ways it can be wrong, and
\* outrun the one of a clock that is ahead.
CleanIsStored ==
  \A t \in Tabs :
    LET c == tab[t]
        i == Current(cookie)
    IN /\ c.page \in {"editing", "resume"} /\ ~ c.frozen /\ ~ c.dirty
       /\ c.draft.id # 0 /\ c.ask.id = 0 /\ c.draft.id = i /\ rows[i].writers \subseteq {t}
       => c.draft.content \ (loose \cup restored \cup outrun) \subseteq rows[i].content

\* The generator reads the row, days after the submit: it keeps what the submitted
\* form held, when the flush of the submit was stored and no other tab had written
\* the row, whatever saves arrive before and after the batch.
SubmittedIsKept ==
  \A i \in DOMAIN rows : rows[i].status = "submitted" => rows[i].owed \subseteq rows[i].content

\* Whatever makes a draft dirty also has it saved: a dirty tab has a timer running or
\* a save on its way, shows a conflict, or knows of a save that failed on the network.
DirtyIsAttended ==
  \A t \in Tabs :
    LET c == tab[t]
    IN c.dirty /\ c.draft.id # 0 /\ ~ c.frozen /\ c.page # "closed" =>
         c.due \/ c.saves # <<>> \/ c.ask.id # 0 \/ c.failed

\* "a second tab that autosaves a stale copy changes zero rows" (cp/drafts.ts): no
\* save takes out of the row what another open tab still shows.
StaleTabIsRefused ==
  [][\A t, u \in Tabs : \A i \in DOMAIN rows :
       rows'[i].content # rows[i].content /\ Lands(t) /\ t # u /\ Editing(u) =>
         (rows[i].content \ rows'[i].content) \cap tab[u].draft.content = {}]_vars

\* "The API validated a request BODY. This validates the ROW -- the projection of
\* that body" (validate.ts): a submitted row holds the form that was submitted.
BuiltIsSubmitted ==
  \A i \in DOMAIN rows : rows[i].status = "submitted" => rows[i].form \subseteq rows[i].content
=============================================================================
