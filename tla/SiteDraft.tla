----------------------------- MODULE SiteDraft ------------------------------
(***************************************************************************)
(* SiteDraftDO (apps/app/app/do/SiteDraftDO.ts): one object per site, with *)
(* the unsaved document and its undo ring.  History is a log of patches    *)
(* and their inverses under a cursor; undo applies the inverse of the      *)
(* entry at the cursor, redo the patch of the entry above it.  Nothing is  *)
(* kept in memory and every method writes in one transaction, so a method  *)
(* is one action and an eviction between two of them changes nothing.      *)
(*                                                                         *)
(* timeline is a history variable: the document each sequence number stood *)
(* for when it was written.  No action reads it.                           *)
(*                                                                         *)
(* Abstracted: every stored document parses (parseSiteDoc); timestamps;    *)
(* the preview grants, which share the object and none of this state.      *)
(***************************************************************************)
EXTENDS Patch

CONSTANTS
  Patches,  \* the patches that reach the object
  RingSize, \* UNDO_RING_SIZE
  Versions  \* versions of the site a draft is seeded from

ASSUME RingAssumption == RingSize \in Nat \ {0}

VARIABLES
  draft,   \* the draft row, or Null
  history, \* the history table: sequence number -> [patch, inverse]
  timeline

draftVars == <<draft, history, timeline>>

DraftRow == [doc: Documents, rev: Nat, cursor: Nat, base: Versions]

ASSUME NullAssumption == Null \notin DraftRow

HasDraft == draft # Null
Stored == IF HasDraft THEN draft.doc ELSE Null

\* maxSeq(): 0 over an empty table.
MaxSeq == IF DOMAIN history = {} THEN 0
          ELSE CHOOSE k \in DOMAIN history : \A j \in DOMAIN history : j <= k

CanUndo == draft.cursor > 0
CanRedo == MaxSeq > draft.cursor

\* canUndo and canRedo as the answer to an edit, an undo or a redo reports them,
\* over the table it leaves.
CanUndoNext == draft'.cursor > 0
CanRedoNext == draft'.cursor < MaxSeq'

----------------------------------------------------------------------------
Replace(doc, version, rev) ==
  /\ draft' = [doc |-> doc, rev |-> rev, cursor |-> 0, base |-> version]
  /\ history' = [k \in {} |-> 0]
  /\ timeline' = [k \in {0} |-> doc]

\* initialise() where there is no draft; where there is one it changes nothing.
Initialise(doc, version) ==
  /\ ~ HasDraft
  /\ Replace(doc, version, 1)

\* reseed(): the draft is thrown away.
Reseed(doc, version) ==
  /\ HasDraft
  /\ Replace(doc, version, draft.rev + 1)

\* Mutant: the ring drops one entry too many.
KeptFewer(seqs, seq) == {k \in seqs : k < seq /\ k > seq - RingSize + 1} \cup {seq}

\* The table after an edit at cursor + 1: the redo branch is destroyed, and the
\* ring drops what is RingSize or more below the new entry.
Kept(seqs, seq) == {k \in seqs : k < seq /\ k > seq - RingSize} \cup {seq}

\* applyEdit() past its refusals.
ApplyEdit(p) ==
  LET seq == draft.cursor + 1
      next == ApplyPatch(draft.doc, p)
      kept == Kept(DOMAIN history, seq)
  IN
  /\ HasDraft /\ Accepts(p)
  /\ draft' = [draft EXCEPT !.doc = next, !.rev = @ + 1, !.cursor = seq]
  /\ history' = [k \in kept |-> IF k = seq
                                THEN [patch |-> p, inverse |-> InverseOf(draft.doc, p)]
                                ELSE history[k]]
  /\ timeline' = [k \in kept \cup {j \in DOMAIN timeline : j + 1 \in kept} |->
                    IF k = seq THEN next ELSE timeline[k]]

\* step('undo') past its refusals.
Undo ==
  /\ HasDraft /\ draft.cursor \in DOMAIN history
  /\ draft' = [draft EXCEPT !.doc = ApplyPatch(@, history[draft.cursor].inverse),
                            !.rev = @ + 1, !.cursor = @ - 1]
  /\ UNCHANGED <<history, timeline>>

\* step('redo') past its refusals.
Redo ==
  /\ HasDraft /\ draft.cursor + 1 \in DOMAIN history
  /\ draft' = [draft EXCEPT !.doc = ApplyPatch(@, history[draft.cursor + 1].patch),
                            !.rev = @ + 1, !.cursor = @ + 1]
  /\ UNCHANGED <<history, timeline>>

DraftInit ==
  /\ draft = Null
  /\ history = [k \in {} |-> 0]
  /\ timeline = [k \in {} |-> 0]

DraftNext ==
  \/ \E doc \in Documents, v \in Versions : Initialise(doc, v) \/ Reseed(doc, v)
  \/ \E p \in Patches : ApplyEdit(p)
  \/ Undo
  \/ Redo

DraftSpec == DraftInit /\ [][DraftNext]_draftVars

----------------------------------------------------------------------------
DraftTypeOK ==
  /\ draft \in DraftRow \cup {Null}
  /\ DOMAIN history \subseteq Nat \ {0}
  /\ \A k \in DOMAIN history :
       history[k] \in [patch: Vocabulary, inverse: Vocabulary]

\* The entries run from Floor + 1 to Top.
Floor == IF DOMAIN history = {} THEN draft.cursor
         ELSE (CHOOSE k \in DOMAIN history : \A j \in DOMAIN history : k <= j) - 1
Top == IF DOMAIN history = {} THEN draft.cursor ELSE MaxSeq

\* The ring is an interval of at most RingSize entries that the cursor has not
\* left: the most recent edits are the undoable ones, and an undone entry stays
\* redoable until the next edit (the undo model, SiteDraftDO.ts:31-41).
RingHolds ==
  HasDraft =>
    /\ DOMAIN history = (Floor + 1)..Top
    /\ Floor <= draft.cursor /\ draft.cursor <= Top
    /\ Top - Floor <= RingSize

\* Every entry steps between the two documents its edit was made between, in
\* both directions, and the row holds the one under the cursor: no entry exists
\* for a change that did not land, nor a change without the entry that undoes it
\* (SiteDraftDO.ts:345-348).
EntriesStep ==
  HasDraft =>
    /\ draft.cursor \in DOMAIN timeline /\ timeline[draft.cursor] = draft.doc
    /\ \A k \in DOMAIN history :
         /\ {k - 1, k} \subseteq DOMAIN timeline
         /\ timeline[k] = ApplyPatch(timeline[k - 1], history[k].patch)
         /\ timeline[k - 1] = ApplyPatch(timeline[k], history[k].inverse)

\* The draft is an undo history of documents.
Past == IF HasDraft THEN [i \in 1..(draft.cursor - Floor) |-> timeline[Floor + i - 1]]
        ELSE <<>>
Future == IF HasDraft THEN [i \in 1..(Top - draft.cursor) |-> timeline[draft.cursor + i]]
          ELSE <<>>

Abstract == INSTANCE UndoHistory WITH
  Size <- RingSize, past <- Past, shown <- Stored, future <- Future

\* Undo and redo show the documents they promise: the object implements the undo
\* history (UndoHistory), whatever the patches are made of.
IsUndoHistory == Abstract!HistorySpec
=============================================================================
