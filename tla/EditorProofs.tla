---------------------------- MODULE EditorProofs ----------------------------
(***************************************************************************)
(* Proofs about Patch, SiteDraft and Editor.  Of one patch and its         *)
(* inverse; of the undo ring, and that the object implements UndoHistory   *)
(* when no patch forgets a focal point; then, for any number of tabs and   *)
(* whatever is lost or late, that a conflict always has another writer or  *)
(* an unheard answer behind it, and that a tab shows the stored document   *)
(* with its unsent edits applied.                                          *)
(***************************************************************************)
EXTENDS Editor, FiniteSetTheorems, SequenceTheorems, WellFoundedInduction, TLAPS

----------------------------------------------------------------------------
\* Patches and their inverses.

LEMMA PageLengthType == PageLength \in Nat
  BY PageAssumption, FS_CardinalityType DEF PageLength

\* The section an order is asked for stands at the index found.
LEMMA IndexFound ==
  ASSUME NEW order \in Orders, NEW x \in Sections
  PROVE  IndexOf(order, x) \in Positions /\ order[IndexOf(order, x)] = x
  BY DEF Orders, IndexOf

LEMMA IndexUnique ==
  ASSUME NEW order \in Orders, NEW i \in Positions
  PROVE  IndexOf(order, order[i]) = i
<1>1. order[i] \in Sections
  BY DEF Orders
<1>2. IndexOf(order, order[i]) \in Positions /\ order[IndexOf(order, order[i])] = order[i]
  BY <1>1, IndexFound
<1> QED
  BY <1>2 DEF Orders

\* Moving a section permutes the page.
LEMMA MovedType ==
  ASSUME NEW order \in Orders, NEW from \in Positions, NEW to \in Positions
  PROVE  Moved(order, from, to) \in Orders
<1> DEFINE m == Moved(order, from, to)
<1>1. PageLength \in Nat
  BY PageLengthType
<1>2. order \in [Positions -> Sections]
  BY DEF Orders
<1>3. m \in [Positions -> Sections]
  BY <1>1, <1>2 DEF Moved, Positions
<1>4. \A i, j \in Positions : m[i] = m[j] => i = j
  <2> SUFFICES ASSUME NEW i \in Positions, NEW j \in Positions, m[i] = m[j]
               PROVE  i = j
    OBVIOUS
  <2>1. \A k, n \in Positions : order[k] = order[n] => k = n
    BY DEF Orders
  <2> QED
    BY <1>1, <2>1 DEF Moved, Positions
<1>5. \A x \in Sections : \E i \in Positions : m[i] = x
  <2> SUFFICES ASSUME NEW x \in Sections
               PROVE  \E i \in Positions : m[i] = x
    OBVIOUS
  <2>1. PICK k \in Positions : order[k] = x
    BY DEF Orders
  <2>2. CASE k = from
    <3>1. m[to] = x
      BY <2>1, <2>2 DEF Moved
    <3> QED
      BY <3>1
  <2>3. CASE from < k /\ k <= to
    <3>1. k - 1 \in Positions /\ m[k - 1] = x
      BY <1>1, <2>1, <2>3 DEF Moved, Positions
    <3> QED
      BY <3>1
  <2>4. CASE to <= k /\ k < from
    <3>1. k + 1 \in Positions /\ m[k + 1] = x
      BY <1>1, <2>1, <2>4 DEF Moved, Positions
    <3> QED
      BY <3>1
  <2>5. CASE ~ (k = from) /\ ~ (from < k /\ k <= to) /\ ~ (to <= k /\ k < from)
    <3>1. m[k] = x
      BY <1>1, <2>1, <2>5 DEF Moved, Positions
    <3> QED
      BY <3>1
  <2> QED
    BY <2>2, <2>3, <2>4, <2>5
<1> QED
  BY <1>3, <1>4, <1>5 DEF Orders

\* Moving a section back restores the page.
LEMMA MovedBack ==
  ASSUME NEW order \in Orders, NEW from \in Positions, NEW to \in Positions
  PROVE  Moved(Moved(order, from, to), to, from) = order
<1>1. PageLength \in Nat
  BY PageLengthType
<1>2. order \in [Positions -> Sections]
  BY DEF Orders
<1> DEFINE m == Moved(order, from, to)
           back == Moved(m, to, from)
<1>3. \A i \in Positions : back[i] = order[i]
  BY <1>1, <1>2 DEF Moved, Positions
<1>4. back = [i \in Positions |-> back[i]]
  BY DEF Moved
<1>5. order = [i \in Positions |-> order[i]]
  BY <1>2
<1> QED
  BY <1>3, <1>4, <1>5

\* An accepted patch maps documents to documents, and its inverse is a patch.
LEMMA PatchType ==
  ASSUME NEW doc \in Documents, NEW p \in Vocabulary
  PROVE  /\ ApplyPatch(doc, p) \in Documents
         /\ InverseOf(doc, p) \in Vocabulary
<1>1. CASE p \in SetCopy
  BY <1>1 DEF SetCopy, Documents, ApplyPatch, InverseOf, Vocabulary
<1>2. CASE p \in MoveSection
  <2>1. doc.order \in Orders /\ p.section \in Sections /\ p.to \in Positions
        /\ p.op = "move_section"
    BY <1>2 DEF MoveSection, Documents
  <2>2. IndexOf(doc.order, p.section) \in Positions
    BY <2>1, IndexFound
  <2>3. Moved(doc.order, IndexOf(doc.order, p.section), p.to) \in Orders
    BY <2>1, <2>2, MovedType
  <2>4. ApplyPatch(doc, p) \in Documents
    BY <2>1, <2>3 DEF Documents, ApplyPatch
  <2>5. InverseOf(doc, p) \in MoveSection
    BY <1>2, <2>1, <2>2 DEF InverseOf, MoveSection
  <2> QED
    BY <2>4, <2>5 DEF Vocabulary
<1>3. CASE p \in SetMedia
  <2>1. p.op = "set_section_media" /\ p.ref \in Refs \cup {Null}
        /\ doc.media \in MediaRef \cup {Null}
    BY <1>3 DEF SetMedia, Documents
  <2>2. Placed(doc.media, p.ref) \in MediaRef \cup {Null}
    BY <2>1, FocalAssumption DEF Placed, MediaRef
  <2>3. ApplyPatch(doc, p) \in Documents
    BY <2>1, <2>2 DEF Documents, ApplyPatch
  <2>4. InverseOf(doc, p) \in SetMedia
    BY <1>3, <2>1 DEF InverseOf, SetMedia, MediaRef
  <2> QED
    BY <2>3, <2>4 DEF Vocabulary
<1> QED
  BY <1>1, <1>2, <1>3 DEF Vocabulary

\* The inverse restores the document, unless the patch forgets a focal point.
LEMMA InverseUndoes ==
  ASSUME NEW doc \in Documents, NEW p \in Vocabulary, ~ Forgets(doc, p)
  PROVE  ApplyPatch(ApplyPatch(doc, p), InverseOf(doc, p)) = doc
<1>1. CASE p \in SetCopy
  BY <1>1 DEF SetCopy, Documents, ApplyPatch, InverseOf
<1>2. CASE p \in MoveSection
  <2> DEFINE order == doc.order
             from == IndexOf(order, p.section)
             moved == Moved(order, from, p.to)
             back == InverseOf(doc, p)
  <2>1. order \in Orders /\ p.section \in Sections /\ p.to \in Positions
        /\ p.op = "move_section"
    BY <1>2 DEF MoveSection, Documents
  <2>2. from \in Positions /\ order[from] = p.section
    BY <2>1, IndexFound
  <2>3. moved \in Orders
    BY <2>1, <2>2, MovedType
  <2>4. moved[p.to] = p.section
    BY <2>1, <2>2 DEF Moved
  <2>5. IndexOf(moved, p.section) = p.to
    BY <2>1, <2>3, <2>4, IndexUnique
  <2>6. Moved(moved, p.to, from) = order
    BY <2>1, <2>2, MovedBack
  <2>7. ApplyPatch(doc, p) = [doc EXCEPT !.order = moved]
    BY <2>1 DEF ApplyPatch
  <2>8. back = [p EXCEPT !.to = from]
    BY <2>1 DEF InverseOf
  <2>9. back.op = "move_section" /\ back.section = p.section /\ back.to = from
    BY <1>2, <2>8 DEF MoveSection
  <2>10. doc = [copy |-> doc.copy, order |-> order, media |-> doc.media]
    BY DEF Documents
  <2>11. ApplyPatch(doc, p) = [copy |-> doc.copy, order |-> moved, media |-> doc.media]
    BY <2>7, <2>10
  <2>12. ApplyPatch([copy |-> doc.copy, order |-> moved, media |-> doc.media], back)
           = [copy |-> doc.copy, order |-> order, media |-> doc.media]
    BY <2>5, <2>6, <2>9 DEF ApplyPatch
  <2> QED
    BY <2>10, <2>11, <2>12
<1>3. CASE p \in SetMedia
  <2>1. /\ p.op = "set_section_media" /\ p.ref \in Refs \cup {Null}
        /\ doc.media \in MediaRef \cup {Null}
        /\ p = [op |-> "set_section_media", ref |-> p.ref]
    BY <1>3 DEF SetMedia, Documents
  <2>2. Placed(Placed(doc.media, p.ref), IF doc.media = Null THEN Null ELSE doc.media.ref)
          = doc.media
    BY <2>1, NoMediaAssumption DEF Placed, MediaRef, Forgets
  <2>3. InverseOf(doc, p).op = "set_section_media"
        /\ InverseOf(doc, p).ref = IF doc.media = Null THEN Null ELSE doc.media.ref
    BY <2>1 DEF InverseOf
  <2>4. doc = [copy |-> doc.copy, order |-> doc.order, media |-> doc.media]
    BY DEF Documents
  <2>5. ApplyPatch(doc, p)
          = [copy |-> doc.copy, order |-> doc.order, media |-> Placed(doc.media, p.ref)]
    BY <2>1, <2>4 DEF ApplyPatch
  <2>6. ApplyPatch([copy |-> doc.copy, order |-> doc.order,
                    media |-> Placed(doc.media, p.ref)], InverseOf(doc, p))
          = [copy |-> doc.copy, order |-> doc.order, media |-> doc.media]
    BY <2>2, <2>3 DEF ApplyPatch
  <2> QED
    BY <2>4, <2>5, <2>6
<1> QED
  BY <1>1, <1>2, <1>3 DEF Vocabulary

----------------------------------------------------------------------------
\* The UPDATE every mutation of the row ends in.
LEMMA RowUpdated ==
  ASSUME NEW row \in DraftRow, NEW doc \in Documents, NEW cursor \in Nat
  PROVE  [row EXCEPT !.doc = doc, !.rev = row.rev + 1, !.cursor = cursor] \in DraftRow
<1>1. row.rev + 1 \in Nat
  BY DEF DraftRow
<1> QED
  BY <1>1 DEF DraftRow

\* The row an edit, an undo and a redo leave.
LEMMA EditRow ==
  ASSUME DraftTypeOK, NEW p \in Patches, ApplyEdit(p)
  PROVE  /\ draft' \in DraftRow /\ draft'.cursor = draft.cursor + 1
         /\ draft'.doc = ApplyPatch(draft.doc, p) /\ draft'.doc \in Documents
         /\ InverseOf(draft.doc, p) \in Vocabulary
<1>1. draft \in DraftRow /\ p \in Vocabulary
  BY DEF ApplyEdit, HasDraft, DraftTypeOK, Accepts
<1>2. draft.doc \in Documents /\ draft.cursor + 1 \in Nat
  BY <1>1 DEF DraftRow
<1>3. ApplyPatch(draft.doc, p) \in Documents /\ InverseOf(draft.doc, p) \in Vocabulary
  BY <1>1, <1>2, PatchType
<1>4. draft' = [draft EXCEPT !.doc = ApplyPatch(draft.doc, p), !.rev = draft.rev + 1,
                             !.cursor = draft.cursor + 1]
  BY DEF ApplyEdit
<1>5. draft' \in DraftRow
  BY <1>1, <1>2, <1>3, <1>4, RowUpdated, Zenon
<1>6. draft'.cursor = draft.cursor + 1
  BY <1>1, <1>4 DEF DraftRow
<1>7. draft'.doc = ApplyPatch(draft.doc, p)
  BY <1>1, <1>4 DEF DraftRow
<1> QED
  BY <1>3, <1>5, <1>6, <1>7

LEMMA UndoRow ==
  ASSUME DraftTypeOK, Undo
  PROVE  /\ draft' \in DraftRow /\ draft'.cursor = draft.cursor - 1
         /\ draft'.doc = ApplyPatch(draft.doc, history[draft.cursor].inverse)
<1>1. draft \in DraftRow /\ draft.cursor \in DOMAIN history
  BY DEF Undo, HasDraft, DraftTypeOK
<1>2. draft.doc \in Documents /\ history[draft.cursor].inverse \in Vocabulary
  BY <1>1 DEF DraftRow, DraftTypeOK
<1>3. ApplyPatch(draft.doc, history[draft.cursor].inverse) \in Documents
  BY <1>2, PatchType
<1>4. draft' = [draft EXCEPT !.doc = ApplyPatch(draft.doc, history[draft.cursor].inverse),
                             !.rev = draft.rev + 1, !.cursor = draft.cursor - 1]
  BY DEF Undo
<1>5. draft.cursor - 1 \in Nat
  BY <1>1 DEF DraftRow, DraftTypeOK
<1>6. draft' \in DraftRow
  BY <1>1, <1>3, <1>4, <1>5, RowUpdated, Zenon
<1>7. draft'.cursor = draft.cursor - 1
  BY <1>1, <1>4 DEF DraftRow
<1>8. draft'.doc = ApplyPatch(draft.doc, history[draft.cursor].inverse)
  BY <1>1, <1>4 DEF DraftRow
<1> QED
  BY <1>6, <1>7, <1>8

LEMMA RedoRow ==
  ASSUME DraftTypeOK, Redo
  PROVE  /\ draft' \in DraftRow /\ draft'.cursor = draft.cursor + 1
         /\ draft'.doc = ApplyPatch(draft.doc, history[draft.cursor + 1].patch)
<1>1. draft \in DraftRow /\ draft.cursor + 1 \in DOMAIN history
  BY DEF Redo, HasDraft, DraftTypeOK
<1>2. draft.doc \in Documents /\ history[draft.cursor + 1].patch \in Vocabulary
  BY <1>1 DEF DraftRow, DraftTypeOK
<1>3. ApplyPatch(draft.doc, history[draft.cursor + 1].patch) \in Documents
  BY <1>2, PatchType
<1>4. draft' = [draft EXCEPT !.doc = ApplyPatch(draft.doc, history[draft.cursor + 1].patch),
                             !.rev = draft.rev + 1, !.cursor = draft.cursor + 1]
  BY DEF Redo
<1>5. draft.cursor + 1 \in Nat
  BY <1>1 DEF DraftRow, DraftTypeOK
<1>6. draft' \in DraftRow
  BY <1>1, <1>3, <1>4, <1>5, RowUpdated, Zenon
<1>7. draft'.cursor = draft.cursor + 1
  BY <1>1, <1>4 DEF DraftRow
<1>8. draft'.doc = ApplyPatch(draft.doc, history[draft.cursor + 1].patch)
  BY <1>1, <1>4 DEF DraftRow
<1> QED
  BY <1>6, <1>7, <1>8

\* Every step keeps the types.
LEMMA DraftTypeStep ==
  ASSUME DraftTypeOK, [DraftNext]_draftVars
  PROVE  DraftTypeOK'
<1>1. ASSUME NEW doc \in Documents, NEW v \in Versions, Initialise(doc, v) \/ Reseed(doc, v)
      PROVE  DraftTypeOK'
  BY <1>1 DEF DraftTypeOK, Initialise, Reseed, Replace, DraftRow, HasDraft
<1>2. ASSUME NEW p \in Patches, ApplyEdit(p)
      PROVE  DraftTypeOK'
  <2>1. draft \in DraftRow /\ p \in Vocabulary
    BY <1>2 DEF ApplyEdit, HasDraft, DraftTypeOK, Accepts
  <2>2. draft' \in DraftRow /\ InverseOf(draft.doc, p) \in Vocabulary
    BY <1>2, EditRow
  <2>3. \A k \in Kept(DOMAIN history, draft.cursor + 1) :
          k \in Nat \ {0} /\ (k = draft.cursor + 1 \/ k \in DOMAIN history)
    BY <2>1 DEF Kept, DraftTypeOK, DraftRow
  <2>4. /\ DOMAIN history' = Kept(DOMAIN history, draft.cursor + 1)
        /\ \A k \in DOMAIN history' :
             history'[k] = IF k = draft.cursor + 1
                           THEN [patch |-> p, inverse |-> InverseOf(draft.doc, p)]
                           ELSE history[k]
    BY <1>2 DEF ApplyEdit
  <2>5. \A k \in DOMAIN history' : history'[k] \in [patch: Vocabulary, inverse: Vocabulary]
    BY <2>1, <2>2, <2>3, <2>4 DEF DraftTypeOK
  <2> QED
    BY <2>2, <2>3, <2>4, <2>5 DEF DraftTypeOK
<1>3. ASSUME Undo
      PROVE  DraftTypeOK'
  BY <1>3, UndoRow DEF Undo, DraftTypeOK
<1>4. ASSUME Redo
      PROVE  DraftTypeOK'
  BY <1>4, RedoRow DEF Redo, DraftTypeOK
<1>5. CASE UNCHANGED draftVars
  BY <1>5 DEF draftVars, DraftTypeOK
<1> QED
  BY <1>1, <1>2, <1>3, <1>4, <1>5 DEF DraftNext

LEMMA DraftTypeInit == DraftInit => DraftTypeOK
  BY DEF DraftInit, DraftTypeOK

\* The row and the history table hold what their columns are declared for.
THEOREM DraftTypes == DraftSpec => []DraftTypeOK
<1>1. DraftInit => DraftTypeOK
  BY DraftTypeInit
<1>2. DraftTypeOK /\ [DraftNext]_draftVars => DraftTypeOK'
  BY DraftTypeStep
<1> QED
  BY <1>1, <1>2, PTL DEF DraftSpec

----------------------------------------------------------------------------
(***************************************************************************)
(* The inductive invariant.  The ring is the interval low + 1 .. high, the *)
(* timeline one longer at its old end, and each entry steps between the    *)
(* two documents the timeline has on its sides.                            *)
(***************************************************************************)
Interval(low, high) ==
  /\ low \in Nat /\ high \in Nat
  /\ DOMAIN history = (low + 1)..high
  /\ DOMAIN timeline = low..high
  /\ low <= draft.cursor /\ draft.cursor <= high
  /\ high - low <= RingSize

RingInv ==
  IF HasDraft THEN \E low, high : Interval(low, high) ELSE DOMAIN history = {}

EntryInv ==
  HasDraft =>
    /\ timeline[draft.cursor] = draft.doc
    /\ \A k \in DOMAIN timeline : timeline[k] \in Documents
    /\ \A k \in DOMAIN history :
         /\ timeline[k] = ApplyPatch(timeline[k - 1], history[k].patch)
         /\ timeline[k - 1] = ApplyPatch(timeline[k], history[k].inverse)

\* No patch that reaches the object clears an image with a focal point of its own.
KeepsFocus == \A p \in Patches : \A doc \in Documents : ~ Forgets(doc, p)

\* The ends of the interval are the ones the object computes.
LEMMA Ends ==
  ASSUME NEW low, NEW high, Interval(low, high), draft.cursor \in Nat
  PROVE  Floor = low /\ Top = high
<1>1. CASE low = high
  BY <1>1 DEF Interval, Floor, Top
<1>2. CASE low # high
  <2>1. /\ low \in Nat /\ high \in Nat /\ low < high
        /\ DOMAIN history = (low + 1)..high
    BY <1>2 DEF Interval
  <2>2. low + 1 \in DOMAIN history /\ high \in DOMAIN history /\ DOMAIN history # {}
    <3>1. low + 1 \in (low + 1)..high /\ high \in (low + 1)..high
      BY <2>1
    <3> QED
      BY <2>1, <3>1
  <2>3. \A j \in DOMAIN history : low + 1 <= j /\ j <= high /\ j \in Int
    BY <2>1
  <2> DEFINE IsLeast(k) == \A j \in DOMAIN history : k <= j
             least == CHOOSE k \in DOMAIN history : IsLeast(k)
  <2>4. least \in DOMAIN history /\ IsLeast(least)
    <3>1. IsLeast(low + 1)
      BY <2>3
    <3> HIDE DEF IsLeast
    <3> QED
      BY <2>2, <3>1
  <2>5. \A k \in DOMAIN history : IsLeast(k) => k = low + 1
    BY <2>1, <2>2, <2>3
  <2>6. least = low + 1
    BY <2>4, <2>5
  <2>7. Floor = low
    <3>1. Floor = least - 1
      BY <2>2 DEF Floor
    <3> HIDE DEF least
    <3> QED
      BY <2>1, <2>6, <3>1
  <2> DEFINE IsMost(k) == \A j \in DOMAIN history : j <= k
             most == CHOOSE k \in DOMAIN history : IsMost(k)
  <2>8. most \in DOMAIN history /\ IsMost(most)
    <3>1. IsMost(high)
      BY <2>3
    <3> HIDE DEF IsMost
    <3> QED
      BY <2>2, <3>1
  <2>9. \A k \in DOMAIN history : IsMost(k) => k = high
    BY <2>1, <2>2, <2>3
  <2>10. most = high
    BY <2>8, <2>9
  <2>11. Top = most
    BY <2>2 DEF Top, MaxSeq
  <2> QED
    BY <2>7, <2>10, <2>11
<1> QED
  BY <1>1, <1>2

\* The interval an edit leaves.
NewLow(low) == IF low > draft.cursor + 1 - RingSize THEN low ELSE draft.cursor + 1 - RingSize

LEMMA EditInterval ==
  ASSUME DraftTypeOK, NEW p \in Patches, ApplyEdit(p),
         NEW low, NEW high, Interval(low, high),
         NEW bottom, bottom = NewLow(low), NEW seq, seq = draft.cursor + 1
  PROVE  /\ Interval(bottom, seq)'
         /\ HasDraft' /\ draft' \in DraftRow /\ draft'.cursor = seq
         /\ draft'.doc = ApplyPatch(draft.doc, p)
<1> DEFINE kept == Kept(DOMAIN history, seq)
<1>1. draft \in DraftRow /\ p \in Vocabulary /\ draft.cursor \in Nat /\ draft.doc \in Documents
  BY DEF ApplyEdit, HasDraft, DraftTypeOK, Accepts, DraftRow
<1>2. low \in Nat /\ high \in Nat /\ low <= draft.cursor /\ RingSize \in Nat \ {0}
      /\ draft.cursor <= high
  BY RingAssumption DEF Interval
<1>3. bottom \in Nat /\ low <= bottom /\ bottom <= draft.cursor /\ seq - bottom <= RingSize
  BY <1>1, <1>2 DEF NewLow, Interval
<1>4. kept = (bottom + 1)..seq
  <2>1. bottom = IF low > draft.cursor + 1 - RingSize THEN low ELSE draft.cursor + 1 - RingSize
    BY DEF NewLow
  <2>2. ASSUME NEW k PROVE k \in kept <=> k \in (bottom + 1)..seq
    <3>1. k \in kept <=> \/ k \in (low + 1)..high /\ k < seq /\ k > seq - RingSize
                         \/ k = seq
      BY DEF Kept, Interval
    <3>2. CASE k = seq
      BY <1>1, <1>3, <3>1, <3>2
    <3>3. CASE k # seq
      BY <1>1, <1>2, <1>3, <2>1, <3>1, <3>3
    <3> QED
      BY <3>2, <3>3
  <2> QED
    BY <2>2
<1>5. {j \in DOMAIN timeline : j + 1 \in kept} \cup kept = bottom..seq
  <2> HIDE DEF kept
  <2>1. DOMAIN timeline = low..high
    BY DEF Interval
  <2> QED
    BY SMTT(40), <1>1, <1>2, <1>3, <1>4, <2>1
<1>6. DOMAIN history' = (bottom + 1)..seq /\ DOMAIN timeline' = bottom..seq
  <2>1. DOMAIN history' = kept /\ DOMAIN timeline' = kept \cup {j \in DOMAIN timeline : j + 1 \in kept}
    BY DEF ApplyEdit
  <2> QED
    BY <1>4, <1>5, <2>1
<1>7. seq \in Nat
  BY <1>1
<1>8. draft' \in DraftRow /\ draft'.cursor = seq /\ draft'.doc = ApplyPatch(draft.doc, p)
  BY EditRow
<1>9. draft' # Null
  BY <1>8, NullAssumption
<1>10. bottom <= seq /\ seq <= seq
  BY <1>1, <1>3
<1> QED
  BY <1>3, <1>6, <1>7, <1>8, <1>9, <1>10 DEF Interval, HasDraft

\* Every step keeps the interval.
LEMMA RingStep ==
  ASSUME DraftTypeOK, RingInv, [DraftNext]_draftVars
  PROVE  RingInv'
<1>1. ASSUME NEW doc \in Documents, NEW v \in Versions, Initialise(doc, v) \/ Reseed(doc, v)
      PROVE  RingInv'
  <2>1. /\ DOMAIN history' = {} /\ DOMAIN timeline' = {0} /\ draft'.cursor = 0
    BY <1>1 DEF Initialise, Reseed, Replace
  <2>2. Interval(0, 0)'
    BY <2>1, RingAssumption DEF Interval
  <2> QED
    BY <2>1, <2>2 DEF RingInv
<1>2. ASSUME NEW p \in Patches, ApplyEdit(p)
      PROVE  RingInv'
  <2>1. PICK low, high : Interval(low, high)
    BY <1>2 DEF RingInv, ApplyEdit
  <2> DEFINE bottom == NewLow(low)
             seq == draft.cursor + 1
  <2>2. \E b, s : b = bottom /\ s = seq
    OBVIOUS
  <2>3. PICK b, s : b = bottom /\ s = seq
    BY <2>2
  <2>4. Interval(b, s)' /\ HasDraft'
    BY <1>2, <2>1, <2>3, EditInterval
  <2> QED
    BY <2>4 DEF RingInv
<1>3. ASSUME Undo
      PROVE  RingInv'
  <2>1. PICK low, high : Interval(low, high)
    BY <1>3 DEF RingInv, Undo
  <2>2. draft' \in DraftRow /\ draft'.cursor = draft.cursor - 1 /\ draft.cursor \in DOMAIN history
        /\ UNCHANGED <<history, timeline>>
    BY <1>3, UndoRow DEF Undo
  <2>3. draft \in DraftRow /\ draft.cursor \in Nat
    BY <1>3 DEF Undo, HasDraft, DraftTypeOK, DraftRow
  <2>4. Interval(low, high)'
    BY <2>1, <2>2, <2>3 DEF Interval
  <2>5. draft' # Null
    BY <2>2, NullAssumption
  <2> QED
    BY <2>4, <2>5 DEF RingInv, HasDraft
<1>4. ASSUME Redo
      PROVE  RingInv'
  <2>1. PICK low, high : Interval(low, high)
    BY <1>4 DEF RingInv, Redo
  <2>2. draft' \in DraftRow /\ draft'.cursor = draft.cursor + 1 /\ draft.cursor + 1 \in DOMAIN history
        /\ UNCHANGED <<history, timeline>>
    BY <1>4, RedoRow DEF Redo
  <2>3. draft \in DraftRow /\ draft.cursor \in Nat
    BY <1>4 DEF Redo, HasDraft, DraftTypeOK, DraftRow
  <2>4. Interval(low, high)'
    BY <2>1, <2>2, <2>3 DEF Interval
  <2>5. draft' # Null
    BY <2>2, NullAssumption
  <2> QED
    BY <2>4, <2>5 DEF RingInv, HasDraft
<1>5. CASE UNCHANGED draftVars
  BY <1>5 DEF draftVars, RingInv, Interval, HasDraft
<1> QED
  BY <1>1, <1>2, <1>3, <1>4, <1>5 DEF DraftNext

\* Every step keeps the entries between their documents.
LEMMA EntryStep ==
  ASSUME KeepsFocus, DraftTypeOK, RingInv, EntryInv, [DraftNext]_draftVars
  PROVE  EntryInv'
<1>1. ASSUME NEW doc \in Documents, NEW v \in Versions, Initialise(doc, v) \/ Reseed(doc, v)
      PROVE  EntryInv'
  <2>1. /\ DOMAIN history' = {} /\ draft'.cursor = 0 /\ draft'.doc = doc
        /\ timeline' = [k \in {0} |-> doc]
    BY <1>1 DEF Initialise, Reseed, Replace
  <2> QED
    BY <2>1 DEF EntryInv
<1>2. ASSUME NEW p \in Patches, ApplyEdit(p)
      PROVE  EntryInv'
  <2>1. PICK low, high : Interval(low, high)
    BY <1>2 DEF RingInv, ApplyEdit
  <2>2. PICK b, s : b = NewLow(low) /\ s = draft.cursor + 1
    OBVIOUS
  <2>3. /\ DOMAIN history' = (b + 1)..s /\ DOMAIN timeline' = b..s
        /\ b \in Nat /\ s \in Nat /\ b <= s
        /\ draft'.cursor = s /\ draft'.doc = ApplyPatch(draft.doc, p)
    BY <1>2, <2>1, <2>2, EditInterval DEF Interval
  <2>4. /\ HasDraft /\ draft \in DraftRow /\ draft.cursor \in Nat /\ draft.doc \in Documents
        /\ p \in Vocabulary
    BY <1>2 DEF ApplyEdit, HasDraft, DraftTypeOK, DraftRow, Accepts
  <2>5. low \in Nat /\ low <= b /\ high \in Nat /\ draft.cursor <= high /\ s = draft.cursor + 1
    BY <2>1, <2>2, <2>4, RingAssumption DEF NewLow, Interval
  <2>6. \A k \in DOMAIN timeline' :
          timeline'[k] = IF k = s THEN ApplyPatch(draft.doc, p) ELSE timeline[k]
    BY <1>2, <2>2 DEF ApplyEdit
  <2>7. \A k \in DOMAIN history' :
          history'[k] = IF k = s THEN [patch |-> p, inverse |-> InverseOf(draft.doc, p)]
                        ELSE history[k]
    BY <1>2, <2>2 DEF ApplyEdit
  <2>8. ApplyPatch(draft.doc, p) \in Documents
    BY <2>4, PatchType
  <2>9. ApplyPatch(ApplyPatch(draft.doc, p), InverseOf(draft.doc, p)) = draft.doc
    BY <2>4, InverseUndoes DEF KeepsFocus
  <2>10. \A k \in DOMAIN timeline' : k = s \/ k \in DOMAIN timeline
    BY <2>1, <2>3, <2>4, <2>5 DEF Interval
  <2>11. \A k \in DOMAIN timeline' : timeline'[k] \in Documents
    <3>1. \A k \in DOMAIN timeline : timeline[k] \in Documents
      BY <2>4 DEF EntryInv
    <3> SUFFICES ASSUME NEW k \in DOMAIN timeline'
                 PROVE  timeline'[k] \in Documents
      OBVIOUS
    <3>2. CASE k = s
      BY <2>6, <2>8, <3>2
    <3>3. CASE k # s
      BY <2>6, <2>10, <3>1, <3>3
    <3> QED
      BY <3>2, <3>3
  <2>12. timeline'[draft'.cursor] = draft'.doc
    <3>1. s \in DOMAIN timeline'
      BY <2>3
    <3> QED
      BY <2>3, <2>6, <3>1
  <2>13. timeline[draft.cursor] = draft.doc
    BY <2>4 DEF EntryInv
  <2>14. ASSUME NEW k \in DOMAIN history'
         PROVE  /\ timeline'[k] = ApplyPatch(timeline'[k - 1], history'[k].patch)
                /\ timeline'[k - 1] = ApplyPatch(timeline'[k], history'[k].inverse)
    <3>1. k \in DOMAIN timeline' /\ k - 1 \in DOMAIN timeline' /\ k - 1 # s
      BY <2>3, <2>4
    <3>2. timeline'[k - 1] = timeline[k - 1]
      BY <2>6, <3>1
    <3>3. CASE k = s
      <4>1. timeline'[k] = ApplyPatch(draft.doc, p) /\ timeline'[k - 1] = draft.doc
        BY <2>4, <2>5, <2>6, <2>13, <3>1, <3>2, <3>3
      <4>2. history'[k].patch = p /\ history'[k].inverse = InverseOf(draft.doc, p)
        BY <2>7, <3>3
      <4> QED
        BY <2>9, <4>1, <4>2
    <3>4. CASE k # s
      <4>1. k \in DOMAIN history /\ history'[k] = history[k] /\ timeline'[k] = timeline[k]
        BY SMTT(40), <2>1, <2>3, <2>4, <2>5, <2>6, <2>7, <3>1, <3>4 DEF Interval
      <4> QED
        BY <2>4, <3>2, <4>1 DEF EntryInv
    <3> QED
      BY <3>3, <3>4
  <2> QED
    BY <2>11, <2>12, <2>14 DEF EntryInv
<1>3. ASSUME Undo
      PROVE  EntryInv'
  <2>1. /\ HasDraft /\ draft.cursor \in DOMAIN history
        /\ draft'.cursor = draft.cursor - 1
        /\ draft'.doc = ApplyPatch(draft.doc, history[draft.cursor].inverse)
        /\ UNCHANGED <<history, timeline>>
    BY <1>3, UndoRow DEF Undo
  <2> QED
    BY <2>1 DEF EntryInv
<1>4. ASSUME Redo
      PROVE  EntryInv'
  <2>1. /\ HasDraft /\ draft.cursor + 1 \in DOMAIN history
        /\ draft'.cursor = draft.cursor + 1
        /\ draft'.doc = ApplyPatch(draft.doc, history[draft.cursor + 1].patch)
        /\ UNCHANGED <<history, timeline>>
    BY <1>4, RedoRow DEF Redo
  <2>2. draft.cursor \in Nat
    BY <2>1 DEF HasDraft, DraftTypeOK, DraftRow
  <2>3. timeline[draft.cursor + 1]
          = ApplyPatch(timeline[(draft.cursor + 1) - 1], history[draft.cursor + 1].patch)
    BY <2>1 DEF EntryInv
  <2>4. (draft.cursor + 1) - 1 = draft.cursor
    BY <2>2
  <2>5. timeline[draft.cursor + 1] = draft'.doc
    BY <2>1, <2>3, <2>4 DEF EntryInv
  <2> QED
    BY <2>1, <2>5 DEF EntryInv
<1>5. CASE UNCHANGED draftVars
  BY <1>5 DEF draftVars, EntryInv, HasDraft
<1> QED
  BY <1>1, <1>2, <1>3, <1>4, <1>5 DEF DraftNext

LEMMA RingInit == DraftInit => RingInv /\ EntryInv
  BY DEF DraftInit, RingInv, EntryInv, HasDraft

\* The ring is an interval of at most RingSize entries around the cursor.
LEMMA RingFollows == DraftTypeOK /\ RingInv => RingHolds
<1> SUFFICES ASSUME DraftTypeOK, RingInv, HasDraft
             PROVE  RingHolds
  BY DEF RingHolds
<1>1. PICK low, high : Interval(low, high)
  BY DEF RingInv
<1>2. draft.cursor \in Nat
  BY DEF DraftTypeOK, HasDraft, DraftRow
<1>3. Floor = low /\ Top = high
  BY <1>1, <1>2, Ends
<1> QED
  BY <1>1, <1>3 DEF RingHolds, Interval

LEMMA EntriesFollow == DraftTypeOK /\ RingInv /\ EntryInv => EntriesStep
<1> SUFFICES ASSUME DraftTypeOK, RingInv, EntryInv, HasDraft
             PROVE  EntriesStep
  BY DEF EntriesStep
<1>1. PICK low, high : Interval(low, high)
  BY DEF RingInv
<1>2. draft.cursor \in Nat
  BY DEF DraftTypeOK, HasDraft, DraftRow
<1>3. draft.cursor \in DOMAIN timeline
  BY <1>1, <1>2 DEF Interval
<1>4. \A k \in DOMAIN history : {k - 1, k} \subseteq DOMAIN timeline
  BY <1>1 DEF Interval
<1> QED
  BY <1>3, <1>4 DEF EntriesStep, EntryInv

\* However long the session, the ring is one interval of at most RingSize
\* entries and the cursor stays on it.
THEOREM RingIsInterval == DraftSpec => []RingHolds
<1>1. DraftInit => DraftTypeOK /\ RingInv
  BY DraftTypeInit, RingInit
<1>2. DraftTypeOK /\ RingInv /\ [DraftNext]_draftVars => DraftTypeOK' /\ RingInv'
  BY DraftTypeStep, RingStep
<1>3. DraftTypeOK /\ RingInv => RingHolds
  BY RingFollows
<1> QED
  BY <1>1, <1>2, <1>3, PTL DEF DraftSpec

\* Every entry undoes and redoes exactly the edit it was written for.
THEOREM EntriesExact == KeepsFocus => (DraftSpec => []EntriesStep)
<1> SUFFICES ASSUME KeepsFocus
             PROVE  DraftSpec => []EntriesStep
  OBVIOUS
<1>1. DraftInit => DraftTypeOK /\ RingInv /\ EntryInv
  BY DraftTypeInit, RingInit
<1>2. DraftTypeOK /\ RingInv /\ EntryInv /\ [DraftNext]_draftVars
        => DraftTypeOK' /\ RingInv' /\ EntryInv'
  BY DraftTypeStep, RingStep, EntryStep
<1>3. DraftTypeOK /\ RingInv /\ EntryInv => EntriesStep
  BY EntriesFollow
<1> QED
  BY <1>1, <1>2, <1>3, PTL DEF DraftSpec

----------------------------------------------------------------------------
(***************************************************************************)
(* The refinement.  Under Interval(low, high), Past is the timeline from   *)
(* low to the cursor and Future the one from the cursor to high.           *)
(***************************************************************************)
PastShape(low, high) ==
  /\ Past \in Seq(Documents) /\ Len(Past) = draft.cursor - low
  /\ \A i \in 1..(draft.cursor - low) : Past[i] = timeline[low + i - 1]

FutureShape(low, high) ==
  /\ Future \in Seq(Documents) /\ Len(Future) = high - draft.cursor
  /\ \A i \in 1..(high - draft.cursor) : Future[i] = timeline[draft.cursor + i]

Shaped == \A low, high : DraftTypeOK /\ EntryInv /\ HasDraft /\ Interval(low, high)
                          => PastShape(low, high) /\ FutureShape(low, high)

LEMMA PastIs ==
  ASSUME DraftTypeOK, EntryInv, HasDraft, NEW low, NEW high, Interval(low, high)
  PROVE  PastShape(low, high)
<1>1. draft.cursor \in Nat
  BY DEF DraftTypeOK, HasDraft, DraftRow
<1>2. Floor = low
  BY <1>1, Ends
<1>3. low \in Nat /\ low <= draft.cursor /\ DOMAIN timeline = low..high /\ high \in Nat
      /\ draft.cursor <= high
  BY DEF Interval
<1> DEFINE n == draft.cursor - low
<1>4. n \in Nat
  BY <1>1, <1>3
<1>5. Past = [i \in 1..n |-> timeline[low + i - 1]]
  BY <1>2 DEF Past
<1>6. \A i \in 1..n : timeline[low + i - 1] \in Documents
  <2>1. \A k \in DOMAIN timeline : timeline[k] \in Documents
    BY DEF EntryInv
  <2>2. \A i \in 1..n : low + i - 1 \in DOMAIN timeline
    BY <1>1, <1>3
  <2> QED
    BY <2>1, <2>2
<1> HIDE DEF n
<1>7. Past \in [1..n -> Documents]
  BY <1>5, <1>6
<1>8. Past \in Seq(Documents)
  BY <1>4, <1>7, SeqDef
<1>9. Len(Past) = n
  BY <1>4, <1>7, <1>8, LenProperties
<1> QED
  BY <1>5, <1>8, <1>9 DEF n, PastShape

LEMMA FutureIs ==
  ASSUME DraftTypeOK, EntryInv, HasDraft, NEW low, NEW high, Interval(low, high)
  PROVE  FutureShape(low, high)
<1>1. draft.cursor \in Nat
  BY DEF DraftTypeOK, HasDraft, DraftRow
<1>2. Top = high
  BY <1>1, Ends
<1>3. low \in Nat /\ low <= draft.cursor /\ DOMAIN timeline = low..high /\ high \in Nat
      /\ draft.cursor <= high
  BY DEF Interval
<1> DEFINE n == high - draft.cursor
<1>4. n \in Nat
  BY <1>1, <1>3
<1>5. Future = [i \in 1..n |-> timeline[draft.cursor + i]]
  BY <1>2 DEF Future
<1>6. \A i \in 1..n : timeline[draft.cursor + i] \in Documents
  <2>1. \A k \in DOMAIN timeline : timeline[k] \in Documents
    BY DEF EntryInv
  <2>2. \A i \in 1..n : draft.cursor + i \in DOMAIN timeline
    BY <1>1, <1>3
  <2> QED
    BY <2>1, <2>2
<1> HIDE DEF n
<1>7. Future \in [1..n -> Documents]
  BY <1>5, <1>6
<1>8. Future \in Seq(Documents)
  BY <1>4, <1>7, SeqDef
<1>9. Len(Future) = n
  BY <1>4, <1>7, <1>8, LenProperties
<1> QED
  BY <1>5, <1>8, <1>9 DEF n, FutureShape

\* The same before and after a step.
LEMMA ShapedAlways == Shaped
  BY PastIs, FutureIs DEF Shaped

LEMMA ShapedNext == Shaped'
<1>1. Shaped
  BY ShapedAlways
<1> QED
  BY <1>1, PTL

LEMMA ShapesAfter ==
  ASSUME DraftTypeOK', EntryInv', HasDraft', NEW low, NEW high, Interval(low, high)'
  PROVE  PastShape(low, high)' /\ FutureShape(low, high)'
  BY ShapedNext DEF Shaped

LEMMA StoredIs ==
  ASSUME DraftTypeOK, EntryInv, RingInv, HasDraft
  PROVE  Stored = draft.doc /\ Stored \in Documents /\ Stored = timeline[draft.cursor]
  BY DEF Stored, EntryInv, DraftTypeOK, HasDraft, DraftRow

\* A seeded or reseeded draft starts a history.
LEMMA StartsHistory ==
  ASSUME NEW doc \in Documents, NEW v \in Versions, Initialise(doc, v) \/ Reseed(doc, v),
         DraftTypeOK
  PROVE  Abstract!Start(doc)
<1>1. /\ DOMAIN history' = {} /\ draft'.cursor = 0 /\ draft'.doc = doc /\ draft' # Null
  <2>1. PICK r \in Nat : Replace(doc, v, r)
    BY DEF Initialise, Reseed, HasDraft, DraftTypeOK, DraftRow
  <2>2. draft' \in DraftRow
    BY <2>1 DEF Replace, DraftRow
  <2> QED
    BY <2>1, <2>2, NullAssumption DEF Replace
<1>2. Floor' = 0 /\ Top' = 0
  BY <1>1 DEF Floor, Top
<1>3. Past' = <<>> /\ Future' = <<>>
  <2>1. Past' = [i \in 1..0 |-> timeline'[0 + i - 1]]
    BY <1>1, <1>2 DEF Past, HasDraft
  <2>2. Future' = [i \in 1..0 |-> timeline'[0 + i]]
    BY <1>1, <1>2 DEF Future, HasDraft
  <2> QED
    BY <2>1, <2>2
<1>4. Stored' = doc
  BY <1>1 DEF Stored, HasDraft
<1> QED
  BY <1>3, <1>4 DEF Abstract!Start

\* An edit pushes the document shown and forgets what was undone.
LEMMA EditsHistory ==
  ASSUME KeepsFocus, DraftTypeOK, RingInv, EntryInv, NEW p \in Patches, ApplyEdit(p)
  PROVE  \E doc \in Documents : Abstract!Edit(doc)
<1>1. PICK low, high : Interval(low, high)
  BY DEF RingInv, ApplyEdit
<1>2. PICK b, s : b = NewLow(low) /\ s = draft.cursor + 1
  OBVIOUS
<1>3. /\ Interval(b, s)' /\ HasDraft' /\ draft'.cursor = s
      /\ draft'.doc = ApplyPatch(draft.doc, p)
  BY <1>1, <1>2, EditInterval
<1>4. [DraftNext]_draftVars
  BY DEF DraftNext
<1>5. DraftTypeOK' /\ EntryInv'
  BY <1>4, DraftTypeStep, EntryStep
<1>6. HasDraft /\ draft.cursor \in Nat
  BY DEF ApplyEdit, DraftTypeOK, HasDraft, DraftRow
<1>7. /\ low \in Nat /\ high \in Nat /\ low <= draft.cursor /\ draft.cursor <= high
      /\ high - low <= RingSize /\ RingSize \in Nat \ {0}
  BY <1>1, RingAssumption DEF Interval
<1>8. PastShape(low, high) /\ Stored = draft.doc /\ draft.doc \in Documents
  BY <1>1, <1>6, PastIs, StoredIs
<1>9. PastShape(b, s)' /\ FutureShape(b, s)'
  BY <1>3, <1>5, ShapesAfter
<1>10. Stored' = draft'.doc /\ draft'.doc \in Documents
  BY <1>3, <1>5 DEF Stored, HasDraft, DraftTypeOK, DraftRow
<1> DEFINE longer == Append(Past, Stored)
<1>11. /\ longer \in Seq(Documents) /\ Len(longer) = draft.cursor - low + 1
       /\ \A i \in 1..(draft.cursor - low + 1) : longer[i] = timeline[low + i - 1]
  <2>1. timeline[draft.cursor] = draft.doc
    BY <1>6 DEF EntryInv
  <2>2. /\ Past \in Seq(Documents) /\ Len(Past) = draft.cursor - low
        /\ \A i \in 1..(draft.cursor - low) : Past[i] = timeline[low + i - 1]
    BY <1>8 DEF PastShape
  <2>3. longer \in Seq(Documents) /\ Len(longer) = draft.cursor - low + 1
    BY <1>8, <2>2
  <2>4. ASSUME NEW i \in 1..(draft.cursor - low + 1)
        PROVE  longer[i] = timeline[low + i - 1]
    <3>1. CASE i = draft.cursor - low + 1
      <4>1. longer[i] = Stored /\ low + i - 1 = draft.cursor
        BY <1>6, <1>7, <2>2, <3>1
      <4> QED
        BY <1>8, <2>1, <4>1
    <3>2. CASE i # draft.cursor - low + 1
      <4>1. i \in 1..(draft.cursor - low) /\ i \in 1..Len(Past)
        BY <1>6, <1>7, <2>2, <3>2
      <4>2. longer[i] = Past[i]
        BY <1>8, <2>2, <4>1
      <4> QED
        BY <2>2, <4>1, <4>2
    <3> QED
      BY <3>1, <3>2
  <2> QED
    BY <2>3, <2>4
<1>12. /\ Past' \in Seq(Documents) /\ Len(Past') = s - b
       /\ \A i \in 1..(s - b) : Past'[i] = timeline[b + i - 1]
  <2>1. /\ Past' \in Seq(Documents) /\ Len(Past') = s - b
        /\ \A i \in 1..(s - b) : Past'[i] = timeline'[b + i - 1]
    BY <1>3, <1>9 DEF PastShape
  <2>2. DOMAIN timeline' = b..s /\ b \in Nat /\ s \in Nat
    BY <1>3 DEF Interval
  <2>3. \A k \in DOMAIN timeline' : k # s => timeline'[k] = timeline[k]
    BY <1>2 DEF ApplyEdit
  <2>4. \A i \in 1..(s - b) : b + i - 1 \in DOMAIN timeline' /\ b + i - 1 # s
    BY <2>2
  <2> QED
    BY <2>1, <2>3, <2>4
<1>13. Past' = IF Len(longer) > RingSize THEN Tail(longer) ELSE longer
  <2> HIDE DEF longer
  <2>1. CASE low > draft.cursor + 1 - RingSize \/ low = draft.cursor + 1 - RingSize
    <3>1. b = low /\ ~ (Len(longer) > RingSize) /\ s - b = draft.cursor - low + 1
      <4>1. b = low /\ s = draft.cursor + 1
        BY <1>2, <1>6, <1>7, <2>1 DEF NewLow
      <4>2. ~ (draft.cursor - low + 1 > RingSize)
        BY <1>6, <1>7, <2>1
      <4> QED
        BY <1>6, <1>7, <1>11, <4>1, <4>2
    <3>2. Len(Past') = Len(longer) /\ \A i \in 1..Len(Past') : Past'[i] = longer[i]
      BY <1>11, <1>12, <3>1
    <3>3. Past' = longer
      BY <1>11, <1>12, <3>2, SeqEqual
    <3> QED
      BY <3>1, <3>3
  <2>2. CASE low < draft.cursor + 1 - RingSize
    <3>1. /\ b = low + 1 /\ Len(longer) > RingSize /\ s - b = draft.cursor - low
          /\ Len(longer) = draft.cursor - low + 1
      <4>1. low = draft.cursor - RingSize
        BY <1>6, <1>7, <2>2
      <4>2. b = draft.cursor + 1 - RingSize /\ s = draft.cursor + 1
        BY <1>2, <1>6, <1>7, <2>2 DEF NewLow
      <4>3. Len(longer) = draft.cursor - low + 1
        BY <1>11
      <4>4. b = low + 1 /\ s - b = draft.cursor - low /\ draft.cursor - low + 1 > RingSize
        BY <1>6, <1>7, <4>1, <4>2
      <4> QED
        BY <4>3, <4>4
    <3>2. longer # <<>>
      BY <1>6, <1>7, <1>11, EmptySeq
    <3>3. /\ Tail(longer) \in Seq(Documents) /\ Len(Tail(longer)) = Len(longer) - 1
          /\ \A i \in 1..Len(Tail(longer)) : Tail(longer)[i] = longer[i + 1]
      BY <1>11, <3>2, HeadTailProperties
    <3>4. Len(Tail(longer)) = Len(Past') /\ Len(Past') = draft.cursor - low
      BY <1>6, <1>7, <1>12, <3>1, <3>3
    <3>5. ASSUME NEW i \in 1..Len(Past')
          PROVE  Past'[i] = Tail(longer)[i]
      <4>1. i + 1 \in 1..(draft.cursor - low + 1) /\ i \in 1..(s - b) /\ i \in Nat
        BY <1>6, <1>7, <3>1, <3>4
      <4>2. Tail(longer)[i] = timeline[low + (i + 1) - 1]
        BY <1>11, <3>3, <3>4, <4>1
      <4>3. Past'[i] = timeline[b + i - 1]
        BY <1>12, <4>1
      <4>4. low + (i + 1) - 1 = b + i - 1
        BY <1>7, <3>1, <4>1
      <4> QED
        BY <4>2, <4>3, <4>4
    <3>6. Past' = Tail(longer)
      BY <1>12, <3>3, <3>4, <3>5, SeqEqual
    <3> QED
      BY <3>1, <3>6
  <2> QED
    BY <1>6, <1>7, <2>1, <2>2
<1>14. Future' = <<>>
  <2>1. Future' \in Seq(Documents) /\ Len(Future') = 0
    BY <1>2, <1>3, <1>6, <1>9 DEF FutureShape
  <2> QED
    BY <2>1, EmptySeq
<1> QED
  BY <1>10, <1>13, <1>14 DEF Abstract!Edit

\* An undo shows the document before the last edit.
LEMMA UndoesHistory ==
  ASSUME KeepsFocus, DraftTypeOK, RingInv, EntryInv, Undo
  PROVE  Abstract!Back
<1>1. PICK low, high : Interval(low, high)
  BY DEF RingInv, Undo
<1>2. [DraftNext]_draftVars
  BY DEF DraftNext
<1>3. DraftTypeOK' /\ EntryInv'
  BY <1>2, DraftTypeStep, EntryStep
<1>4. /\ HasDraft /\ draft.cursor \in Nat /\ draft.cursor \in DOMAIN history
      /\ UNCHANGED <<history, timeline>>
  BY DEF Undo, DraftTypeOK, HasDraft, DraftRow
<1>5. draft' # Null /\ draft'.cursor = draft.cursor - 1
  BY UndoRow, NullAssumption
<1>6. /\ low \in Nat /\ high \in Nat /\ low <= draft.cursor - 1 /\ draft.cursor <= high
      /\ DOMAIN timeline = low..high
  BY <1>1, <1>4 DEF Interval
<1>7. Interval(low, high)' /\ HasDraft'
  BY <1>1, <1>4, <1>5, <1>6 DEF Interval, HasDraft
<1>8. PastShape(low, high) /\ FutureShape(low, high) /\ Stored = timeline[draft.cursor]
      /\ Stored \in Documents
  BY <1>1, <1>4, PastIs, FutureIs, StoredIs
<1>9. PastShape(low, high)' /\ FutureShape(low, high)'
  BY <1>3, <1>7, ShapesAfter
<1>10. Stored' = timeline[draft.cursor - 1]
  BY <1>3, <1>4, <1>5, <1>7 DEF Stored, EntryInv
<1> DEFINE n == draft.cursor - low
           m == high - draft.cursor
<1>11. /\ Past \in Seq(Documents) /\ Len(Past) = n
       /\ \A i \in 1..n : Past[i] = timeline[low + i - 1]
  BY <1>8 DEF PastShape
<1>12. /\ Past' \in Seq(Documents) /\ Len(Past') = n - 1
       /\ \A i \in 1..(n - 1) : Past'[i] = timeline[low + i - 1]
  <2>1. draft'.cursor - low = n - 1
    BY <1>4, <1>5, <1>6
  <2> QED
    BY <1>4, <1>9, <2>1 DEF PastShape
<1>13. /\ Future \in Seq(Documents) /\ Len(Future) = m
       /\ \A i \in 1..m : Future[i] = timeline[draft.cursor + i]
  BY <1>8 DEF FutureShape
<1>14. /\ Future' \in Seq(Documents) /\ Len(Future') = m + 1
       /\ \A i \in 1..(m + 1) : Future'[i] = timeline[(draft.cursor - 1) + i]
  <2>1. high - draft'.cursor = m + 1
    BY <1>4, <1>5, <1>6
  <2> QED
    BY <1>4, <1>5, <1>9, <2>1 DEF FutureShape
<1>15. n \in Nat /\ m \in Nat /\ n > 0
  BY <1>4, <1>6
<1>16. Past # <<>>
  BY <1>11, <1>15, EmptySeq
<1>17. Stored' = Past[Len(Past)]
  <2>1. Past[n] = timeline[low + n - 1] /\ low + n - 1 = draft.cursor - 1
    BY SMTT(40), <1>4, <1>6, <1>11, <1>15
  <2> QED
    BY <1>10, <1>11, <2>1
<1> HIDE DEF n, m
<1>18. Past' = SubSeq(Past, 1, Len(Past) - 1)
  <2> DEFINE front == SubSeq(Past, 1, Len(Past) - 1)
  <2>1. \A i \in 1..(n - 1) : Past[i] \in Documents
    BY <1>11, <1>15, ElementOfSeq
  <2>2. /\ front \in Seq(Documents) /\ Len(front) = n - 1
        /\ \A i \in 1..(n - 1) : front[i] = Past[i]
    BY <1>11, <1>15, <2>1
  <2>3. \A i \in 1..Len(Past') : Past'[i] = front[i]
    BY <1>11, <1>12, <1>15, <2>2
  <2> HIDE DEF front
  <2> QED
    BY <1>12, <2>2, <2>3, SeqEqual DEF front
<1>19. Future' = <<Stored>> \o Future
  <2> DEFINE longer == <<Stored>> \o Future
  <2>1. <<Stored>> \in Seq(Documents) /\ Len(<<Stored>>) = 1 /\ <<Stored>>[1] = Stored
    BY <1>8
  <2>2. /\ longer \in Seq(Documents) /\ Len(longer) = m + 1
        /\ \A i \in 1..(m + 1) : longer[i] = IF i <= 1 THEN <<Stored>>[i] ELSE Future[i - 1]
    BY <1>13, <1>15, <2>1, ConcatProperties
  <2> HIDE DEF longer
  <2>3. ASSUME NEW i \in 1..Len(Future')
        PROVE  Future'[i] = longer[i]
    <3>1. i \in 1..(m + 1) /\ i \in Nat
      BY <1>14, <1>15
    <3>2. CASE i = 1
      BY <1>4, <1>8, <1>14, <2>1, <2>2, <3>1, <3>2
    <3>3. CASE i # 1
      <4>1. i - 1 \in 1..m /\ ~ (i <= 1) /\ draft.cursor + (i - 1) = (draft.cursor - 1) + i
        BY <1>4, <1>15, <3>1, <3>3
      <4>2. Future[i - 1] = timeline[draft.cursor + (i - 1)]
        BY <1>13, <4>1
      <4>3. Future'[i] = timeline[(draft.cursor - 1) + i]
        BY <1>14, <3>1
      <4>4. longer[i] = Future[i - 1]
        BY <2>2, <3>1, <4>1
      <4> QED
        BY <4>1, <4>2, <4>3, <4>4
    <3> QED
      BY <3>2, <3>3
  <2> QED
    BY <1>14, <2>2, <2>3, SeqEqual DEF longer
<1> QED
  BY <1>16, <1>17, <1>18, <1>19 DEF Abstract!Back

\* A redo shows the document after the next edit.
LEMMA RedoesHistory ==
  ASSUME KeepsFocus, DraftTypeOK, RingInv, EntryInv, Redo
  PROVE  Abstract!Forward
<1>1. PICK low, high : Interval(low, high)
  BY DEF RingInv, Redo
<1>2. [DraftNext]_draftVars
  BY DEF DraftNext
<1>3. DraftTypeOK' /\ EntryInv'
  BY <1>2, DraftTypeStep, EntryStep
<1>4. /\ HasDraft /\ draft.cursor \in Nat /\ draft.cursor + 1 \in DOMAIN history
      /\ UNCHANGED <<history, timeline>>
  BY DEF Redo, DraftTypeOK, HasDraft, DraftRow
<1>5. draft' # Null /\ draft'.cursor = draft.cursor + 1
  BY RedoRow, NullAssumption
<1>6. /\ low \in Nat /\ high \in Nat /\ low <= draft.cursor /\ draft.cursor + 1 <= high
      /\ DOMAIN timeline = low..high
  BY <1>1, <1>4 DEF Interval
<1>7. Interval(low, high)' /\ HasDraft'
  BY <1>1, <1>4, <1>5, <1>6 DEF Interval, HasDraft
<1>8. PastShape(low, high) /\ FutureShape(low, high) /\ Stored = timeline[draft.cursor]
      /\ Stored \in Documents
  BY <1>1, <1>4, PastIs, FutureIs, StoredIs
<1>9. PastShape(low, high)' /\ FutureShape(low, high)'
  BY <1>3, <1>7, ShapesAfter
<1>10. Stored' = timeline[draft.cursor + 1]
  BY <1>3, <1>4, <1>5, <1>7 DEF Stored, EntryInv
<1> DEFINE n == draft.cursor - low
           m == high - draft.cursor
<1>11. /\ Past \in Seq(Documents) /\ Len(Past) = n
       /\ \A i \in 1..n : Past[i] = timeline[low + i - 1]
  BY <1>8 DEF PastShape
<1>12. /\ Past' \in Seq(Documents) /\ Len(Past') = n + 1
       /\ \A i \in 1..(n + 1) : Past'[i] = timeline[low + i - 1]
  <2>1. draft'.cursor - low = n + 1
    BY <1>4, <1>5, <1>6
  <2> QED
    BY <1>4, <1>9, <2>1 DEF PastShape
<1>13. /\ Future \in Seq(Documents) /\ Len(Future) = m
       /\ \A i \in 1..m : Future[i] = timeline[draft.cursor + i]
  BY <1>8 DEF FutureShape
<1>14. /\ Future' \in Seq(Documents) /\ Len(Future') = m - 1
       /\ \A i \in 1..(m - 1) : Future'[i] = timeline[(draft.cursor + 1) + i]
  <2>1. high - draft'.cursor = m - 1
    BY <1>4, <1>5, <1>6
  <2> QED
    BY <1>4, <1>5, <1>9, <2>1 DEF FutureShape
<1>15. n \in Nat /\ m \in Nat /\ m > 0
  BY <1>4, <1>6
<1>16. Future # <<>>
  BY <1>13, <1>15, EmptySeq
<1>17. Stored' = Future[1]
  <2>1. Future[1] = timeline[draft.cursor + 1]
    BY <1>13, <1>15
  <2> QED
    BY <1>10, <2>1
<1> HIDE DEF n, m
<1>18. Past' = Append(Past, Stored)
  <2> DEFINE longer == Append(Past, Stored)
  <2>1. longer \in Seq(Documents) /\ Len(longer) = n + 1
    BY <1>8, <1>11
  <2>2. ASSUME NEW i \in 1..(n + 1)
        PROVE  longer[i] = timeline[low + i - 1]
    <3>1. CASE i = n + 1
      <4>1. longer[i] = Stored
        BY <1>8, <1>11, <3>1
      <4>2. low + i - 1 = draft.cursor
        BY <1>4, <1>6, <3>1 DEF n
      <4> QED
        BY <1>8, <4>1, <4>2
    <3>2. CASE i # n + 1
      <4>1. i \in 1..n /\ i \in 1..Len(Past)
        BY <1>11, <1>15, <3>2
      <4>2. longer[i] = Past[i]
        BY <1>8, <1>11, <4>1
      <4> QED
        BY <1>11, <4>1, <4>2
    <3> QED
      BY <3>1, <3>2
  <2> HIDE DEF longer
  <2>3. \A i \in 1..Len(Past') : Past'[i] = longer[i]
    BY <1>12, <1>15, <2>2
  <2> QED
    BY <1>12, <2>1, <2>3, SeqEqual DEF longer
<1>19. Future' = Tail(Future)
  <2> DEFINE rest == Tail(Future)
  <2>1. /\ rest \in Seq(Documents) /\ Len(rest) = m - 1
        /\ \A i \in 1..Len(rest) : rest[i] = Future[i + 1]
    BY <1>13, <1>16, HeadTailProperties
  <2> HIDE DEF rest
  <2>2. ASSUME NEW i \in 1..Len(Future')
        PROVE  Future'[i] = rest[i]
    <3>1. /\ i \in 1..(m - 1) /\ i + 1 \in 1..m
          /\ draft.cursor + (i + 1) = (draft.cursor + 1) + i
      <4>1. Len(Future') = m - 1 /\ m \in Nat
        BY <1>14, <1>15
      <4> QED
        BY <1>4, <4>1
    <3>2. Future[i + 1] = timeline[draft.cursor + (i + 1)]
      BY <1>13, <3>1
    <3>3. Future'[i] = timeline[(draft.cursor + 1) + i]
      BY <1>14, <3>1
    <3>4. rest[i] = Future[i + 1]
      BY <2>1, <3>1
    <3> QED
      BY <3>1, <3>2, <3>3, <3>4
  <2> QED
    BY <1>14, <2>1, <2>2, SeqEqual DEF rest
<1> QED
  BY <1>16, <1>17, <1>18, <1>19 DEF Abstract!Forward

\* SiteDraftDO implements the undo history: undo and redo show the documents of
\* before and after the edit, whatever the patches of a session are, as long as
\* none clears an image with a focal point of its own.
THEOREM ImplementsHistory == KeepsFocus => (DraftSpec => IsUndoHistory)
<1> SUFFICES ASSUME KeepsFocus
             PROVE  DraftSpec => IsUndoHistory
  OBVIOUS
<1> DEFINE Inv == DraftTypeOK /\ RingInv /\ EntryInv
<1>1. DraftInit => Inv
  BY DraftTypeInit, RingInit
<1>2. Inv /\ [DraftNext]_draftVars => Inv'
  BY DraftTypeStep, RingStep, EntryStep
<1>3. DraftInit => Abstract!HistoryInit
  BY DEF DraftInit, Abstract!HistoryInit, Past, Future, HasDraft
<1>4. Inv /\ [DraftNext]_draftVars => [Abstract!HistoryNext]_(Abstract!historyVars)
  <2> SUFFICES ASSUME DraftTypeOK, RingInv, EntryInv, [DraftNext]_draftVars
               PROVE  [Abstract!HistoryNext]_(Abstract!historyVars)
    OBVIOUS
  <2>1. ASSUME NEW doc \in Documents, NEW v \in Versions, Initialise(doc, v) \/ Reseed(doc, v)
        PROVE  Abstract!HistoryNext
    BY <2>1, StartsHistory DEF Abstract!HistoryNext
  <2>2. ASSUME NEW p \in Patches, ApplyEdit(p)
        PROVE  Abstract!HistoryNext
    BY <2>2, EditsHistory DEF Abstract!HistoryNext
  <2>3. ASSUME Undo
        PROVE  Abstract!HistoryNext
    BY <2>3, UndoesHistory DEF Abstract!HistoryNext
  <2>4. ASSUME Redo
        PROVE  Abstract!HistoryNext
    BY <2>4, RedoesHistory DEF Abstract!HistoryNext
  <2>5. CASE UNCHANGED draftVars
    BY <2>5 DEF draftVars, Abstract!historyVars, Past, Stored, Future, HasDraft, Floor, Top,
                MaxSeq
  <2> QED
    BY <2>1, <2>2, <2>3, <2>4, <2>5 DEF DraftNext
<1> QED
  BY <1>1, <1>2, <1>3, <1>4, PTL DEF DraftSpec, IsUndoHistory, Abstract!HistorySpec

----------------------------------------------------------------------------
(***************************************************************************)
(* The tabs.  What a tab shows is reached from what is stored by the       *)
(* entries it has not sent or that are not served yet; the steps among     *)
(* them show nothing before they are answered.                             *)
(***************************************************************************)
Showing(doc, entry) == IF entry.kind = "patch" THEN ApplyPatch(doc, entry.patch) ELSE doc

Shows(shown, q, from, to) ==
  /\ shown[0] = from /\ shown[Len(q)] = to
  /\ \A n \in 1..Len(q) : shown[n] = Showing(shown[n - 1], q[n])

Leads(q, from, to) == \E shown \in [0..Len(q) -> Documents] : Shows(shown, q, from, to)

\* Nothing queued: what is shown is what is stored.
LEMMA LeadsNowhere == ASSUME NEW doc \in Documents PROVE Leads(<<>>, doc, doc)
<1> DEFINE shown == [n \in 0..0 |-> doc]
<1>1. shown \in [0..Len(<<>>) -> Documents] /\ Shows(shown, <<>>, doc, doc)
  BY DEF Shows
<1> QED BY <1>1 DEF Leads

\* One more entry at the end.
LEMMA LeadsFurther ==
  ASSUME NEW q \in Queues, NEW from, NEW to, Leads(q, from, to), NEW e \in Entries,
         Showing(to, e) \in Documents
  PROVE  Leads(Append(q, e), from, Showing(to, e))
<1>1. PICK shown \in [0..Len(q) -> Documents] : Shows(shown, q, from, to)
  BY DEF Leads
<1> DEFINE longer == Append(q, e)
           more == [n \in 0..Len(longer) |-> IF n = Len(q) + 1 THEN Showing(to, e) ELSE shown[n]]
<1>2. /\ Len(q) \in Nat /\ Len(longer) = Len(q) + 1
      /\ longer[Len(q) + 1] = e /\ \A n \in 1..Len(q) : longer[n] = q[n]
  BY DEF Queues
<1> HIDE DEF longer
<1>3. more \in [0..Len(longer) -> Documents]
  BY <1>1, <1>2
<1>4. more[0] = from /\ more[Len(longer)] = Showing(to, e)
  BY <1>1, <1>2 DEF Shows
<1>5. ASSUME NEW n \in 1..Len(longer)
      PROVE  more[n] = Showing(more[n - 1], longer[n])
  <2>1. CASE n = Len(q) + 1
    <3>1. more[n - 1] = to
      BY <1>1, <1>2, <2>1 DEF Shows
    <3>2. more[n] = Showing(to, e)
      BY <2>1, <1>2
    <3> QED BY <3>1, <3>2, <2>1, <1>2
  <2>2. CASE n # Len(q) + 1
    <3>1. n \in 1..Len(q) /\ longer[n] = q[n]
      BY <1>2, <2>2
    <3>2. more[n] = shown[n] /\ more[n - 1] = shown[n - 1]
      BY <1>2, <3>1
    <3>3. shown[n] = Showing(shown[n - 1], q[n])
      BY <1>1, <3>1 DEF Shows
    <3> QED BY <3>1, <3>2, <3>3
  <2> QED BY <2>1, <2>2
<1> HIDE DEF more
<1>6. Shows(more, longer, from, Showing(to, e))
  BY <1>4, <1>5 DEF Shows
<1> QED BY <1>3, <1>6 DEF Leads, longer

\* The first entry taken into the stored document.
LEMMA LeadsOn ==
  ASSUME NEW q \in Queues, NEW e \in Entries, NEW from, NEW to, Leads(<<e>> \o q, from, to)
  PROVE  Leads(q, Showing(from, e), to)
<1> DEFINE longer == <<e>> \o q
<1>1. /\ Len(q) \in Nat /\ Len(longer) = Len(q) + 1
      /\ longer[1] = e /\ \A n \in 1..Len(q) : longer[n + 1] = q[n]
  BY DEF Queues
<1>2. PICK shown \in [0..Len(longer) -> Documents] : Shows(shown, longer, from, to)
  BY DEF Leads
<1> HIDE DEF longer
<1> DEFINE less == [n \in 0..Len(q) |-> shown[n + 1]]
<1>3. less \in [0..Len(q) -> Documents]
  BY <1>1, <1>2
<1>4. less[0] = Showing(from, e) /\ less[Len(q)] = to
  <2>1. shown[1] = Showing(shown[0], longer[1]) /\ shown[0] = from /\ shown[Len(longer)] = to
    BY <1>1, <1>2 DEF Shows
  <2> QED BY <2>1, <1>1
<1>5. ASSUME NEW n \in 1..Len(q)
      PROVE  less[n] = Showing(less[n - 1], q[n])
  <2>1. n + 1 \in 1..Len(longer) /\ (n + 1) - 1 = n /\ n \in 0..Len(q) /\ n - 1 \in 0..Len(q)
    BY <1>1
  <2>2. shown[n + 1] = Showing(shown[n], longer[n + 1])
    BY <1>2, <2>1 DEF Shows
  <2>3. less[n] = shown[n + 1] /\ less[n - 1] = shown[n]
    BY <2>1
  <2> QED BY <2>2, <2>3, <1>1
<1> HIDE DEF less
<1>6. Shows(less, q, Showing(from, e), to)
  BY <1>4, <1>5 DEF Shows
<1> QED BY <1>3, <1>6 DEF Leads

\* If not every number is well, there is a smallest one that is not.
LEMMA Least ==
  ASSUME NEW T, T \subseteq Nat, T # {}
  PROVE  \E x \in T : \A y \in T : x <= y
<1>1. IsWellFoundedOn(OpToRel(<, Nat), Nat)
  BY NatLessThanWellFounded
<1>2. PICK x \in T : \A y \in T : ~ (<<y, x>> \in OpToRel(<, Nat))
  BY <1>1, WFMin
<1>3. \A y \in T : ~ (y < x)
  BY <1>2 DEF OpToRel
<1> QED BY <1>3

\* The table Replay reads, and the one entry by entry.
Replays(shown, q, doc) ==
  shown = [n \in 0..Len(q) |-> IF n = 0 THEN doc ELSE ApplyPatch(shown[n - 1], q[n].patch)]

LEMMA ReplayIsTable ==
  ASSUME NEW q, NEW doc
  PROVE  Replay(q, doc) = (CHOOSE shown : Replays(shown, q, doc))[Len(q)]
BY DEF Replay, Replays

LEMMA ReplayEntry ==
  ASSUME NEW q \in Queues, NEW doc, NEW shown, Replays(shown, q, doc)
  PROVE  /\ shown[0] = doc
         /\ \A n \in 1..Len(q) : shown[n] = ApplyPatch(shown[n - 1], q[n].patch)
<1> DEFINE F(n) == IF n = 0 THEN doc ELSE ApplyPatch(shown[n - 1], q[n].patch)
<1>1. shown = [n \in 0..Len(q) |-> F(n)]
  BY DEF Replays
<1>2. Len(q) \in Nat
  BY DEF Queues
<1> HIDE DEF F
<1>3. \A n \in 0..Len(q) : shown[n] = F(n)
  BY <1>1
<1>4. 0 \in 0..Len(q) /\ \A n \in 1..Len(q) : n \in 0..Len(q) /\ n # 0
  BY <1>2
<1> QED BY <1>3, <1>4 DEF F

\* Where no step is queued, what a tab shows is the replay of its entries.
LEMMA LeadsIsReplay ==
  ASSUME NEW q \in Queues, NEW from, NEW to, Leads(q, from, to),
         \A n \in 1..Len(q) : q[n].kind = "patch"
  PROVE  to = Replay(q, from)
<1>1. PICK shown \in [0..Len(q) -> Documents] : Shows(shown, q, from, to)
  BY DEF Leads
<1>2. Len(q) \in Nat
  BY DEF Queues
<1>3. \A n \in 1..Len(q) : shown[n] = ApplyPatch(shown[n - 1], q[n].patch)
  BY <1>1 DEF Shows, Showing
<1>4. Replays(shown, q, from)
  <2> DEFINE F(n) == IF n = 0 THEN from ELSE ApplyPatch(shown[n - 1], q[n].patch)
  <2>1. ASSUME NEW n \in 0..Len(q)
        PROVE  shown[n] = F(n)
    <3>1. CASE n = 0
      BY <3>1, <1>1 DEF Shows
    <3>2. CASE n # 0
      <4>1. n \in 1..Len(q)
        BY <1>2, <3>2
      <4> QED BY <4>1, <3>2, <1>3
    <3> QED BY <3>1, <3>2
  <2> HIDE DEF F
  <2>2. shown = [n \in 0..Len(q) |-> F(n)]
    BY <2>1, <1>1
  <2> QED BY <2>2 DEF F, Replays
<1> DEFINE table == CHOOSE g : Replays(g, q, from)
<1>5. Replays(table, q, from)
  BY <1>4
<1> HIDE DEF table
<1>6. table[0] = from /\ \A n \in 1..Len(q) : table[n] = ApplyPatch(table[n - 1], q[n].patch)
  BY <1>5, ReplayEntry
<1> DEFINE T == {n \in 0..Len(q) : table[n] # shown[n]}
<1>7. T = {}
  <2> SUFFICES ASSUME T # {} PROVE FALSE
    OBVIOUS
  <2>1. PICK n \in T : \A m \in T : n <= m
    <3>1. T \subseteq Nat
      BY <1>2
    <3> HIDE DEF T
    <3> QED BY <3>1, Least
  <2>2. n \in 0..Len(q) /\ table[n] # shown[n]
    OBVIOUS
  <2>3. n # 0
    BY <2>2, <1>6, <1>1 DEF Shows
  <2>4. n \in 1..Len(q) /\ n - 1 \in 0..Len(q) /\ ~ (n <= n - 1)
    BY <1>2, <2>2, <2>3
  <2>5. table[n - 1] = shown[n - 1]
    BY <2>1, <2>4
  <2> QED BY <2>2, <2>4, <2>5, <1>3, <1>6
<1>8. table[Len(q)] = shown[Len(q)]
  BY <1>7, <1>2
<1>9. Replay(q, from) = table[Len(q)]
  BY ReplayIsTable DEF table
<1> QED BY <1>8, <1>9, <1>1 DEF Shows

----------------------------------------------------------------------------
(***************************************************************************)
(* The invariant.  Revisions number what was written, and the table of     *)
(* authors with them.  A tab knows the stored revision, or another wrote   *)
(* since, or an answer was lost on the way to it; and unless it is         *)
(* settling an answer that replaces its document or halts it, what it      *)
(* shows is reached from what is stored.                                   *)
(***************************************************************************)
Numbered == Len(author) = IF HasDraft THEN draft.rev ELSE 0

TimersOK ==
  /\ timer = [u \in Tabs |-> [s \in Slots |-> timer[u][s]]]
  /\ \A u \in Tabs : \A s \in Slots : timer[u][s] # Null =>
       /\ timer[u][s].base \in Documents
       /\ [op |-> "set_copy", slot |-> s, text |-> timer[u][s].text] \in Patches

Answered(t) == wire[t] # Null /\ wire[t].answer # Null
Granted(t) == Answered(t) /\ wire[t].answer.ok

\* The revision a tab knows of, or its answer tells it.
Known(t) == IF Granted(t) THEN wire[t].answer.rev ELSE tab[t].rev

\* Another actor wrote since, or an answer was lost.
Excused(t, rev) == deaf[t] \/ \E r \in (rev + 1)..Len(author) : author[r] # t

\* The answer replaces the document, or halts the tab.
Settling(t) ==
  \/ Granted(t) /\ wire[t].answer.doc # Null
  \/ Answered(t) /\ ~ wire[t].answer.ok /\ wire[t].answer.reason # "nothing_to_do"

\* An answer is one to its entry.
Matches(t) ==
  Answered(t) =>
    /\ wire[t].answer.ok => (wire[t].answer.doc = Null <=> wire[t].entry.kind = "patch")
    /\ ~ wire[t].answer.ok => /\ wire[t].answer.reason = "nothing_to_do" => wire[t].entry.kind # "patch"
                              /\ wire[t].answer.reason = "stale_rev" => Excused(t, tab[t].rev)

Abreast(t) ==
  /\ tab[t].rev <= Known(t) /\ Known(t) <= draft.rev
  /\ Known(t) # draft.rev => Excused(t, Known(t))
  /\ tab[t].status = "conflict" => Excused(t, tab[t].rev)

Faithful(t) ==
  Known(t) = draft.rev =>
    /\ Granted(t) /\ wire[t].answer.doc # Null => wire[t].answer.doc = draft.doc
    /\ ~ Halted(t) /\ ~ drifted[t] /\ ~ Settling(t) => Leads(Unserved(t), draft.doc, tab[t].doc)

TabOK(t) ==
  /\ ~ Live(t) => wire[t] = Null
  /\ Live(t) =>
       /\ HasDraft
       /\ wire[t] # Null => wire[t].rev = tab[t].rev /\ ~ Halted(t)
       /\ Matches(t) /\ Abreast(t) /\ Faithful(t)

Inv == TypeOK /\ TimersOK /\ Numbered /\ \A t \in Tabs : TabOK(t)

----------------------------------------------------------------------------
\* What an entry is, and what the head of a queue.
LEMMA EntryIs ==
  ASSUME NEW e \in Entries
  PROVE  \/ e.kind = "patch" /\ e.patch \in Patches
         \/ e.kind \in {"undo", "redo"}
BY DEF Entries, Patching, Stepping

LEMMA QueueHead ==
  ASSUME NEW q \in Queues, q # <<>>
  PROVE  Head(q) \in Entries /\ Tail(q) \in Queues /\ <<Head(q)>> \o Tail(q) = q
<1>1. Head(q) \in Entries /\ Tail(q) \in Seq(Entries) /\ Len(Tail(q)) = Len(q) - 1
      /\ \A i \in 1..Len(Tail(q)) : Tail(q)[i] = q[i + 1]
  BY HeadTailProperties DEF Queues
<1> DEFINE p == <<Head(q)>> \o Tail(q)
<1>2. p \in Seq(Entries) /\ Len(p) = Len(q) /\ q \in Seq(Entries) /\ Len(q) \in Nat
  BY <1>1 DEF Queues
<1>3. ASSUME NEW i \in 1..Len(p)
      PROVE  p[i] = q[i]
  <2>1. CASE i = 1
    BY <2>1, <1>1
  <2>2. CASE i # 1
    <3>1. i - 1 \in 1..Len(Tail(q)) /\ (i - 1) + 1 = i
      BY <1>1, <1>2, <2>2
    <3>2. p[i] = Tail(q)[i - 1]
      BY <1>1, <1>2, <2>2, <3>1
    <3> QED BY <3>1, <3>2, <1>1
  <2> QED BY <2>1, <2>2
<1> HIDE DEF p
<1>4. p = q
  BY <1>2, <1>3, SeqEqual
<1> QED BY <1>1, <1>4 DEF p, Queues

LEMMA Queued ==
  ASSUME NEW q \in Queues, NEW e \in Entries
  PROVE  /\ Append(q, e) \in Queues /\ <<e>> \o q \in Queues
         /\ \A x \in Entries : <<x>> \o Append(q, e) = Append(<<x>> \o q, e)
BY DEF Queues

LEMMA RequestIs ==
  ASSUME NEW e \in Entries, NEW rev \in Nat
  PROVE  /\ Request(e, rev) \in Requests /\ Request(e, rev) # Null
         /\ Request(e, rev).entry = e /\ Request(e, rev).rev = rev
         /\ Request(e, rev).answer = Null
BY NoneAssumption DEF Request, Requests

\* What pump() leaves: the tab as the handler made it, with its queue still to
\* be served in its order.
LEMMA PumpLeaves ==
  ASSUME TypeOK, NEW t \in Tabs, NEW hook \in Hooks, NEW queue \in Queues, Pump(t, hook, queue)
  PROVE  /\ tab' \in [Tabs -> Hooks \cup {Null}] /\ wire' \in [Tabs -> Requests \cup {Null}]
         /\ \A u \in Tabs : u # t => tab'[u] = tab[u] /\ wire'[u] = wire[u]
         /\ tab'[t] \in Hooks /\ tab'[t] # Null
         /\ tab'[t].doc = hook.doc /\ tab'[t].rev = hook.rev
         /\ \/ tab'[t].status = hook.status
            \/ tab'[t].status = "saving" /\ hook.status \notin {"conflict", "blocked"}
         /\ wire'[t] # Null => /\ hook.status \notin {"conflict", "blocked"}
                               /\ wire'[t].rev = hook.rev /\ wire'[t].answer = Null
         /\ Unserved(t)' = queue
<1>1. CASE hook.status \in {"conflict", "blocked"} \/ queue = <<>>
  <2>1. /\ tab' = [tab EXCEPT ![t] = [hook EXCEPT !.queue = queue]]
        /\ wire' = [wire EXCEPT ![t] = Null]
    BY <1>1 DEF Pump
  <2>2. [hook EXCEPT !.queue = queue] \in Hooks
    BY DEF Hooks
  <2>3. tab'[t] = [hook EXCEPT !.queue = queue] /\ wire'[t] = Null
    BY <2>1 DEF TypeOK
  <2>4. tab'[t].doc = hook.doc /\ tab'[t].rev = hook.rev /\ tab'[t].status = hook.status
        /\ tab'[t].queue = queue
    BY <2>3 DEF Hooks
  <2>5. /\ tab' \in [Tabs -> Hooks \cup {Null}] /\ wire' \in [Tabs -> Requests \cup {Null}]
        /\ \A u \in Tabs : u # t => tab'[u] = tab[u] /\ wire'[u] = wire[u]
    BY <2>1, <2>2 DEF TypeOK
  <2>6. Unserved(t)' = queue
    BY <2>3, <2>4 DEF Unserved
  <2> QED BY <2>2, <2>3, <2>4, <2>5, <2>6, NoneAssumption
<1>2. CASE hook.status \notin {"conflict", "blocked"} /\ queue # <<>>
  <2> DEFINE sent == [hook EXCEPT !.queue = Tail(queue), !.status = "saving"]
  <2>1. /\ tab' = [tab EXCEPT ![t] = sent]
        /\ wire' = [wire EXCEPT ![t] = Request(Head(queue), hook.rev)]
    BY <1>2 DEF Pump
  <2>2. Head(queue) \in Entries /\ Tail(queue) \in Queues /\ <<Head(queue)>> \o Tail(queue) = queue
    BY <1>2, QueueHead
  <2>3. /\ sent \in Hooks /\ sent.doc = hook.doc /\ sent.rev = hook.rev
        /\ sent.queue = Tail(queue) /\ sent.status = "saving" /\ hook.rev \in Nat
    BY <2>2 DEF Hooks, Statuses
  <2> HIDE DEF sent
  <2>4. /\ Request(Head(queue), hook.rev) \in Requests /\ Request(Head(queue), hook.rev) # Null
        /\ Request(Head(queue), hook.rev).entry = Head(queue)
        /\ Request(Head(queue), hook.rev).rev = hook.rev
        /\ Request(Head(queue), hook.rev).answer = Null
    BY <2>2, <2>3, RequestIs
  <2>5. tab'[t] = sent /\ wire'[t] = Request(Head(queue), hook.rev)
    BY <2>1 DEF TypeOK
  <2>6. /\ tab' \in [Tabs -> Hooks \cup {Null}] /\ wire' \in [Tabs -> Requests \cup {Null}]
        /\ \A u \in Tabs : u # t => tab'[u] = tab[u] /\ wire'[u] = wire[u]
    BY <2>1, <2>3, <2>4 DEF TypeOK
  <2>7. Unserved(t)' = queue
    BY <2>2, <2>3, <2>4, <2>5 DEF Unserved
  <2> QED BY <1>2, <2>3, <2>4, <2>5, <2>6, <2>7, NoneAssumption
<1> QED BY <1>1, <1>2

\* enqueue() leaves the entry behind what is unserved.
LEMMA EnqueueLeaves ==
  ASSUME TypeOK, NEW t \in Tabs, NEW hook \in Hooks, tab[t] \in Hooks,
         hook.rev = tab[t].rev, hook.queue = tab[t].queue,
         hook.status \notin {"conflict", "blocked"}, wire[t] # Null => wire[t].rev = tab[t].rev,
         NEW e \in Entries, Enqueue(t, hook, e)
  PROVE  /\ tab' \in [Tabs -> Hooks \cup {Null}] /\ wire' \in [Tabs -> Requests \cup {Null}]
         /\ \A u \in Tabs : u # t => tab'[u] = tab[u] /\ wire'[u] = wire[u]
         /\ tab'[t] \in Hooks /\ tab'[t] # Null
         /\ tab'[t].doc = hook.doc /\ tab'[t].rev = hook.rev
         /\ tab'[t].status \in {hook.status, "saving"}
         /\ wire'[t] = wire[t] \/ (wire[t] = Null /\ wire'[t].rev = hook.rev /\ wire'[t].answer = Null)
         /\ Unserved(t) \in Queues /\ Unserved(t)' = Append(Unserved(t), e)
<1>0. tab[t].queue \in Queues /\ Append(tab[t].queue, e) \in Queues
  BY Queued DEF Hooks
<1>1. CASE wire[t] = Null
  <2>1. Pump(t, hook, Append(tab[t].queue, e))
    BY <1>1 DEF Enqueue
  <2>2. Append(tab[t].queue, e) # <<>>
    <3>1. Len(Append(tab[t].queue, e)) = Len(tab[t].queue) + 1 /\ Len(tab[t].queue) \in Nat
      BY <1>0 DEF Queues
    <3> QED BY <3>1
  <2>3. wire'[t] = Request(Head(Append(tab[t].queue, e)), hook.rev)
    BY <2>1, <2>2 DEF Pump, TypeOK
  <2>4. wire'[t].rev = hook.rev /\ wire'[t].answer = Null
    BY <2>3 DEF Request
  <2>5. Unserved(t) = tab[t].queue
    BY <1>1 DEF Unserved
  <2> DEFINE queue == Append(tab[t].queue, e)
  <2>6. queue \in Queues /\ Pump(t, hook, queue)
    BY <1>0, <2>1
  <2> HIDE DEF queue
  <2>7. /\ tab' \in [Tabs -> Hooks \cup {Null}] /\ wire' \in [Tabs -> Requests \cup {Null}]
        /\ \A u \in Tabs : u # t => tab'[u] = tab[u] /\ wire'[u] = wire[u]
        /\ tab'[t] \in Hooks /\ tab'[t] # Null
        /\ tab'[t].doc = hook.doc /\ tab'[t].rev = hook.rev
        /\ tab'[t].status \in {hook.status, "saving"}
    BY <2>6, PumpLeaves
  <2>8. Unserved(t)' = queue
    BY <2>6, PumpLeaves
  <2> QED BY <1>0, <1>1, <2>4, <2>5, <2>7, <2>8 DEF queue
<1>2. CASE wire[t] # Null
  <2> DEFINE after == [hook EXCEPT !.queue = Append(hook.queue, e)]
  <2>1. tab' = [tab EXCEPT ![t] = after] /\ wire' = wire
    BY <1>2 DEF Enqueue
  <2>2. /\ after \in Hooks /\ after.doc = hook.doc /\ after.rev = hook.rev
        /\ after.status = hook.status /\ after.queue = Append(tab[t].queue, e)
    BY <1>0 DEF Hooks
  <2> HIDE DEF after
  <2>3. tab'[t] = after /\ tab' \in [Tabs -> Hooks \cup {Null}]
        /\ \A u \in Tabs : u # t => tab'[u] = tab[u]
    BY <2>1, <2>2 DEF TypeOK
  <2>4. wire[t].entry \in Entries /\ wire' \in [Tabs -> Requests \cup {Null}]
    BY <1>2, <2>1 DEF TypeOK, Requests
  <2>5. Unserved(t) \in Queues /\ Unserved(t)' = Append(Unserved(t), e)
    <3>1. CASE wire[t].answer = Null
      <4>1. Unserved(t) = <<wire[t].entry>> \o tab[t].queue
        BY <1>2, <3>1 DEF Unserved
      <4>2. Unserved(t)' = <<wire[t].entry>> \o Append(tab[t].queue, e)
        BY <1>2, <3>1, <2>1, <2>2, <2>3 DEF Unserved
      <4>3. <<wire[t].entry>> \o tab[t].queue \in Queues
        BY <2>4, <1>0, Queued
      <4>4. <<wire[t].entry>> \o Append(tab[t].queue, e) = Append(<<wire[t].entry>> \o tab[t].queue, e)
        BY <2>4, <1>0, Queued
      <4> QED BY <4>1, <4>2, <4>3, <4>4
    <3>2. CASE wire[t].answer # Null
      <4>1. Unserved(t) = tab[t].queue
        BY <3>2 DEF Unserved
      <4>2. Unserved(t)' = Append(tab[t].queue, e)
        BY <3>2, <2>1, <2>2, <2>3 DEF Unserved
      <4> QED BY <4>1, <4>2, <1>0
    <3> QED BY <3>1, <3>2
  <2>6. tab'[t] # Null
    BY <2>2, <2>3, NoneAssumption
  <2> QED BY <2>1, <2>2, <2>3, <2>4, <2>5, <2>6
<1> QED BY <1>1, <1>2

----------------------------------------------------------------------------
\* What an answer is.
LEMMA ReplyIs ==
  ASSUME NEW a \in Replies
  PROVE  /\ a.ok \in BOOLEAN
         /\ a.ok => a.rev \in Nat /\ a.doc \in Documents \cup {Null}
                    /\ a.canUndo \in BOOLEAN /\ a.canRedo \in BOOLEAN
         /\ ~ a.ok => a.reason \in {"stale_rev", "blocked", "nothing_to_do"}
BY DEF Replies

LEMMA TabIs ==
  ASSUME TypeOK, NEW t \in Tabs, Live(t)
  PROVE  /\ tab[t] \in Hooks /\ tab[t].rev \in Nat /\ tab[t].doc \in Documents
         /\ tab[t].queue \in Queues /\ tab[t].status \in Statuses /\ Known(t) \in Nat
         /\ wire[t] # Null => /\ wire[t].entry \in Entries /\ wire[t].rev \in Nat
                              /\ wire[t].answer \in Replies \cup {Null}
         /\ Unserved(t) \in Queues
<1>1. /\ tab[t] \in Hooks /\ tab[t].rev \in Nat /\ tab[t].doc \in Documents
      /\ tab[t].queue \in Queues /\ tab[t].status \in Statuses
  BY DEF TypeOK, Live, Hooks
<1>2. wire[t] # Null => /\ wire[t].entry \in Entries /\ wire[t].rev \in Nat
                        /\ wire[t].answer \in Replies \cup {Null}
  BY DEF TypeOK, Requests
<1>3. Known(t) \in Nat
  BY <1>1, <1>2, ReplyIs DEF Known, Granted, Answered
<1>4. Unserved(t) \in Queues
  BY <1>1, <1>2, Queued DEF Unserved
<1> QED BY <1>1, <1>2, <1>3, <1>4

\* A tab nothing happens to.
LEMMA TabStays ==
  ASSUME NEW t, TabOK(t), tab'[t] = tab[t], wire'[t] = wire[t], drifted'[t] = drifted[t],
         deaf'[t] = deaf[t], UNCHANGED <<draft, author>>
  PROVE  TabOK(t)'
BY DEF TabOK, Live, HasDraft, Matches, Abreast, Faithful, Answered, Granted, Known, Excused,
       Settling, Halted, Unserved

\* Another actor writes.
LEMMA TabLeftBehind ==
  ASSUME NEW t \in Tabs, TabOK(t), TypeOK, Numbered, NEW x, x # t, author' = Append(author, x),
         Live(t)' <=> Live(t), HasDraft => draft'.rev = draft.rev + 1, HasDraft',
         Live(t) => tab'[t].rev = tab[t].rev /\ tab'[t].status = tab[t].status,
         wire'[t] = wire[t], drifted'[t] = drifted[t], deaf'[t] = deaf[t]
  PROVE  TabOK(t)'
<1> USE DEF Live
<1>1. CASE tab[t] = Null
  BY <1>1 DEF TabOK
<1>2. CASE tab[t] # Null
  <2>1. HasDraft /\ draft.rev \in Nat /\ Len(author) = draft.rev /\ author \in Seq(Tabs \cup {Null})
    BY <1>2 DEF TabOK, Numbered, TypeOK, DraftTypeOK, DraftRow, HasDraft
  <2>2. /\ Len(author') = draft.rev + 1 /\ author'[draft.rev + 1] = x
        /\ \A r \in 1..draft.rev : author'[r] = author[r]
    BY <2>1
  <2>3. Known(t)' = Known(t) /\ Known(t) <= draft.rev
    BY <1>2 DEF TabOK, Abreast, Known, Granted, Answered
  <2>4. ASSUME NEW rev, Excused(t, rev), rev \in Nat
        PROVE  deaf'[t] \/ \E r \in (rev + 1)..Len(author') : author'[r] # t
    BY <2>1, <2>2, <2>4 DEF Excused
  <2>5. ASSUME NEW rev \in Nat, rev <= draft.rev
        PROVE  \E r \in (rev + 1)..Len(author') : author'[r] # t
    BY <2>1, <2>2, <2>5
  <2>6. tab[t].rev \in Nat /\ Known(t) \in Nat
    BY <1>2, TabIs
  <2>7. ASSUME NEW rev \in Nat
        PROVE  Excused(t, rev)' <=> deaf'[t] \/ \E r \in (rev + 1)..Len(author') : author'[r] # t
    BY DEF Excused
  <2>8. tab'[t] # Null /\ Halted(t)' <=> Halted(t)
    BY <1>2 DEF Halted
  <2>9. Matches(t)'
    <3>1. wire'[t] # Null /\ wire'[t].answer # Null /\ ~ wire'[t].answer.ok
             /\ wire'[t].answer.reason = "stale_rev" => Excused(t, tab[t].rev)
      BY <1>2 DEF TabOK, Matches, Answered
    <3>2. Excused(t, tab[t].rev) => Excused(t, tab[t].rev)'
      BY <2>4, <2>6 DEF Excused
    <3> QED BY <3>1, <3>2, <1>2 DEF TabOK, Matches, Answered, Excused
  <2>10. Abreast(t)'
    <3>1. Known(t)' <= draft'.rev /\ tab'[t].rev <= Known(t)'
      BY <1>2, <2>1, <2>3, <2>6 DEF TabOK, Abreast
    <3>2. Excused(t, Known(t))'
      BY <2>3, <2>5, <2>6 DEF Excused
    <3>3. tab'[t].status = "conflict" => Excused(t, tab[t].rev)'
      BY <1>2, <2>4, <2>6 DEF TabOK, Abreast, Excused
    <3> QED BY <1>2, <3>1, <3>2, <3>3 DEF Abreast, Excused
  <2>11. Faithful(t)'
    BY <2>1, <2>3, <2>6 DEF Faithful
  <2> QED BY <1>2, <2>8, <2>9, <2>10, <2>11 DEF TabOK
<1> QED BY <1>1, <1>2

\* A tab that pumped shows what its handler left it, and waits for its queue.
LEMMA TabPumps ==
  ASSUME Inv, NEW t \in Tabs, HasDraft, NEW hook \in Hooks, NEW queue \in Queues,
         Pump(t, hook, queue), UNCHANGED <<draft, author>>, deaf[t] => deaf'[t],
         hook.rev <= draft.rev,
         hook.rev # draft.rev => Excused(t, hook.rev) \/ deaf'[t],
         hook.status = "conflict" => Excused(t, hook.rev) \/ deaf'[t],
         hook.rev = draft.rev /\ hook.status \notin {"conflict", "blocked"} /\ ~ drifted'[t]
           => Leads(queue, draft.doc, hook.doc)
  PROVE  TabOK(t)'
<1>1. TypeOK
  BY DEF Inv
<1>2. /\ tab'[t] # Null
      /\ tab'[t].doc = hook.doc /\ tab'[t].rev = hook.rev
      /\ \/ tab'[t].status = hook.status
         \/ tab'[t].status = "saving" /\ hook.status \notin {"conflict", "blocked"}
      /\ wire'[t] # Null => /\ hook.status \notin {"conflict", "blocked"}
                            /\ wire'[t].rev = hook.rev /\ wire'[t].answer = Null
  BY <1>1, PumpLeaves
<1>3. Unserved(t)' = queue
  BY <1>1, PumpLeaves
<1>4. ~ Answered(t)' /\ ~ Granted(t)' /\ ~ Settling(t)' /\ Known(t)' = hook.rev
  BY <1>2 DEF Answered, Granted, Settling, Known
<1>5. ASSUME Excused(t, hook.rev) \/ deaf'[t]
      PROVE  Excused(t, tab[t].rev)' /\ Excused(t, Known(t))'
  BY <1>2, <1>4, <1>5 DEF Excused
<1>6. Matches(t)'
  BY <1>4 DEF Matches, Answered
<1>7. Abreast(t)'
  <2>1. Known(t)' <= draft'.rev /\ tab'[t].rev <= Known(t)'
    BY <1>2, <1>4 DEF Hooks
  <2>2. Known(t)' # draft'.rev => Excused(t, Known(t))'
    BY <1>4, <1>5
  <2>3. tab'[t].status = "conflict" => Excused(t, tab[t].rev)'
    BY <1>2, <1>5
  <2> QED BY <2>1, <2>2, <2>3 DEF Abreast
<1>8. Faithful(t)'
  BY <1>2, <1>3, <1>4 DEF Faithful, Halted
<1>9. wire'[t] # Null => wire'[t].rev = tab'[t].rev /\ ~ Halted(t)'
  BY <1>2 DEF Halted
<1> QED BY <1>2, <1>6, <1>7, <1>8, <1>9 DEF TabOK, Live, HasDraft

\* An entry joins the queue of a tab that shows it already.
LEMMA TabEnqueues ==
  ASSUME Inv, NEW t \in Tabs, Live(t), ~ Halted(t), NEW hook \in Hooks, NEW e \in Entries,
         hook.rev = tab[t].rev, hook.queue = tab[t].queue, hook.status = tab[t].status,
         Enqueue(t, hook, e), UNCHANGED <<draft, author>>, deaf'[t] = deaf[t],
         ~ drifted'[t] => ~ drifted[t] /\ hook.doc = Showing(tab[t].doc, e),
         hook.doc \in Documents
  PROVE  TabOK(t)'
<1>1. TypeOK /\ TabOK(t)
  BY DEF Inv
<1>2. /\ HasDraft /\ Matches(t) /\ Abreast(t) /\ Faithful(t) /\ tab[t] \in Hooks
      /\ wire[t] # Null => wire[t].rev = tab[t].rev
      /\ tab[t].status \notin {"conflict", "blocked"}
  BY <1>1 DEF TabOK, Live, TypeOK, Halted
<1>3. /\ tab'[t] \in Hooks /\ tab'[t] # Null
      /\ tab'[t].doc = hook.doc /\ tab'[t].rev = hook.rev
      /\ tab'[t].status \in {hook.status, "saving"}
      /\ wire'[t] = wire[t] \/ (wire[t] = Null /\ wire'[t].rev = hook.rev /\ wire'[t].answer = Null)
      /\ Unserved(t) \in Queues
  BY <1>1, <1>2, EnqueueLeaves
<1>4. Unserved(t)' = Append(Unserved(t), e)
  BY <1>1, <1>2, EnqueueLeaves
<1>5. ~ Halted(t)' /\ tab'[t].status # "conflict"
  BY <1>2, <1>3 DEF Halted
<1>6. /\ Answered(t)' <=> Answered(t)
      /\ Granted(t)' <=> Granted(t)
      /\ Settling(t)' <=> Settling(t)
      /\ Known(t)' = Known(t)
      /\ Answered(t) => wire'[t] = wire[t]
  BY <1>3 DEF Answered, Granted, Settling, Known
<1>7. Matches(t)'
  BY <1>2, <1>3, <1>6 DEF Matches, Excused, Answered
<1>8. Abreast(t)'
  BY <1>2, <1>3, <1>5, <1>6 DEF Abreast, Excused
<1>9. Faithful(t)'
  <2> SUFFICES ASSUME Known(t) = draft.rev
               PROVE  /\ Granted(t)' /\ wire'[t].answer.doc # Null => wire'[t].answer.doc = draft.doc
                      /\ ~ drifted'[t] /\ ~ Settling(t) => Leads(Unserved(t)', draft.doc, tab'[t].doc)
    BY <1>6 DEF Faithful
  <2>1. Granted(t)' /\ wire'[t].answer.doc # Null => wire'[t].answer.doc = draft.doc
    BY <1>2, <1>6 DEF Faithful, Granted
  <2>2. ASSUME ~ drifted'[t], ~ Settling(t)
        PROVE  Leads(Unserved(t)', draft.doc, tab'[t].doc)
    <3>1. Leads(Unserved(t), draft.doc, tab[t].doc)
      BY <1>2, <2>2 DEF Faithful
    <3>2. Leads(Append(Unserved(t), e), draft.doc, Showing(tab[t].doc, e))
      BY <1>3, <2>2, <3>1, LeadsFurther
    <3> QED BY <1>3, <1>4, <2>2, <3>2
  <2> QED BY <2>1, <2>2
<1>10. wire'[t] # Null => wire'[t].rev = tab'[t].rev
  BY <1>2, <1>3
<1> QED BY <1>2, <1>3, <1>5, <1>7, <1>8, <1>9, <1>10 DEF TabOK, Live, HasDraft

\* What only a tab takes part in leaves the others as they were.
LEMMA OthersStay ==
  ASSUME Inv, NEW t \in Tabs, UNCHANGED <<draft, author>>, TypeOK', TimersOK', TabOK(t)',
         \A u \in Tabs : u # t => /\ tab'[u] = tab[u] /\ wire'[u] = wire[u]
                                  /\ drifted'[u] = drifted[u] /\ deaf'[u] = deaf[u]
  PROVE  Inv'
<1>1. ASSUME NEW u \in Tabs, u # t
      PROVE  TabOK(u)'
  BY <1>1, TabStays DEF Inv
<1>2. Numbered'
  BY DEF Inv, Numbered, HasDraft
<1> QED BY <1>1, <1>2 DEF Inv

\* Nothing that the invariant of the tabs reads changes.
LEMMA AllStay ==
  ASSUME Inv, TypeOK', TimersOK', UNCHANGED <<draft, author, tab, wire, drifted, deaf>>
  PROVE  Inv'
<1>1. ASSUME NEW u \in Tabs
      PROVE  TabOK(u)'
  BY <1>1, TabStays DEF Inv
<1>2. Numbered'
  BY DEF Inv, Numbered, HasDraft
<1> QED BY <1>1, <1>2 DEF Inv

LEMMA TypeKept ==
  ASSUME TypeOK, UNCHANGED draftVars, author' = author, version' \in 1..MaxVersions,
         late' \in Requests \cup {Null},
         tab' \in [Tabs -> Hooks \cup {Null}], wire' \in [Tabs -> Requests \cup {Null}],
         drifted' \in [Tabs -> BOOLEAN], deaf' \in [Tabs -> BOOLEAN]
  PROVE  TypeOK'
BY DEF TypeOK, DraftTypeOK, draftVars

\* push(), from a timer or a panel.
LEMMA PushStep ==
  ASSUME Inv, NEW t \in Tabs, Live(t), NEW p \in Patches, NEW base \in Documents,
         Push(t, p, base), UNCHANGED draftVars, UNCHANGED <<late, version, deaf, author>>, TimersOK'
  PROVE  Inv'
<1>1. TypeOK /\ TabOK(t) /\ ~ Halted(t) /\ tab[t] \in Hooks /\ tab[t].doc \in Documents
  BY TabIs DEF Inv, Push
<1>2. /\ HasDraft
      /\ wire[t] # Null => wire[t].rev = tab[t].rev
      /\ tab[t].status \notin {"conflict", "blocked"}
  BY <1>1 DEF TabOK, Halted
<1>3. UNCHANGED <<draft, author>> /\ late' \in Requests \cup {Null} /\ version' \in 1..MaxVersions
      /\ deaf' \in [Tabs -> BOOLEAN]
  BY <1>1 DEF draftVars, TypeOK
<1>4. CASE Accepts(p)
  <2> DEFINE hook == [tab[t] EXCEPT !.doc = ApplyPatch(base, p)]
             e == Patching(p)
  <2>1. Enqueue(t, hook, e) /\ drifted' = [drifted EXCEPT ![t] = drifted[t] \/ base # tab[t].doc]
    BY <1>4 DEF Push
  <2>2. ApplyPatch(base, p) \in Documents
    BY <1>4, PatchType DEF Accepts
  <2>3. /\ hook \in Hooks /\ hook.rev = tab[t].rev /\ hook.queue = tab[t].queue
        /\ hook.status = tab[t].status /\ hook.doc = ApplyPatch(base, p)
    BY <1>1, <2>2 DEF Hooks
  <2>4. e \in Entries /\ Showing(base, e) = ApplyPatch(base, p)
    BY DEF Entries, Patching, Showing
  <2> HIDE DEF hook, e
  <2>5. drifted' \in [Tabs -> BOOLEAN] /\ drifted'[t] = (drifted[t] \/ base # tab[t].doc)
        /\ \A u \in Tabs : u # t => drifted'[u] = drifted[u]
    BY <1>1, <2>1 DEF TypeOK
  <2>6. /\ tab' \in [Tabs -> Hooks \cup {Null}] /\ wire' \in [Tabs -> Requests \cup {Null}]
        /\ \A u \in Tabs : u # t => tab'[u] = tab[u] /\ wire'[u] = wire[u]
    BY <1>1, <1>2, <2>1, <2>3, <2>4, EnqueueLeaves
  <2>7. ~ drifted'[t] => ~ drifted[t] /\ hook.doc = Showing(tab[t].doc, e)
    BY <2>3, <2>4, <2>5
  <2>8. hook.doc \in Documents /\ deaf'[t] = deaf[t]
    BY <2>2, <2>3
  <2>9. TabOK(t)'
    BY <1>1, <1>3, <2>1, <2>3, <2>4, <2>7, <2>8, TabEnqueues
  <2>10. TypeOK'
    BY <1>1, <1>3, <2>5, <2>6, TypeKept
  <2> QED BY <1>3, <2>5, <2>6, <2>9, <2>10, OthersStay
<1>5. CASE ~ Accepts(p)
  <2> DEFINE hook == [tab[t] EXCEPT !.status = "rejected"]
  <2>1. tab' = [tab EXCEPT ![t] = hook] /\ UNCHANGED <<wire, drifted>>
    BY <1>5 DEF Push
  <2>2. /\ hook \in Hooks /\ hook.rev = tab[t].rev /\ hook.queue = tab[t].queue
        /\ hook.status = "rejected" /\ hook.doc = tab[t].doc
    BY <1>1 DEF Hooks, Statuses
  <2> HIDE DEF hook
  <2>3. tab' \in [Tabs -> Hooks \cup {Null}] /\ tab'[t] = hook /\ hook # Null
        /\ \A u \in Tabs : u # t => tab'[u] = tab[u]
    BY <1>1, <2>1, <2>2, NoneAssumption DEF TypeOK
  <2>4. /\ Known(t)' = Known(t) /\ (Settling(t)' <=> Settling(t)) /\ Unserved(t)' = Unserved(t)
        /\ (Answered(t)' <=> Answered(t)) /\ (Granted(t)' <=> Granted(t)) /\ ~ Halted(t)'
    BY <2>1, <2>2, <2>3 DEF Known, Settling, Unserved, Answered, Granted, Halted
  <2>5. Matches(t) /\ Abreast(t) /\ Faithful(t)
    BY <1>1 DEF TabOK
  <2>6. Matches(t)'
    BY <1>3, <2>1, <2>2, <2>3, <2>5 DEF Matches, Answered, Excused
  <2>7. Abreast(t)'
    BY <1>3, <2>1, <2>2, <2>3, <2>4, <2>5 DEF Abreast, Excused
  <2>8. Faithful(t)'
    BY <1>1, <1>3, <2>1, <2>2, <2>3, <2>4, <2>5 DEF Faithful
  <2>9. TabOK(t)'
    BY <1>2, <1>3, <2>1, <2>2, <2>3, <2>4, <2>6, <2>7, <2>8 DEF TabOK, Live, HasDraft
  <2>10. TypeOK'
    BY <1>1, <1>3, <2>1, <2>3, TypeKept DEF TypeOK
  <2> QED BY <1>3, <2>1, <2>3, <2>9, <2>10, OthersStay
<1> QED BY <1>4, <1>5

\* Timers cleared with their panel, or with the page.
LEMMA TimersCleared ==
  ASSUME TimersOK, NEW t \in Tabs, timer' = [timer EXCEPT ![t] = NoTimers]
  PROVE  TimersOK'
<1>1. timer' = [u \in Tabs |-> [z \in Slots |-> IF u = t THEN Null ELSE timer[u][z]]]
  BY DEF TimersOK, NoTimers
<1>2. \A u \in Tabs : \A z \in Slots : timer'[u][z] = IF u = t THEN Null ELSE timer[u][z]
  BY <1>1
<1>3. timer' = [u \in Tabs |-> [z \in Slots |-> timer'[u][z]]]
  BY <1>1
<1> QED BY <1>2, <1>3 DEF TimersOK

\* A panel's debounced text, the end of its wait, and a panel closed.
LEMMA TypeStep ==
  ASSUME Inv, NEW t \in Tabs, NEW s \in Slots, NEW x \in Texts, Type(t, s, x)
  PROVE  Inv'
<1>1. TypeOK /\ TimersOK
  BY DEF Inv
<1>2. tab[t].doc \in Documents
  BY <1>1, TabIs DEF Type, Acts
<1>3. TypeOK'
  BY <1>1 DEF Type, TypeOK, DraftTypeOK, draftVars, worldVars
<1>4. TimersOK'
  <2> DEFINE note == [text |-> x, base |-> tab[t].doc]
  <2>1. timer' = [timer EXCEPT ![t][s] = note]
    BY DEF Type
  <2>2. note.text = x /\ note.base = tab[t].doc
    OBVIOUS
  <2> HIDE DEF note
  <2>3. timer' = [u \in Tabs |-> [z \in Slots |-> IF u = t /\ z = s THEN note ELSE timer[u][z]]]
    BY <1>1, <2>1 DEF TimersOK
  <2>4. [op |-> "set_copy", slot |-> s, text |-> x] \in Patches
    BY DEF Type
  <2> QED BY <1>1, <1>2, <2>2, <2>3, <2>4 DEF TimersOK
<1> QED BY <1>3, <1>4, AllStay DEF Type, draftVars

LEMMA FireStep ==
  ASSUME Inv, NEW t \in Tabs, NEW s \in Slots, Fire(t, s)
  PROVE  Inv'
<1>1. TypeOK /\ TimersOK /\ Live(t) /\ timer[t][s] # Null
  BY DEF Inv, Fire
<1>2. TimersOK'
  <2>1. timer' = [u \in Tabs |-> [z \in Slots |-> IF u = t /\ z = s THEN Null ELSE timer[u][z]]]
    BY <1>1 DEF TimersOK, Fire
  <2> QED BY <1>1, <2>1 DEF TimersOK
<1>3. CASE Push(t, [op |-> "set_copy", slot |-> s, text |-> timer[t][s].text], timer[t][s].base)
  <2> DEFINE p == [op |-> "set_copy", slot |-> s, text |-> timer[t][s].text]
             base == timer[t][s].base
  <2>1. p \in Patches /\ base \in Documents
    BY <1>1 DEF TimersOK
  <2>2. Push(t, p, base) /\ UNCHANGED draftVars /\ UNCHANGED <<late, version, deaf, author>>
    BY <1>3 DEF Fire, worldVars
  <2> HIDE DEF p, base
  <2> QED BY <1>1, <1>2, <2>1, <2>2, PushStep
<1>4. CASE Halted(t) /\ UNCHANGED <<tab, wire, drifted>>
  <2>1. TypeOK'
    BY <1>1, <1>4 DEF Fire, TypeOK, DraftTypeOK, draftVars, worldVars
  <2> QED BY <1>2, <1>4, <2>1, AllStay DEF Fire, draftVars
<1> QED BY <1>3, <1>4 DEF Fire

LEMMA LeavePanelStep ==
  ASSUME Inv, NEW t \in Tabs, LeavePanel(t)
  PROVE  Inv'
<1>1. TypeOK /\ TimersOK
  BY DEF Inv
<1>2. TypeOK'
  BY <1>1 DEF LeavePanel, TypeOK, DraftTypeOK, draftVars, worldVars
<1>3. TimersOK'
  BY <1>1, TimersCleared DEF LeavePanel
<1> QED BY <1>2, <1>3, AllStay DEF LeavePanel, draftVars

LEMMA ClickStep ==
  ASSUME Inv, NEW t \in Tabs, NEW p \in Patches, Click(t, p)
  PROVE  Inv'
<1>1. Live(t) /\ Push(t, p, tab[t].doc) /\ UNCHANGED draftVars
      /\ UNCHANGED <<late, version, deaf, author, timer>>
  BY DEF Click, Acts, worldVars
<1>2. TimersOK'
  BY <1>1 DEF Inv, TimersOK
<1>3. tab[t].doc \in Documents
  BY <1>1, TabIs DEF Inv
<1> QED BY <1>1, <1>2, <1>3, PushStep

\* The buttons undo and redo.
LEMMA AskStepStep ==
  ASSUME Inv, NEW t \in Tabs, NEW kind \in {"undo", "redo"}, AskStep(t, kind)
  PROVE  Inv'
<1>1. TypeOK /\ TabOK(t) /\ Live(t) /\ ~ Halted(t) /\ TimersOK'
  BY DEF Inv, AskStep, Acts, TimersOK
<1>2. tab[t] \in Hooks /\ tab[t].doc \in Documents
  BY <1>1, TabIs
<1>3. /\ wire[t] # Null => wire[t].rev = tab[t].rev
      /\ tab[t].status \notin {"conflict", "blocked"}
  BY <1>1 DEF TabOK, Halted
<1> DEFINE e == Stepping(kind)
<1>4. e \in Entries /\ Showing(tab[t].doc, e) = tab[t].doc
  BY DEF Entries, Stepping, Showing
<1>5. Enqueue(t, tab[t], e) /\ UNCHANGED draftVars
      /\ UNCHANGED <<late, version, drifted, deaf, author>>
  BY DEF AskStep, worldVars
<1> HIDE DEF e
<1>6. /\ tab' \in [Tabs -> Hooks \cup {Null}] /\ wire' \in [Tabs -> Requests \cup {Null}]
      /\ \A u \in Tabs : u # t => tab'[u] = tab[u] /\ wire'[u] = wire[u]
  BY <1>1, <1>2, <1>3, <1>4, <1>5, EnqueueLeaves
<1>7. TabOK(t)'
  <2>1. UNCHANGED <<draft, author>> /\ deaf'[t] = deaf[t] /\ drifted'[t] = drifted[t]
    BY <1>5 DEF draftVars
  <2> QED BY <1>1, <1>2, <1>4, <1>5, <2>1, TabEnqueues
<1>8. TypeOK'
  BY <1>1, <1>5, <1>6, TypeKept DEF TypeOK
<1> QED BY <1>1, <1>5, <1>6, <1>7, <1>8, OthersStay DEF draftVars

\* Steps alone show nothing before they are answered.
LEMMA LeadsNoPatch ==
  ASSUME NEW q \in Queues, NEW doc \in Documents, Patched(q) = {}
  PROVE  Leads(q, doc, doc)
<1> DEFINE shown == [n \in 0..Len(q) |-> doc]
<1>1. Len(q) \in Nat /\ \A n \in 1..Len(q) : q[n].kind # "patch"
  BY DEF Patched, Queues
<1>2. shown \in [0..Len(q) -> Documents] /\ shown[0] = doc /\ shown[Len(q)] = doc
  BY <1>1
<1>3. \A n \in 1..Len(q) : shown[n] = Showing(shown[n - 1], q[n])
  BY <1>1 DEF Showing
<1> HIDE DEF shown
<1> QED BY <1>2, <1>3 DEF Leads, Shows

\* A tab with a request is live and not halted.
LEMMA Sending ==
  ASSUME Inv, NEW t \in Tabs, wire[t] # Null
  PROVE  /\ TypeOK /\ TabOK(t) /\ Live(t) /\ HasDraft /\ ~ Halted(t)
         /\ wire[t] \in Requests /\ wire[t].rev = tab[t].rev
         /\ Matches(t) /\ Abreast(t) /\ Faithful(t)
BY DEF Inv, TabOK, TypeOK

\* What pump() does at the end of an answer, or of none.
LEMMA PumpStep ==
  ASSUME Inv, NEW t \in Tabs, wire[t] # Null, NEW hook \in Hooks, NEW queue \in Queues,
         Pump(t, hook, queue), TabOK(t)',
         UNCHANGED draftVars, UNCHANGED <<timer, version, author>>, late' \in Requests \cup {Null},
         NEW x \in BOOLEAN, drifted' = [drifted EXCEPT ![t] = x],
         NEW y \in BOOLEAN, deaf' = [deaf EXCEPT ![t] = y]
  PROVE  Inv'
<1>1. TypeOK /\ TimersOK'
  BY DEF Inv, TimersOK
<1>2. /\ tab' \in [Tabs -> Hooks \cup {Null}] /\ wire' \in [Tabs -> Requests \cup {Null}]
      /\ \A u \in Tabs : u # t => tab'[u] = tab[u] /\ wire'[u] = wire[u]
  BY <1>1, PumpLeaves
<1>3. /\ drifted' \in [Tabs -> BOOLEAN] /\ deaf' \in [Tabs -> BOOLEAN]
      /\ \A u \in Tabs : u # t => drifted'[u] = drifted[u] /\ deaf'[u] = deaf[u]
  BY <1>1 DEF TypeOK
<1>4. TypeOK'
  BY <1>1, <1>2, <1>3, TypeKept DEF TypeOK
<1> QED BY <1>1, <1>2, <1>3, <1>4, OthersStay DEF draftVars

LEMMA ConfirmStep ==
  ASSUME Inv, NEW t \in Tabs, Confirm(t)
  PROVE  Inv'
<1> DEFINE a == wire[t].answer
           hook == [tab[t] EXCEPT !.rev = a.rev, !.canUndo = a.canUndo, !.canRedo = a.canRedo,
                                  !.status = "saved",
                                  !.doc = IF a.doc = Null THEN tab[t].doc ELSE a.doc]
           x == IF a.doc = Null THEN drifted[t] ELSE Patched(tab[t].queue) # {}
<1>1. /\ wire[t] # Null /\ a # Null /\ a.ok /\ Pump(t, hook, tab[t].queue)
      /\ drifted' = [drifted EXCEPT ![t] = x] /\ UNCHANGED draftVars
      /\ UNCHANGED <<timer, late, version, deaf, author>>
  BY DEF Confirm, worldVars
<1>2. /\ TypeOK /\ Live(t) /\ HasDraft /\ ~ Halted(t) /\ Abreast(t) /\ Faithful(t)
  BY <1>1, Sending
<1>3. /\ tab[t] \in Hooks /\ tab[t].doc \in Documents /\ tab[t].queue \in Queues
      /\ a \in Replies
  BY <1>1, <1>2, TabIs
<1>4. a.rev \in Nat /\ a.doc \in Documents \cup {Null} /\ a.canUndo \in BOOLEAN /\ a.canRedo \in BOOLEAN
  BY <1>1, <1>3, ReplyIs
<1>5. /\ hook \in Hooks /\ hook.rev = a.rev /\ hook.status = "saved"
      /\ hook.doc = IF a.doc = Null THEN tab[t].doc ELSE a.doc
  <2> DEFINE doc == IF a.doc = Null THEN tab[t].doc ELSE a.doc
  <2>1. doc \in Documents
    BY <1>3, <1>4
  <2> HIDE DEF doc
  <2> QED BY <1>3, <1>4, <2>1 DEF Hooks, Statuses, doc
<1>6. x \in BOOLEAN /\ drifted'[t] = x
  BY <1>1, <1>2 DEF TypeOK
<1>7. Granted(t) /\ Known(t) = a.rev /\ Unserved(t) = tab[t].queue
  BY <1>1 DEF Granted, Answered, Known, Unserved
<1>8. ASSUME a.rev = draft.rev, ~ x
      PROVE  Leads(tab[t].queue, draft.doc, hook.doc)
  <2>1. CASE a.doc = Null
    <3>1. ~ Settling(t) /\ ~ drifted[t]
      BY <1>1, <1>8, <2>1 DEF Settling
    <3> QED BY <1>2, <1>5, <1>7, <1>8, <2>1, <3>1 DEF Faithful
  <2>2. CASE a.doc # Null
    <3>1. a.doc = draft.doc /\ a.doc \in Documents /\ Patched(tab[t].queue) = {}
      BY <1>2, <1>4, <1>7, <1>8, <2>2 DEF Faithful
    <3> QED BY <1>3, <1>5, <2>2, <3>1, LeadsNoPatch
  <2> QED BY <2>1, <2>2
<1> HIDE DEF hook, x
<1>9. TabOK(t)'
  <2>1. /\ hook.rev <= draft.rev
        /\ hook.rev # draft.rev => Excused(t, hook.rev)
    BY <1>2, <1>5, <1>7 DEF Abreast
  <2>2. UNCHANGED <<draft, author>> /\ deaf'[t] = deaf[t]
    BY <1>1 DEF draftVars
  <2> QED BY <1>1, <1>2, <1>3, <1>5, <1>6, <1>8, <2>1, <2>2, TabPumps
<1>10. deaf' = [deaf EXCEPT ![t] = deaf[t]] /\ deaf[t] \in BOOLEAN /\ late' \in Requests \cup {Null}
  BY <1>1, <1>2 DEF TypeOK
<1> QED BY <1>1, <1>3, <1>5, <1>6, <1>9, <1>10, PumpStep

LEMMA HaltStep ==
  ASSUME Inv, NEW t \in Tabs, Halt(t)
  PROVE  Inv'
<1> DEFINE a == wire[t].answer
           status == IF a.reason = "stale_rev" THEN "conflict" ELSE "blocked"
           hook == [tab[t] EXCEPT !.status = status]
<1>1. /\ wire[t] # Null /\ a # Null /\ a.ok = FALSE /\ Pump(t, hook, <<>>)
      /\ UNCHANGED draftVars /\ UNCHANGED <<timer, late, version, drifted, deaf, author>>
  BY DEF Halt, worldVars
<1>2. TypeOK /\ Live(t) /\ HasDraft /\ Abreast(t) /\ Matches(t)
  BY <1>1, Sending
<1>3. tab[t] \in Hooks
  BY <1>2, TabIs
<1>4. hook \in Hooks /\ hook.rev = tab[t].rev /\ hook.status = status /\ <<>> \in Queues
  BY <1>3 DEF Hooks, Statuses, Queues
<1>5. ~ Granted(t) /\ Known(t) = tab[t].rev
  BY <1>1 DEF Granted, Known
<1>6. /\ hook.rev <= draft.rev
      /\ hook.rev # draft.rev => Excused(t, hook.rev)
      /\ hook.status = "conflict" => Excused(t, hook.rev)
  BY <1>1, <1>2, <1>4, <1>5 DEF Abreast, Matches, Answered
<1>7. hook.status \in {"conflict", "blocked"}
  BY <1>4
<1> HIDE DEF hook
<1>8. TabOK(t)'
  <2>1. UNCHANGED <<draft, author>> /\ deaf'[t] = deaf[t]
    BY <1>1 DEF draftVars
  <2> QED BY <1>1, <1>2, <1>4, <1>6, <1>7, <2>1, TabPumps
<1>9. /\ deaf' = [deaf EXCEPT ![t] = deaf[t]] /\ deaf[t] \in BOOLEAN
      /\ drifted' = [drifted EXCEPT ![t] = drifted[t]] /\ drifted[t] \in BOOLEAN
      /\ late' \in Requests \cup {Null}
  BY <1>1, <1>2 DEF TypeOK
<1> QED BY <1>1, <1>4, <1>8, <1>9, PumpStep

LEMMA DropStep ==
  ASSUME Inv, NEW t \in Tabs, Drop(t)
  PROVE  Inv'
<1> DEFINE a == wire[t].answer
           hook == [tab[t] EXCEPT !.status = "rejected"]
           x == drifted[t] \/ wire[t].entry.kind = "patch"
<1>1. /\ wire[t] # Null /\ a # Null /\ a.ok = FALSE /\ a.reason \notin {"stale_rev", "blocked"}
      /\ Pump(t, hook, tab[t].queue) /\ drifted' = [drifted EXCEPT ![t] = x]
      /\ UNCHANGED draftVars /\ UNCHANGED <<timer, late, version, deaf, author>>
  BY DEF Drop, worldVars
<1>2. TypeOK /\ Live(t) /\ HasDraft /\ ~ Halted(t) /\ Abreast(t) /\ Faithful(t)
  BY <1>1, Sending
<1>3. /\ tab[t] \in Hooks /\ tab[t].queue \in Queues /\ a \in Replies
  BY <1>1, <1>2, TabIs
<1>4. /\ hook \in Hooks /\ hook.rev = tab[t].rev /\ hook.status = "rejected"
      /\ hook.doc = tab[t].doc
  BY <1>3 DEF Hooks, Statuses
<1>5. /\ ~ Granted(t) /\ Known(t) = tab[t].rev /\ ~ Settling(t) /\ Unserved(t) = tab[t].queue
  <2>1. a.reason = "nothing_to_do"
    BY <1>1, <1>3, ReplyIs
  <2> QED BY <1>1, <2>1 DEF Granted, Known, Settling, Unserved
<1>6. x \in BOOLEAN /\ drifted'[t] = x /\ (~ x => ~ drifted[t])
  BY <1>1, <1>2 DEF TypeOK
<1>7. /\ hook.rev <= draft.rev
      /\ hook.rev # draft.rev => Excused(t, hook.rev)
      /\ hook.rev = draft.rev /\ ~ x => Leads(tab[t].queue, draft.doc, hook.doc)
  BY <1>2, <1>4, <1>5, <1>6 DEF Abreast, Faithful
<1> HIDE DEF hook, x
<1>8. TabOK(t)'
  <2>1. UNCHANGED <<draft, author>> /\ deaf'[t] = deaf[t] /\ hook.status # "conflict"
    BY <1>1, <1>4 DEF draftVars
  <2> QED BY <1>1, <1>2, <1>3, <1>4, <1>6, <1>7, <2>1, TabPumps
<1>9. /\ deaf' = [deaf EXCEPT ![t] = deaf[t]] /\ deaf[t] \in BOOLEAN
      /\ late' \in Requests \cup {Null}
  BY <1>1, <1>2 DEF TypeOK
<1> QED BY <1>1, <1>3, <1>4, <1>6, <1>8, <1>9, PumpStep

LEMMA FailStep ==
  ASSUME Inv, NEW t \in Tabs, Fail(t)
  PROVE  Inv'
<1> DEFINE hook == [tab[t] EXCEPT !.status = "rejected"]
<1>1. /\ wire[t] # Null /\ GiveUp(t) /\ Pump(t, hook, tab[t].queue)
      /\ drifted' = [drifted EXCEPT ![t] = TRUE] /\ deaf' = [deaf EXCEPT ![t] = TRUE]
      /\ UNCHANGED draftVars /\ UNCHANGED <<timer, version, author>>
  BY DEF Fail
<1>2. TypeOK /\ Live(t) /\ HasDraft /\ Abreast(t) /\ wire[t] \in Requests
  BY <1>1, Sending
<1>3. /\ tab[t] \in Hooks /\ tab[t].queue \in Queues /\ tab[t].rev \in Nat /\ Known(t) \in Nat
      /\ draft.rev \in Nat
  BY <1>2, TabIs DEF TypeOK, DraftTypeOK, HasDraft, DraftRow
<1>4. /\ hook \in Hooks /\ hook.rev = tab[t].rev /\ hook.status = "rejected"
  BY <1>3 DEF Hooks, Statuses
<1>5. hook.rev <= draft.rev /\ deaf'[t] /\ drifted'[t] /\ late' \in Requests \cup {Null}
  BY <1>1, <1>2, <1>3, <1>4 DEF Abreast, TypeOK, GiveUp
<1> HIDE DEF hook
<1>6. TabOK(t)'
  <2>1. UNCHANGED <<draft, author>> /\ hook.status # "conflict"
    BY <1>1, <1>4 DEF draftVars
  <2> QED BY <1>1, <1>2, <1>3, <1>4, <1>5, <2>1, TabPumps
<1> QED BY <1>1, <1>3, <1>4, <1>5, <1>6, PumpStep

----------------------------------------------------------------------------
\* The object serves a request that nothing refuses: it writes the next revision,
\* and its answer carries the document where the request was a step.
LEMMA Applied ==
  ASSUME TypeOK, HasDraft, NEW r \in Requests, Apply(r)
  PROVE  /\ DraftNext /\ draft' \in DraftRow /\ HasDraft' /\ draft.rev \in Nat
         /\ draft'.rev = draft.rev + 1
         /\ r.entry.kind = "patch" => /\ r.rev = draft.rev
                                      /\ draft'.doc = ApplyPatch(draft.doc, r.entry.patch)
<1>1. draft \in DraftRow /\ DraftTypeOK /\ draft.rev \in Nat /\ r.entry \in Entries
  BY DEF TypeOK, DraftTypeOK, HasDraft, DraftRow, Requests
<1>2. CASE r.entry.kind = "patch"
  <2>1. r.entry.patch \in Patches
    BY <1>1, <1>2, EntryIs
  <2>2. ApplyEdit(r.entry.patch) /\ r.rev = draft.rev
    BY <1>2 DEF Apply, Stale
  <2>3. draft' \in DraftRow /\ draft'.doc = ApplyPatch(draft.doc, r.entry.patch)
    BY <1>1, <2>1, <2>2, EditRow
  <2>4. draft'.rev = draft.rev + 1
    BY <1>1, <2>2 DEF ApplyEdit, DraftRow
  <2> QED BY <1>1, <2>1, <2>2, <2>3, <2>4, NullAssumption DEF DraftNext, HasDraft
<1>3. CASE r.entry.kind # "patch" /\ Undo
  <2>1. draft' \in DraftRow
    BY <1>1, <1>3, UndoRow
  <2>2. draft'.rev = draft.rev + 1
    BY <1>1, <1>3 DEF Undo, DraftRow
  <2> QED BY <1>1, <1>3, <2>1, <2>2, NullAssumption DEF DraftNext, HasDraft
<1>4. CASE r.entry.kind # "patch" /\ Redo
  <2>1. draft' \in DraftRow
    BY <1>1, <1>4, RedoRow
  <2>2. draft'.rev = draft.rev + 1
    BY <1>1, <1>4 DEF Redo, DraftRow
  <2> QED BY <1>1, <1>4, <2>1, <2>2, NullAssumption DEF DraftNext, HasDraft
<1> QED BY <1>2, <1>3, <1>4 DEF Apply

LEMMA AcceptedIs ==
  ASSUME draft' \in DraftRow, NEW r
  PROVE  /\ Accepted(r) \in Replies /\ Accepted(r).ok /\ Accepted(r).rev = draft'.rev
         /\ Accepted(r).doc = IF r.entry.kind = "patch" THEN Null ELSE draft'.doc
         /\ draft'.doc # Null
<1>1. draft'.doc \in Documents /\ draft'.rev \in Nat
  BY DEF DraftRow
<1>2. CanUndoNext \in BOOLEAN /\ CanRedoNext \in BOOLEAN
  BY DEF CanUndoNext, CanRedoNext
<1> QED BY <1>1, <1>2, NoneAssumption DEF Accepted, Replies

LEMMA RefusedIs ==
  ASSUME NEW reason \in {"stale_rev", "blocked", "nothing_to_do"}
  PROVE  /\ Refused(reason) \in Replies /\ ~ Refused(reason).ok
         /\ Refused(reason).reason = reason
BY DEF Refused, Replies

\* A refusal is never of a patch for having nothing to do, and a stale revision is
\* not the stored one.
LEMMA ReasonIs ==
  ASSUME HasDraft, NEW r, Reason(r) # "ok"
  PROVE  /\ Reason(r) \in {"stale_rev", "blocked", "nothing_to_do"}
         /\ Reason(r) = "nothing_to_do" => r.entry.kind # "patch"
         /\ Reason(r) = "stale_rev" => r.rev # draft.rev
BY DEF Reason, Stale

\* The types after the object wrote.
LEMMA TypeWritten ==
  ASSUME TypeOK, DraftNext, NEW x \in Tabs \cup {Null}, author' = Append(author, x),
         version' = version, drifted' \in [Tabs -> BOOLEAN], deaf' \in [Tabs -> BOOLEAN],
         late' \in Requests \cup {Null},
         tab' \in [Tabs -> Hooks \cup {Null}], wire' \in [Tabs -> Requests \cup {Null}]
  PROVE  TypeOK'
<1>1. DraftTypeOK'
  BY DraftTypeStep DEF TypeOK
<1>2. author' \in Seq(Tabs \cup {Null})
  BY DEF TypeOK
<1> QED BY <1>1, <1>2 DEF TypeOK

LEMMA NumberedWritten ==
  ASSUME TypeOK, Numbered, NEW x, author' = Append(author, x), HasDraft',
         HasDraft => draft'.rev = draft.rev + 1, ~ HasDraft => draft'.rev = 1
  PROVE  Numbered'
<1>1. author \in Seq(Tabs \cup {Null}) /\ Len(author') = Len(author) + 1
  BY DEF TypeOK
<1> QED BY <1>1 DEF Numbered

\* The answer of an edit or a step to the tab that asked.
LEMMA TabGranted ==
  ASSUME Inv, NEW t \in Tabs, wire[t] # Null, wire[t].answer = Null, Apply(wire[t]),
         wire' = [wire EXCEPT ![t].answer = Accepted(wire[t])],
         UNCHANGED <<tab, drifted, deaf>>
  PROVE  TabOK(t)'
<1>1. /\ TypeOK /\ TabOK(t) /\ Live(t) /\ HasDraft /\ ~ Halted(t)
      /\ wire[t] \in Requests /\ wire[t].rev = tab[t].rev /\ Abreast(t) /\ Faithful(t)
  BY Sending
<1>2. /\ draft' \in DraftRow /\ HasDraft' /\ draft.rev \in Nat /\ draft'.rev = draft.rev + 1
      /\ wire[t].entry.kind = "patch" => /\ wire[t].rev = draft.rev
                                         /\ draft'.doc = ApplyPatch(draft.doc, wire[t].entry.patch)
  BY <1>1, Applied
<1> DEFINE a == Accepted(wire[t])
<1>3. /\ a \in Replies /\ a.ok /\ a.rev = draft'.rev /\ draft'.doc # Null
      /\ a.doc = IF wire[t].entry.kind = "patch" THEN Null ELSE draft'.doc
  BY <1>2, AcceptedIs
<1>4. a # Null
  BY <1>3, NoneAssumption
<1>5. /\ wire'[t] = [wire[t] EXCEPT !.answer = a]
  BY <1>1 DEF TypeOK
<1> HIDE DEF a
<1>6. /\ wire'[t] \in Requests /\ wire'[t].entry = wire[t].entry /\ wire'[t].rev = wire[t].rev
      /\ wire'[t].answer = a
  BY <1>1, <1>3, <1>5 DEF Requests
<1>7. wire'[t] # Null
  BY <1>6, NoneAssumption
<1>8. Answered(t)' /\ Granted(t)' /\ Known(t)' = draft'.rev
  BY <1>3, <1>4, <1>6, <1>7 DEF Answered, Granted, Known
<1>9. Matches(t)'
  BY <1>3, <1>6 DEF Matches
<1>10. tab[t].status # "conflict" /\ tab[t].rev \in Nat /\ Known(t) = tab[t].rev
       /\ tab[t].queue \in Queues /\ wire[t].entry \in Entries
  BY <1>1, TabIs DEF Halted, Known, Granted, Answered
<1>11. Abreast(t)'
  BY <1>1, <1>2, <1>8, <1>10 DEF Abreast
<1>12. Faithful(t)'
  <2>1. Granted(t)' /\ wire'[t].answer.doc # Null => wire'[t].answer.doc = draft'.doc
    BY <1>3, <1>6
  <2>2. ASSUME ~ drifted[t], ~ Settling(t)'
        PROVE  Leads(Unserved(t)', draft'.doc, tab[t].doc)
    <3>1. wire[t].entry.kind = "patch"
      BY <1>3, <1>6, <1>8, <2>2 DEF Settling
    <3>2. ~ Settling(t) /\ Known(t) = draft.rev
      BY <1>2, <1>10, <1>1, <3>1 DEF Settling, Granted, Answered
    <3>3. Leads(<<wire[t].entry>> \o tab[t].queue, draft.doc, tab[t].doc)
      <4>1. Unserved(t) = <<wire[t].entry>> \o tab[t].queue
        BY DEF Unserved
      <4> QED BY <1>1, <2>2, <3>2, <4>1 DEF Faithful
    <3>4. Leads(tab[t].queue, Showing(draft.doc, wire[t].entry), tab[t].doc)
      BY <1>10, <3>3, LeadsOn
    <3>5. Unserved(t)' = tab[t].queue
      BY <1>4, <1>6 DEF Unserved
    <3> QED BY <1>2, <3>1, <3>4, <3>5 DEF Showing
  <2> QED BY <2>1, <2>2 DEF Faithful
<1>13. ~ Halted(t)' /\ Live(t)'
  BY <1>1 DEF Halted, Live
<1> QED BY <1>1, <1>2, <1>6, <1>9, <1>11, <1>12, <1>13 DEF TabOK

\* The refusal of one.
LEMMA TabRefused ==
  ASSUME Inv, NEW t \in Tabs, wire[t] # Null, wire[t].answer = Null, Reason(wire[t]) # "ok",
         wire' = [wire EXCEPT ![t].answer = Refused(Reason(wire[t]))],
         UNCHANGED <<tab, drifted, deaf, draft, author>>
  PROVE  TabOK(t)' /\ wire'[t] \in Requests
<1>1. /\ TypeOK /\ TabOK(t) /\ Live(t) /\ HasDraft /\ ~ Halted(t)
      /\ wire[t] \in Requests /\ wire[t].rev = tab[t].rev /\ Abreast(t) /\ Faithful(t)
  BY Sending
<1> DEFINE why == Reason(wire[t])
           a == Refused(why)
<1>2. /\ why \in {"stale_rev", "blocked", "nothing_to_do"}
      /\ why = "nothing_to_do" => wire[t].entry.kind # "patch"
      /\ why = "stale_rev" => wire[t].rev # draft.rev
  BY <1>1, ReasonIs
<1>3. a \in Replies /\ ~ a.ok /\ a.reason = why
  BY <1>2, RefusedIs
<1>4. a # Null
  BY <1>3, NoneAssumption
<1>5. /\ wire'[t] = [wire[t] EXCEPT !.answer = a]
  BY <1>1 DEF TypeOK
<1> HIDE DEF a, why
<1>6. /\ wire'[t] \in Requests /\ wire'[t].entry = wire[t].entry /\ wire'[t].rev = wire[t].rev
      /\ wire'[t].answer = a
  BY <1>1, <1>3, <1>5 DEF Requests
<1>7. /\ tab[t].status # "conflict" /\ tab[t].rev \in Nat /\ Known(t) = tab[t].rev
      /\ tab[t].queue \in Queues /\ wire[t].entry \in Entries
  BY <1>1, TabIs DEF Halted, Known, Granted, Answered
<1>8. ~ Granted(t)' /\ Known(t)' = tab[t].rev
  BY <1>3, <1>6 DEF Granted, Known
<1>9. Matches(t)'
  <2>1. why = "stale_rev" => Excused(t, tab[t].rev)
    BY <1>1, <1>2, <1>7 DEF Abreast
  <2> QED BY <1>2, <1>3, <1>6, <2>1 DEF Matches, Excused
<1>10. Abreast(t)'
  BY <1>1, <1>7, <1>8 DEF Abreast, Excused
<1>11. Faithful(t)'
  <2>1. ASSUME tab[t].rev = draft.rev, ~ drifted[t], ~ Settling(t)'
        PROVE  Leads(Unserved(t)', draft.doc, tab[t].doc)
    <3>1. why = "nothing_to_do"
      BY <1>3, <1>4, <1>6, <2>1, NoneAssumption DEF Settling, Answered
    <3>2. ~ Settling(t) /\ Unserved(t) = <<wire[t].entry>> \o tab[t].queue
      BY DEF Settling, Granted, Answered, Unserved
    <3>3. Leads(<<wire[t].entry>> \o tab[t].queue, draft.doc, tab[t].doc)
      BY <1>1, <1>7, <2>1, <3>2 DEF Faithful
    <3>4. Leads(tab[t].queue, Showing(draft.doc, wire[t].entry), tab[t].doc)
      BY <1>7, <3>3, LeadsOn
    <3>5. Unserved(t)' = tab[t].queue
      BY <1>4, <1>6 DEF Unserved
    <3> QED BY <1>2, <3>1, <3>4, <3>5 DEF Showing
  <2> QED BY <1>8, <2>1 DEF Faithful
<1>12. ~ Halted(t)' /\ Live(t)'
  BY <1>1 DEF Halted, Live
<1> QED BY <1>1, <1>6, <1>9, <1>10, <1>11, <1>12 DEF TabOK, HasDraft

\* The route serves a tab.
LEMMA ServeStep ==
  ASSUME Inv, NEW t \in Tabs, Serve(t)
  PROVE  Inv' /\ [DraftNext]_draftVars
<1>1. /\ TypeOK /\ Numbered /\ HasDraft /\ wire[t] \in Requests /\ TimersOK'
      /\ wire[t] # Null /\ wire[t].answer = Null
      /\ UNCHANGED <<tab, drifted, deaf, late, version>>
  BY Sending DEF Serve, Inv, TimersOK, worldVars
<1>2. CASE Reason(wire[t]) = "ok"
  <2> DEFINE a == Accepted(wire[t])
  <2>1. /\ Apply(wire[t]) /\ author' = Append(author, t)
        /\ wire' = [wire EXCEPT ![t].answer = a]
    BY <1>2 DEF Serve
  <2>2. /\ DraftNext /\ draft' \in DraftRow /\ HasDraft' /\ draft'.rev = draft.rev + 1
    BY <1>1, <2>1, Applied
  <2>3. TabOK(t)'
    BY <1>1, <2>1, TabGranted
  <2>4. a \in Replies
    BY <2>2, AcceptedIs
  <2> HIDE DEF a
  <2>5. /\ wire' \in [Tabs -> Requests \cup {Null}]
        /\ \A u \in Tabs : u # t => wire'[u] = wire[u]
    <3>1. [wire[t] EXCEPT !.answer = a] \in Requests
      BY <1>1, <2>4 DEF Requests
    <3>2. wire' = [wire EXCEPT ![t] = [wire[t] EXCEPT !.answer = a]]
      BY <2>1
    <3> QED BY <1>1, <3>1, <3>2 DEF TypeOK
  <2>6. TypeOK'
    BY <1>1, <2>1, <2>2, <2>5, TypeWritten DEF TypeOK
  <2>7. Numbered'
    BY <1>1, <2>1, <2>2, NumberedWritten
  <2>8. ASSUME NEW u \in Tabs, u # t
        PROVE  TabOK(u)'
    <3>1. TabOK(u) /\ (Live(u)' <=> Live(u)) /\ tab'[u] = tab[u] /\ wire'[u] = wire[u]
      BY <1>1, <2>5, <2>8 DEF Inv, Live
    <3>2. drifted'[u] = drifted[u] /\ deaf'[u] = deaf[u]
      BY <1>1
    <3> QED BY <1>1, <2>1, <2>2, <2>8, <3>1, <3>2, TabLeftBehind
  <2> QED BY <1>1, <2>2, <2>3, <2>6, <2>7, <2>8 DEF Inv
<1>3. CASE Reason(wire[t]) # "ok"
  <2>1. /\ wire' = [wire EXCEPT ![t].answer = Refused(Reason(wire[t]))]
        /\ UNCHANGED draftVars /\ UNCHANGED <<draft, author>>
    BY <1>3 DEF Serve, draftVars
  <2>2. TabOK(t)' /\ wire'[t] \in Requests
    BY <1>1, <1>3, <2>1, TabRefused
  <2>3. /\ wire' \in [Tabs -> Requests \cup {Null}]
        /\ \A u \in Tabs : u # t => wire'[u] = wire[u]
    BY <1>1, <2>1, <2>2 DEF TypeOK
  <2>4. TypeOK'
    BY <1>1, <2>1, <2>3, TypeKept DEF TypeOK
  <2> QED BY <1>1, <2>1, <2>2, <2>3, <2>4, OthersStay
<1> QED BY <1>2, <1>3

\* It serves a request whose tab gave it up.
LEMMA ServeLateStep ==
  ASSUME Inv, ServeLate
  PROVE  Inv' /\ [DraftNext]_draftVars
<1>1. /\ TypeOK /\ Numbered /\ TimersOK' /\ late \in Requests /\ late' = Null
      /\ UNCHANGED <<tab, wire, drifted, deaf, version>>
  BY DEF ServeLate, Inv, TimersOK, TypeOK, worldVars, tabVars
<1>2. CASE Reason(late) = "ok"
  <2>1. Apply(late) /\ author' = Append(author, Null)
    BY <1>2 DEF ServeLate
  <2>2. HasDraft
    BY <2>1 DEF Apply, ApplyEdit, Undo, Redo
  <2>3. /\ DraftNext /\ draft' \in DraftRow /\ HasDraft' /\ draft'.rev = draft.rev + 1
    BY <1>1, <2>1, <2>2, Applied
  <2>4. TypeOK'
    BY <1>1, <2>1, <2>3, TypeWritten DEF TypeOK
  <2>5. Numbered'
    BY <1>1, <2>1, <2>2, <2>3, NumberedWritten
  <2>6. ASSUME NEW u \in Tabs
        PROVE  TabOK(u)'
    <3>1. TabOK(u) /\ (Live(u)' <=> Live(u)) /\ tab'[u] = tab[u] /\ wire'[u] = wire[u] /\ Null # u
      BY <1>1, NoneAssumption DEF Inv, Live
    <3>2. drifted'[u] = drifted[u] /\ deaf'[u] = deaf[u]
      BY <1>1
    <3> QED BY <1>1, <2>1, <2>3, <3>1, <3>2, TabLeftBehind
  <2> QED BY <1>1, <2>3, <2>4, <2>5, <2>6 DEF Inv
<1>3. CASE Reason(late) # "ok"
  <2>1. UNCHANGED draftVars /\ UNCHANGED <<draft, author>>
    BY <1>3 DEF ServeLate, draftVars
  <2>2. TypeOK'
    BY <1>1, <2>1, TypeKept DEF TypeOK
  <2> QED BY <1>1, <2>1, <2>2, AllStay
<1> QED BY <1>2, <1>3

\* A page just loaded shows what is stored.
LEMMA TabLoads ==
  ASSUME NEW t \in Tabs, draft' \in DraftRow, NEW c \in BOOLEAN,
         tab'[t] = Fresh(draft', c), wire'[t] = Null
  PROVE  TabOK(t)' /\ tab'[t] \in Hooks
<1>1. draft'.doc \in Documents /\ draft'.rev \in Nat
  BY DEF DraftRow
<1> DEFINE hook == [doc |-> draft'.doc, rev |-> draft'.rev, canUndo |-> draft'.cursor > 0,
                    canRedo |-> c, status |-> "idle", queue |-> <<>>,
                    stale |-> draft'.base # version]
<1>2. <<>> \in Queues
  BY DEF Queues
<1>3. hook \in Hooks /\ tab'[t] = hook
  BY <1>1, <1>2 DEF Hooks, Statuses, Fresh
<1>4. /\ tab'[t].rev = draft'.rev /\ tab'[t].status = "idle" /\ tab'[t].queue = <<>>
      /\ tab'[t].doc = draft'.doc
  BY <1>3
<1> HIDE DEF hook
<1>5. tab'[t] # Null /\ draft' # Null
  BY <1>3, NoneAssumption, NullAssumption
<1>6. ~ Answered(t)' /\ ~ Granted(t)' /\ Known(t)' = draft'.rev /\ Unserved(t)' = <<>> /\ ~ Halted(t)'
  BY <1>4 DEF Answered, Granted, Known, Unserved, Halted
<1>7. Matches(t)' /\ Abreast(t)'
  BY <1>1, <1>4, <1>6 DEF Matches, Abreast
<1>8. Faithful(t)'
  BY <1>1, <1>4, <1>6, LeadsNowhere DEF Faithful
<1> QED BY <1>3, <1>5, <1>7, <1>8 DEF TabOK, HasDraft

LEMMA LoadStep ==
  ASSUME Inv, NEW t \in Tabs, Load(t)
  PROVE  Inv' /\ [DraftNext]_draftVars
<1>1. /\ TypeOK /\ Numbered /\ TimersOK
      /\ GiveUp(t) /\ wire' = [wire EXCEPT ![t] = Null] /\ timer' = [timer EXCEPT ![t] = NoTimers]
      /\ drifted' = [drifted EXCEPT ![t] = FALSE] /\ deaf' = [deaf EXCEPT ![t] = FALSE]
      /\ version' = version
  BY DEF Load, Inv
<1>2. TimersOK'
  BY <1>1, TimersCleared
<1>3. /\ late' \in Requests \cup {Null} /\ wire' \in [Tabs -> Requests \cup {Null}]
      /\ drifted' \in [Tabs -> BOOLEAN] /\ deaf' \in [Tabs -> BOOLEAN] /\ wire'[t] = Null
      /\ \A u \in Tabs : u # t => /\ wire'[u] = wire[u] /\ drifted'[u] = drifted[u]
                                  /\ deaf'[u] = deaf[u]
  BY <1>1 DEF TypeOK, GiveUp
<1>4. CASE HasDraft
  <2>1. /\ UNCHANGED draftVars /\ UNCHANGED <<draft, author>>
        /\ tab' = [tab EXCEPT ![t] = Fresh(draft, CanRedo)]
    BY <1>4 DEF Load, draftVars
  <2>2. tab'[t] = Fresh(draft', CanRedo) /\ \A u \in Tabs : u # t => tab'[u] = tab[u]
    BY <1>1, <2>1 DEF TypeOK
  <2>3. draft' \in DraftRow /\ CanRedo \in BOOLEAN
    BY <1>1, <1>4, <2>1 DEF TypeOK, DraftTypeOK, HasDraft, CanRedo
  <2>4. TabOK(t)' /\ tab'[t] \in Hooks
    BY <1>3, <2>2, <2>3, TabLoads
  <2>5. TypeOK'
    <3>1. tab' \in [Tabs -> Hooks \cup {Null}]
      BY <1>1, <2>1, <2>2, <2>4 DEF TypeOK
    <3> QED BY <1>1, <1>3, <2>1, <3>1, TypeKept DEF TypeOK
  <2> QED BY <1>2, <1>3, <2>1, <2>2, <2>4, <2>5, OthersStay
<1>5. CASE ~ HasDraft
  <2>1. /\ Initialise(Seed[version], version) /\ author' = Append(author, Null)
        /\ tab' = [tab EXCEPT ![t] = Fresh(draft', FALSE)]
    BY <1>5 DEF Load
  <2>2. version \in Versions /\ Seed[version] \in Documents
    BY <1>1, SeedAssumption DEF TypeOK
  <2>3. DraftNext
    BY <2>1, <2>2 DEF DraftNext
  <2>4. draft' \in DraftRow /\ draft'.rev = 1
    BY <2>1, <2>2 DEF Initialise, Replace, DraftRow
  <2>5. tab'[t] = Fresh(draft', FALSE) /\ \A u \in Tabs : u # t => tab'[u] = tab[u]
    BY <1>1, <2>1 DEF TypeOK
  <2>6. TabOK(t)' /\ tab'[t] \in Hooks
    BY <1>3, <2>4, <2>5, TabLoads
  <2>7. TypeOK'
    <3>1. tab' \in [Tabs -> Hooks \cup {Null}]
      BY <1>1, <2>1, <2>5, <2>6 DEF TypeOK
    <3> QED BY <1>1, <1>3, <2>1, <2>3, <3>1, TypeWritten DEF TypeOK
  <2>8. HasDraft'
    BY <2>4, NullAssumption DEF HasDraft
  <2>9. Numbered'
    BY <1>1, <1>5, <2>1, <2>4, <2>8, NumberedWritten
  <2>10. ASSUME NEW u \in Tabs, u # t
         PROVE  TabOK(u)'
    <3>1. TabOK(u) /\ tab'[u] = tab[u] /\ wire'[u] = wire[u] /\ ~ Live(u)
      BY <1>3, <1>5, <2>5, <2>10 DEF Inv, TabOK
    <3> QED BY <3>1 DEF TabOK, Live
  <2> QED BY <1>2, <2>3, <2>6, <2>7, <2>9, <2>10 DEF Inv
<1> QED BY <1>4, <1>5

\* The stale draft is thrown away.
LEMMA DiscardStep ==
  ASSUME Inv, NEW t \in Tabs, Discard(t)
  PROVE  Inv' /\ [DraftNext]_draftVars
<1>1. /\ TypeOK /\ Numbered /\ TimersOK' /\ Live(t)
      /\ Reseed(Seed[version], version) /\ author' = Append(author, Null)
      /\ UNCHANGED <<wire, late, version, drifted, deaf>>
  BY DEF Discard, Inv, TimersOK, worldVars
<1>2. version \in Versions /\ Seed[version] \in Documents
  BY <1>1, SeedAssumption DEF TypeOK
<1>3. DraftNext
  BY <1>1, <1>2 DEF DraftNext
<1>4. HasDraft /\ draft' \in DraftRow /\ draft'.rev = draft.rev + 1
  <2>1. draft \in DraftRow /\ draft.rev + 1 \in Nat
    BY <1>1 DEF Reseed, TypeOK, DraftTypeOK, HasDraft, DraftRow
  <2> QED BY <1>1, <1>2, <2>1 DEF Reseed, Replace, DraftRow
<1>5. HasDraft'
  BY <1>4, NullAssumption DEF HasDraft
<1>6. PICK s \in BOOLEAN : tab' = [tab EXCEPT ![t].stale = s]
  BY DEF Discard
<1>7. tab[t] \in Hooks
  BY <1>1, TabIs
<1> DEFINE hook == [tab[t] EXCEPT !.stale = s]
<1>8. hook \in Hooks /\ hook.rev = tab[t].rev /\ hook.status = tab[t].status
  BY <1>7 DEF Hooks
<1>9. tab' = [tab EXCEPT ![t] = hook]
  BY <1>6
<1> HIDE DEF hook
<1>10. /\ tab' \in [Tabs -> Hooks \cup {Null}] /\ tab'[t] # Null
       /\ \A u \in Tabs : (Live(u)' <=> Live(u))
                          /\ (Live(u) => tab'[u].rev = tab[u].rev /\ tab'[u].status = tab[u].status)
  BY <1>1, <1>8, <1>9, NoneAssumption DEF TypeOK, Live
<1>11. TypeOK'
  BY <1>1, <1>3, <1>10, TypeWritten DEF TypeOK
<1>12. Numbered'
  BY <1>1, <1>4, <1>5, NumberedWritten
<1>13. ASSUME NEW u \in Tabs
       PROVE  TabOK(u)'
  <2>1. TabOK(u) /\ wire'[u] = wire[u] /\ drifted'[u] = drifted[u] /\ deaf'[u] = deaf[u] /\ Null # u
    BY <1>1, NoneAssumption DEF Inv
  <2> QED BY <1>1, <1>4, <1>5, <1>10, <2>1, TabLeftBehind
<1> QED BY <1>1, <1>3, <1>11, <1>12, <1>13 DEF Inv

\* The generator and the subscription.
LEMMA WorldStep ==
  ASSUME Inv, Regenerate \/ Lapse
  PROVE  Inv' /\ UNCHANGED draftVars
<1>1. /\ UNCHANGED draftVars /\ UNCHANGED <<tab, wire, timer, late, drifted, deaf, author>>
      /\ TypeOK /\ TimersOK'
  BY DEF Regenerate, Lapse, tabVars, Inv, TimersOK
<1>2. version' \in 1..MaxVersions
  BY <1>1, SeedAssumption DEF Regenerate, Lapse, TypeOK
<1>3. TypeOK'
  BY <1>1, <1>2, TypeKept DEF TypeOK
<1> QED BY <1>1, <1>3, AllStay DEF draftVars

----------------------------------------------------------------------------
LEMMA InitInv == Init => Inv /\ DraftInit
<1> SUFFICES ASSUME Init PROVE Inv /\ DraftInit
  OBVIOUS
<1>1. TypeOK
  <2>1. DraftTypeOK
    BY DraftTypeInit DEF Init
  <2> QED BY <2>1, SeedAssumption DEF Init, TypeOK
<1>2. TimersOK
  BY DEF Init, TimersOK, NoTimers
<1>3. Numbered
  BY DEF Init, Numbered, DraftInit, HasDraft
<1>4. \A t \in Tabs : TabOK(t)
  BY DEF Init, TabOK, Live
<1> QED BY <1>1, <1>2, <1>3, <1>4 DEF Inv, Init

\* Every step of the editor keeps the invariant, and is one of the object or none
\* of its.
LEMMA NextInv == Inv /\ [Next]_vars => Inv' /\ [DraftNext]_draftVars
<1> SUFFICES ASSUME Inv, [Next]_vars PROVE Inv' /\ [DraftNext]_draftVars
  OBVIOUS
<1>1. ASSUME NEW t \in Tabs, TabStep(t)
      PROVE  Inv' /\ [DraftNext]_draftVars
  <2>1. CASE Load(t)
    BY <2>1, LoadStep
  <2>2. ASSUME NEW s \in Slots, NEW x \in Texts, Type(t, s, x)
        PROVE  Inv' /\ [DraftNext]_draftVars
    BY <2>2, TypeStep DEF Type
  <2>3. ASSUME NEW s \in Slots, Fire(t, s)
        PROVE  Inv' /\ [DraftNext]_draftVars
    BY <2>3, FireStep DEF Fire
  <2>4. CASE LeavePanel(t)
    BY <2>4, LeavePanelStep DEF LeavePanel
  <2>5. ASSUME NEW p \in Patches, Click(t, p)
        PROVE  Inv' /\ [DraftNext]_draftVars
    BY <2>5, ClickStep DEF Click
  <2>6. ASSUME NEW kind \in {"undo", "redo"}, AskStep(t, kind)
        PROVE  Inv' /\ [DraftNext]_draftVars
    BY <2>6, AskStepStep DEF AskStep
  <2>7. CASE Serve(t)
    BY <2>7, ServeStep
  <2>8. CASE Confirm(t)
    BY <2>8, ConfirmStep DEF Confirm
  <2>9. CASE Halt(t)
    BY <2>9, HaltStep DEF Halt
  <2>10. CASE Drop(t)
    BY <2>10, DropStep DEF Drop
  <2>11. CASE Fail(t)
    BY <2>11, FailStep DEF Fail
  <2>12. CASE Discard(t)
    BY <2>12, DiscardStep
  <2> QED BY <1>1, <2>1, <2>2, <2>3, <2>4, <2>5, <2>6, <2>7, <2>8, <2>9, <2>10, <2>11, <2>12
          DEF TabStep
<1>2. CASE ServeLate
  BY <1>2, ServeLateStep
<1>3. CASE Regenerate \/ Lapse
  BY <1>3, WorldStep
<1>4. CASE UNCHANGED vars
  <2>1. UNCHANGED <<draft, author, tab, wire, drifted, deaf>> /\ UNCHANGED draftVars
    BY <1>4 DEF vars, draftVars
  <2>2. TypeOK' /\ TimersOK'
    BY <1>4 DEF vars, Inv, TypeOK, DraftTypeOK, TimersOK
  <2> QED BY <2>1, <2>2, AllStay
<1> QED BY <1>1, <1>2, <1>3, <1>4 DEF Next

LEMMA InvHolds == Spec => []Inv
<1>1. Init => Inv
  BY InitInv
<1>2. Inv /\ [Next]_vars => Inv'
  BY NextInv
<1> QED BY <1>1, <1>2, PTL DEF Spec

\* Every tab, request and answer stays well formed.
THEOREM EditorTypes == Spec => []TypeOK
<1>1. Inv => TypeOK
  BY DEF Inv
<1> QED BY <1>1, InvHolds, PTL

\* However many tabs edit, and whatever is lost or arrives late, a tab that is told
\* of a conflict had another writer or an answer it never heard: its own queue is
\* never the cause (useDraftEditor.ts, pump()).
THEOREM ConflictHasACauseCorrect == Spec => []ConflictHasACause
<1>1. Inv => ConflictHasACause
  BY DEF Inv, TabOK, Abreast, Excused, ConflictHasACause
<1> QED BY <1>1, InvHolds, PTL

\* The screen of a tab that none of the known causes met is the stored document
\* with its unsent edits applied (useDraftEditor.ts, the optimistic copy).
THEOREM DriftHasACauseCorrect == Spec => []DriftHasACause
<1>1. Inv => DriftHasACause
  <2> SUFFICES ASSUME Inv, NEW t \in Tabs, Live(t), ~ Halted(t), ~ drifted[t], Current(t),
                      ~ AwaitsStep(t)
               PROVE  tab[t].doc = Replay(Unserved(t), draft.doc)
    BY DEF DriftHasACause
  <2>1. /\ TypeOK /\ TabOK(t) /\ Matches(t) /\ Faithful(t)
    BY DEF Inv, TabOK
  <2>2. /\ tab[t].queue \in Queues /\ Unserved(t) \in Queues
        /\ wire[t] # Null => wire[t].entry \in Entries
    BY <2>1, TabIs
  <2>3. Known(t) = draft.rev /\ (Answered(t) => wire[t].answer.ok)
    BY DEF Known, Granted, Answered, Current
  <2>4. wire[t] # Null => wire[t].entry.kind = "patch"
    BY DEF AwaitsStep
  <2>5. ~ Settling(t)
    BY <2>1, <2>3, <2>4 DEF Settling, Granted, Answered, Matches
  <2>6. Leads(Unserved(t), draft.doc, tab[t].doc)
    BY <2>1, <2>3, <2>5 DEF Faithful
  <2>7. \A n \in 1..Len(Unserved(t)) : Unserved(t)[n].kind = "patch"
    <3>1. \A n \in 1..Len(tab[t].queue) : tab[t].queue[n].kind = "patch"
      BY <2>2 DEF AwaitsStep, Queues
    <3>2. CASE Unserved(t) = tab[t].queue
      BY <3>1, <3>2
    <3>3. CASE wire[t] # Null /\ Unserved(t) = <<wire[t].entry>> \o tab[t].queue
      <4> DEFINE q == <<wire[t].entry>> \o tab[t].queue
      <4>1. /\ Len(q) = Len(tab[t].queue) + 1 /\ Len(tab[t].queue) \in Nat
            /\ q[1] = wire[t].entry
            /\ \A n \in 2..Len(q) : n - 1 \in 1..Len(tab[t].queue) /\ q[n] = tab[t].queue[n - 1]
        BY <2>2 DEF Queues
      <4> HIDE DEF q
      <4>2. \A n \in 1..Len(q) : q[n].kind = "patch"
        <5> TAKE n \in 1..Len(q)
        <5>1. CASE n = 1
          BY <5>1, <4>1, <3>3, <2>4
        <5>2. CASE n # 1
          BY <5>2, <4>1, <3>1
        <5> QED BY <5>1, <5>2
      <4> QED BY <3>3, <4>2 DEF q
    <3> QED BY <3>2, <3>3 DEF Unserved
  <2> QED BY <2>2, <2>6, <2>7, LeadsIsReplay
<1> QED BY <1>1, InvHolds, PTL

\* The editor uses the object as SiteDraft describes it.
THEOREM EditsTheDraft == Spec => DraftSpec
<1>1. Init => DraftInit
  BY DEF Init
<1>2. Inv /\ [Next]_vars => [DraftNext]_draftVars
  BY NextInv
<1> QED BY <1>1, <1>2, InvHolds, PTL DEF Spec, DraftSpec

\* With any number of tabs over it, lost and late requests, lapses and reseeds, the
\* object is an undo history, as long as no patch of the editor forgets a focal
\* point.
THEOREM EditorIsUndoHistory == KeepsFocus => (Spec => IsUndoHistory)
<1> SUFFICES ASSUME KeepsFocus PROVE Spec => IsUndoHistory
  OBVIOUS
<1>1. DraftSpec => IsUndoHistory
  BY ImplementsHistory
<1> QED BY <1>1, EditsTheDraft
=============================================================================
