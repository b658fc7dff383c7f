------------------------------- MODULE Patch --------------------------------
(***************************************************************************)
(* The editor's edit vocabulary (apps/app/app/do/patch.ts): applyPatch, a  *)
(* pure function of a document and a patch that returns the next document  *)
(* and the patch that undoes it.  The Durable Object and the browser run   *)
(* the same one.                                                           *)
(*                                                                         *)
(* Abstracted: the six operations that replace one value by another and    *)
(* invert to the old value (set_copy, set_theme, set_nav_style,            *)
(* set_footer_style, set_whatsapp_enabled, set_page_flag) are set_copy     *)
(* over Slots; a document is one page with one single-media section.  A    *)
(* gallery slot behaves as a media slot that is never cleared.  Indices    *)
(* are 1-based.                                                            *)
(***************************************************************************)
EXTENDS Integers, Sequences, FiniteSets

CONSTANTS
  Slots,    \* the addressable values of the document
  Texts,    \* the values they take
  Sections, \* the section ids of the page
  Refs,     \* doc.media: the images the manifest has
  Focals,   \* focal points of one use of an image
  Center,   \* the focal point an image gets that replaces none
  Null      \* media: null; no draft; nothing in flight

ASSUME PageAssumption == IsFiniteSet(Sections)
ASSUME FocalAssumption == Center \in Focals
ASSUME NoMediaAssumption == Null \notin Refs /\ Null \notin [ref: Refs, focal: Focals]

PageLength == Cardinality(Sections)
Positions == 1..PageLength

\* The page lists every section once.
Orders == {order \in [Positions -> Sections] :
             /\ \A i, j \in Positions : order[i] = order[j] => i = j
             /\ \A x \in Sections : \E i \in Positions : order[i] = x}

MediaRef == [ref: Refs, focal: Focals]
Documents == [copy: [Slots -> Texts], order: Orders, media: MediaRef \cup {Null}]

SetCopy == [op: {"set_copy"}, slot: Slots, text: Texts]
MoveSection == [op: {"move_section"}, section: Sections, to: Positions]
SetMedia == [op: {"set_section_media"}, ref: Refs \cup {Null}]

\* Every patch the schema admits and applyPatch accepts.
Vocabulary == SetCopy \cup MoveSection \cup SetMedia

\* applyPatch's refusals: an unknown slot, section or image, an index past the end.
Accepts(p) == p \in Vocabulary

----------------------------------------------------------------------------
\* findIndex
IndexOf(order, x) == CHOOSE i \in Positions : order[i] = x

\* Two splices: the section at from leaves, and is put back at to.
Moved(order, from, to) ==
  [i \in Positions |->
     IF i = to THEN order[from]
     ELSE IF from <= i /\ i < to THEN order[i + 1]
     ELSE IF to < i /\ i <= from THEN order[i - 1]
     ELSE order[i]]

\* The focal point belongs to the use of the image, and survives a swap.
Placed(media, ref) ==
  IF ref = Null THEN Null
  ELSE [ref |-> ref, focal |-> IF media = Null THEN Center ELSE media.focal]

ApplyPatch(doc, p) ==
  IF p.op = "set_copy" THEN [doc EXCEPT !.copy[p.slot] = p.text]
  ELSE IF p.op = "move_section" THEN
    [doc EXCEPT !.order = Moved(doc.order, IndexOf(doc.order, p.section), p.to)]
  ELSE [doc EXCEPT !.media = Placed(doc.media, p.ref)]

\* The patch that undoes p, always from the state before it.
InverseOf(doc, p) ==
  IF p.op = "set_copy" THEN [p EXCEPT !.text = doc.copy[p.slot]]
  ELSE IF p.op = "move_section" THEN [p EXCEPT !.to = IndexOf(doc.order, p.section)]
  ELSE
    [p EXCEPT !.ref = IF doc.media = Null THEN Null ELSE doc.media.ref]

\* Clearing an image forgets its focal point, which the inverse does not carry.
Forgets(doc, p) ==
  /\ p.op = "set_section_media" /\ p.ref = Null
  /\ doc.media # Null /\ doc.media.focal # Center
=============================================================================
