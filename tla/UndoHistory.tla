---------------------------- MODULE UndoHistory -----------------------------
(***************************************************************************)
(* What an undo history promises (the undo model in the header of          *)
(* SiteDraftDO.ts, and the buttons of the editor): undo shows the document *)
(* of before the last edit, redo the one of after it, a new edit forgets   *)
(* what was undone, and at most Size edits can be taken back.  It knows    *)
(* nothing of patches, inverses, sequence numbers or cursors.              *)
(***************************************************************************)
EXTENDS Integers, Sequences

CONSTANTS Documents, Size

VARIABLES
  past,   \* the documents undo goes back to, oldest first
  shown,  \* the document, or what stands for none
  future  \* the documents redo goes forward to, nearest first

historyVars == <<past, shown, future>>

HistoryInit == past = <<>> /\ future = <<>>

\* The document is seeded, or thrown away for another one.
Start(d) ==
  /\ shown' = d
  /\ past' = <<>> /\ future' = <<>>

Edit(d) ==
  LET longer == Append(past, shown) IN
  /\ past' = IF Len(longer) > Size THEN Tail(longer) ELSE longer
  /\ shown' = d
  /\ future' = <<>>

Back ==
  /\ past # <<>>
  /\ shown' = past[Len(past)]
  /\ past' = SubSeq(past, 1, Len(past) - 1)
  /\ future' = <<shown>> \o future

Forward ==
  /\ future # <<>>
  /\ shown' = future[1]
  /\ past' = Append(past, shown)
  /\ future' = Tail(future)

HistoryNext ==
  \/ \E d \in Documents : Start(d) \/ Edit(d)
  \/ Back
  \/ Forward

HistorySpec == HistoryInit /\ [][HistoryNext]_historyVars
=============================================================================
