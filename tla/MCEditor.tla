------------------------------ MODULE MCEditor ------------------------------
(* TLC instances of Editor: one page of three sections with a copy slot and *)
(* an image, typed and clicked patches, a ring of two entries.              *)
EXTENDS Editor, SequencesExt

CONSTANTS s1, hello, welcome, hero, about, menu, plate, oven

First == [copy |-> [s \in Slots |-> hello], order |-> <<hero, about, menu>>,
          media |-> [ref |-> plate, focal |-> "left"]]
Second == [First EXCEPT !.order = <<about, menu, hero>>, !.media = Null]

MCSeed == [v \in 1..MaxVersions |-> IF v = 1 THEN First ELSE Second]
MCVersions == 1..MaxVersions

MCPatches == {[op |-> "set_copy", slot |-> s, text |-> welcome] : s \in Slots} \cup
             {[op |-> "move_section", section |-> hero, to |-> 2]}

\* Moved is the two splices of patch.ts.
ASSUME \A order \in Orders : \A from, to \in Positions :
  Moved(order, from, to) = InsertAt(RemoveAt(order, from), to, order[from])
=============================================================================
