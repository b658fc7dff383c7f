----------------------------- MODULE MCAutosave -----------------------------
(***************************************************************************)
(* TLC instances of Autosave.  The run starts where the browser is new     *)
(* and, to get further than its bounds allow from there, where two tabs    *)
(* have worked: the first tab made the row (a photo), the second opened    *)
(* it, wrote edit 1 and had it saved; then the first wrote edit 2 and was  *)
(* closed, with that save on its way.                                      *)
(***************************************************************************)
EXTENDS Autosave, TLC

CONSTANTS t1, t2
A_Budgets == {(t1 :> 5) @@ (t2 :> 0), (t1 :> 4) @@ (t2 :> 1), (t1 :> 3) @@ (t2 :> 2)}

A_Form(edit, at) == [id |-> 1, content |-> {edit}, stamp |-> at]

A_Parted ==
  /\ rows = <<[session |-> 1, status |-> "open", content |-> {1}, updated |-> 3,
               writers |-> {t2}, form |-> {}, owed |-> {}]>>
  /\ cookie = 1 /\ local = A_Form(2, 4 + Skew)
  /\ tab = (t1 :> Fresh("closed", NoDraft)) @@ (t2 :> Fresh("editing", A_Form(1, 3)))
  /\ adrift = {[by |-> t1, body |-> A_Form(2, 4 + Skew), session |-> 1]}
  /\ now = 4 /\ edits = 2 /\ loose = {} /\ restored = {} /\ outrun = {}
  /\ moves \in {(t1 :> 2) @@ (t2 :> 1), (t1 :> 1) @@ (t2 :> 2)}

A_Spec == (Init \/ A_Parted) /\ [][Next]_vars
=============================================================================
