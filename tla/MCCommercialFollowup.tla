------------------------ MODULE MCCommercialFollowup ------------------------
(* Small instances of CommercialFollowup. *)
EXTENDS CommercialFollowup, TLC

None == [strong |-> {}, final |-> {}, risk |-> FALSE, refuses |-> FALSE]
ColdLead == None
WarmLead == [None EXCEPT !.strong = {"asked_price"}]
AtRisk == [None EXCEPT !.risk = TRUE]

MCSignals == {ColdLead, WarmLead, AtRisk}

WorkerSymmetry == Permutations(Workers)
=============================================================================
