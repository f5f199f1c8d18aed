----------------------------- MODULE MCImports -----------------------------
(* Instances of Imports for TLC: one side of federation at a time, trust   *)
(* with all that may happen to it, or contents under trust that is only    *)
(* given.                                                                  *)
EXTENDS Imports, TLC

CONSTANTS c1, c2, e1, s1, s2, f1, f2

VARIABLE side

\* A device, a team by its default domain, a user in the team's domain, and
\* a decision that takes trust away.
SomeApprovals ==
    {<<"trusted_device", "none">>, <<"trusted_team", "none">>,
     <<"trusted_user", "team">>, <<"blocked", "none">>}

\* Every claim rests on the same evidence.
Shared == [c \in Claims |-> e1]

\* The contents are about one key of a peer that is registered as trusted.
Undisputed ==
    /\ key' = 1 /\ approval' = NoApproval
    /\ peer'.pin \in {NoKey, 1}
    /\ peer'.status \in {"absent", "trusted_device"}

\* Bundles that carry nothing.
Empty == [items |-> [c \in Claims |-> "withheld"], notices |-> {}]

\* The shares do not differ, so that s1 may as well be granted first.
Trusting ==
    /\ PeerNext
    /\ granted'[s2] # "none" => granted'[s1] # "none"
    /\ content' = [f \in Files |-> IF file'[f] = NoFile THEN NothingSent ELSE Empty]
    /\ UNCHANGED <<published, deleted, disclosed, native, copies, held, withdrawn>>

MCNext ==
    \/ side = "trust" /\ Trusting
    \/ side = "content" /\ Next /\ Undisputed

MCInit == Init /\ side \in {"trust", "content"}

MCSpec == MCInit /\ [][MCNext /\ UNCHANGED side]_<<vars, side>>

Interchangeable == Permutations(Files) \cup Permutations(Claims)
=============================================================================
