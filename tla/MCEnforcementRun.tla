--------------------------- MODULE MCEnforcementRun ---------------------------
(***************************************************************************)
(* EnforcementRun on small instances: one or two IDs with the error limit  *)
(* at two, and up to three requests, each sent once or up to twice.        *)
(* A prompt only matters where the count is verified, and where the        *)
(* program vouches for the IDs the other flags are never read.             *)
(***************************************************************************)
EXTENDS EnforcementRun

CountAndRun == {"count", "run"}

NoneOrTwo == {0, 2}
OneOrTwo == {1, 2}

AllArguments ==
    { a \in [count_ids : 1..2, verified : BOOLEAN, verify_count : BOOLEAN,
             prompt : BOOLEAN] :
        /\ a.verified => a.verify_count
        /\ a.prompt => a.verify_count /\ ~a.verified }

=============================================================================
