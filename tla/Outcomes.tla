------------------------------- MODULE Outcomes -------------------------------
(***************************************************************************)
(* Functions that may fail, as operators from a record with a field ok, the  *)
(* status, to the set of records they may leave.                             *)
(***************************************************************************)
Refused(e) == {[e EXCEPT !.ok = FALSE]}
Guarded(guard, e) == IF guard THEN {e} ELSE Refused(e)

\* "if (status == B_OK) status = F()"
Then(S, F(_)) == UNION {IF e.ok THEN F(e) ELSE {e} : e \in S}

\* Cleanup that runs whatever happened before and adds its own failure
Always(S, F(_)) == UNION {{[r EXCEPT !.ok = @ /\ e.ok] :
                             r \in F([e EXCEPT !.ok = TRUE])} : e \in S}

\* Cleanup of what failed only: the failure stands
Rescue(S, F(_)) == UNION {IF e.ok THEN {e}
                          ELSE {[r EXCEPT !.ok = FALSE] :
                                  r \in F([e EXCEPT !.ok = TRUE])} : e \in S}
=============================================================================
