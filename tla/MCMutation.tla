------------------------------ MODULE MCMutation ------------------------------
(* Documents and patches for model checking Mutation.  RunDocs and RunPatches: live
   and scheduled documents whose sort values share a bit.  LiveDocs: live documents
   only, with filter values in common.                                           *)
EXTENDS Mutation

RunDocs == {[f |-> {{1}}, s |-> {1}, at |-> {}], [f |-> {{2}}, s |-> {1}, at |-> {1}]}
RunPatches == {[f |-> {{2}}, s |-> {0}, at |-> {2}]}

LiveDocs == {[f |-> {{1}}, s |-> {}, at |-> {}], [f |-> {{1, 2}}, s |-> {}, at |-> {}]}
LivePatches == {}

\* A scheduled document and its postponement.
ScheduledDocs == {[f |-> {{1}}, s |-> {}, at |-> {t}] : t \in {1, 2}}
=============================================================================
