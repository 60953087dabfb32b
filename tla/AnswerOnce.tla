----------------------------- MODULE AnswerOnce -----------------------------
(***************************************************************************)
(* What the replay window of the USP agent promises a controller that      *)
(* repeats its requests: an identity that is being carried out is not      *)
(* carried out a second time, every answer belongs to the execution that   *)
(* is remembered, and nothing that is being carried out is forgotten.      *)
(* UspReplay implements this.                                              *)
(***************************************************************************)
EXTENDS Naturals

CONSTANTS Ids   \* request identities

VARIABLES
  memo,     \* "new", "open" (being carried out) or "kept", for each identity
  last,     \* the execution each identity had last
  count,    \* executions so far
  answers   \* the answers given: pairs of an identity and an execution

vars == <<memo, last, count, answers>>

Init ==
  /\ memo = [i \in Ids |-> "new"]
  /\ last = [i \in Ids |-> 0]
  /\ count = 0
  /\ answers = {}

\* Answers that are kept may be forgotten at any time.
Kept == {i \in Ids : memo[i] = "kept"}
Without(S) == [i \in Ids |-> IF i \in S THEN "new" ELSE memo[i]]

\* An identity that is not known is carried out.
Begin(i, S) ==
  /\ Without(S)[i] = "new"
  /\ memo' = [Without(S) EXCEPT ![i] = "open"]
  /\ count' = count + 1
  /\ last' = [last EXCEPT ![i] = count']
  /\ UNCHANGED answers

\* The end of an execution is answered, and remembered or not.
End(i, S) ==
  /\ memo[i] = "open"
  /\ memo' \in {[Without(S) EXCEPT ![i] = m] : m \in {"kept", "new"}}
  /\ answers' = answers \cup {<<i, last[i]>>}
  /\ UNCHANGED <<last, count>>

\* An execution whose answer cannot be encoded ends without one.
Fail(i) ==
  /\ memo[i] = "open"
  /\ memo' = [memo EXCEPT ![i] = "new"]
  /\ UNCHANGED <<last, count, answers>>

\* What is remembered is answered again.
Again(i, S) ==
  /\ Without(S)[i] = "kept"
  /\ memo' = Without(S)
  /\ answers' = answers \cup {<<i, last[i]>>}
  /\ UNCHANGED <<last, count>>

Forget(S) ==
  /\ memo' = Without(S)
  /\ UNCHANGED <<last, count, answers>>

Next ==
  \E S \in SUBSET Kept :
    \/ \E i \in Ids : Begin(i, S) \/ End(i, S) \/ Fail(i) \/ Again(i, S)
    \/ Forget(S)

Spec == Init /\ [][Next]_vars
=============================================================================
