---------------------------- MODULE CommitService ----------------------------
(***************************************************************************)
(* What the operation endpoint of the server promises a client that loses  *)
(* responses and therefore repeats its requests: an operation identity is  *)
(* given one revision, revisions are handed out without gaps, and every    *)
(* answer about an identity names the revision it was given.               *)
(* OperationLog, which follows WorkbookOperationService, implements this.  *)
(***************************************************************************)
EXTENDS Integers

CONSTANT Identities     \* the operation identities that can be committed

VARIABLES
  length,               \* the number of revisions handed out
  assigned,             \* the pairs <<identity, revision>> committed so far
  answers               \* the pairs some client has been told

vars == <<length, assigned, answers>>

Init ==
  /\ length = 0
  /\ assigned = {}
  /\ answers = {}

Committed(id) == \E pair \in assigned : pair[1] = id

\* The next revision goes to an identity that has none.  The answer may be
\* lost on its way back.
Accept(id) ==
  /\ ~Committed(id)
  /\ length' = length + 1
  /\ assigned' = assigned \cup {<<id, length + 1>>}
  /\ \/ answers' = answers \cup {<<id, length + 1>>}
     \/ UNCHANGED answers

\* An identity that was committed is only ever answered with its revision.
Repeat(id) ==
  /\ \E pair \in assigned : pair[1] = id /\ answers' = answers \cup {pair}
  /\ UNCHANGED <<length, assigned>>

Next == \E id \in Identities : Accept(id) \/ Repeat(id)

Spec == Init /\ [][Next]_vars
=============================================================================
