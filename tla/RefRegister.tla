---------------------------- MODULE RefRegister ----------------------------
(***************************************************************************)
(* What the refs of one repository promise to everyone who changes them.    *)
(*                                                                         *)
(* The refs are one atomic register.  A writer asks for a change of a set   *)
(* of refs, each with the value it believes the ref has.  The change is     *)
(* made in one step, for all of its refs or for none, and only when every   *)
(* belief is true at that step; "ok" is answered only to a change that was  *)
(* made, "refused" only to one that was not made and never will be.  A      *)
(* writer may lose its answer (its worker dies) before the change or after  *)
(* it.                                                                     *)
(***************************************************************************)

CONSTANTS Writers,   \* the clients whose requests may be in progress together
          Refs,      \* the full names of refs
          Commits,   \* the objects a ref may point at
          None       \* the object id of a ref that does not exist

VARIABLES refs,      \* what each ref points at
          asked,     \* the change each writer is asking for
          status     \* how far each writer's request is

vars == <<refs, asked, status>>

Sha == Commits \cup {None}

Changes == [touch : SUBSET Refs, old : [Refs -> Sha], new : [Refs -> Sha]]

NoChange == [touch |-> {},
             old   |-> [r \in Refs |-> None],
             new   |-> [r \in Refs |-> None]]

AppliedTo(f, q) == [r \in Refs |-> IF r \in q.touch THEN q.new[r] ELSE f[r]]

InProgress(w) == status[w] \in {"asked", "applied"}

Init ==
  /\ refs \in [Refs -> Sha]
  /\ asked = [w \in Writers |-> NoChange]
  /\ status = [w \in Writers |-> "idle"]

Ask(w) ==
  /\ ~InProgress(w)
  /\ asked'[w] \in Changes
  /\ asked' = [asked EXCEPT ![w] = asked'[w]]
  /\ status' = [status EXCEPT ![w] = "asked"]
  /\ UNCHANGED refs

Apply(w) ==
  /\ status[w] = "asked"
  /\ \A r \in asked[w].touch : refs[r] = asked[w].old[r]
  /\ refs' = AppliedTo(refs, asked[w])
  /\ status' = [status EXCEPT ![w] = "applied"]
  /\ UNCHANGED asked

\* A change that is already in place needs no step of the register.
Find(w) ==
  /\ ~InProgress(w)
  /\ asked'[w] \in Changes
  /\ \A r \in asked'[w].touch : refs[r] = asked'[w].new[r]
  /\ asked' = [asked EXCEPT ![w] = asked'[w]]
  /\ status' = [status EXCEPT ![w] = "applied"]
  /\ UNCHANGED refs

Finish(w, outcome) ==
  /\ status' = [status EXCEPT ![w] = outcome]
  /\ asked' = [asked EXCEPT ![w] = NoChange]
  /\ UNCHANGED refs

Acknowledge(w) == status[w] = "applied" /\ Finish(w, "ok")

Refuse(w) == status[w] # "applied" /\ Finish(w, "refused")

Lose(w) == InProgress(w) /\ Finish(w, "lost")

Next == \E w \in Writers :
  Ask(w) \/ Apply(w) \/ Find(w) \/ Acknowledge(w) \/ Refuse(w) \/ Lose(w)

Spec == Init /\ [][Next]_vars
=============================================================================
