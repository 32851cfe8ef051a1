------------------------------ MODULE RunPins ------------------------------
(***************************************************************************)
(* The document that pins the commits of a repository's runs                 *)
(* (src/git/refs-store.ts): its coordinators read it, change the pin of      *)
(* their own run, and write it back on the condition that it is what they    *)
(* read.  ActionsRun takes a pin for one step; this is that step.            *)
(*                                                                         *)
(* The ETag of the store is a digest of the content, so the condition is     *)
(* that the content is the one that was read.  A call fails wherever the     *)
(* store does; a write whose answer is lost has been made.                   *)
(***************************************************************************)
EXTENDS Integers

CONSTANTS
    Runs, RunCommits,
    CommitOf,       \* the commit of each run: workflow_runs.sha
    NoPin,          \* what the document has of a run that is not in it
    MaxAttempts,    \* PIN_CAS_MAX_ATTEMPTS
    MaxCalls,       \* bound: calls begun
    MaxStoreFaults       \* bound: failures of the store

PinsAssumption ==
    /\ CommitOf \in [Runs -> RunCommits] /\ NoPin \notin RunCommits
    /\ MaxAttempts \in Nat \ {0} /\ MaxCalls \in Nat /\ MaxStoreFaults \in Nat

VARIABLES
    doc,        \* [there, pins]: the document
    op,         \* a call: [at, lost, seen, began]
    pinned,     \* observation: the runs whose pin was put and not taken back
    writes,     \* observation: how often the document was written
    calls, storeFaults

pinVars == <<doc, op, pinned, writes, calls, storeFaults>>

\* A run's ticks overlap: one may be pinning while another, that found the run completed, unpins.
Kinds == {"pin", "unpin"}
PinCallers == Runs \X Kinds
NoDoc == [there |-> FALSE, pins |-> [r \in Runs |-> NoPin]]
Docs == [there : BOOLEAN, pins : [Runs -> RunCommits \cup {NoPin}]]
NoCall == [at |-> "idle", lost |-> 0, seen |-> NoDoc, began |-> 0]

PinsTypeOK ==
    /\ doc \in Docs
    /\ op \in [PinCallers -> [at : {"idle", "read", "put"}, lost : 0..MaxAttempts, seen : Docs, began : Nat]]
    /\ pinned \in SUBSET Runs
    /\ writes \in Nat /\ calls \in Nat /\ storeFaults \in Nat

PinsInit ==
    /\ doc = NoDoc /\ op = [c \in PinCallers |-> NoCall]
    /\ pinned = {} /\ writes = 0 /\ calls = 0 /\ storeFaults = 0

-----------------------------------------------------------------------------
Wants(c) == IF c[2] = "pin" THEN CommitOf[c[1]] ELSE NoPin
Changed(c, d) == [there |-> TRUE, pins |-> [d.pins EXCEPT ![c[1]] = Wants(c)]]
Return(c) == op' = [op EXCEPT ![c] = NoCall]
\* What is known of a call that found its change made, or made it.
Done(c) == pinned' = IF c[2] = "pin" THEN pinned \cup {c[1]} ELSE pinned \ {c[1]}

\* pinRunCommit, unpinRun: called once at a time by each kind of tick.
Call(c) ==
    /\ op[c].at = "idle" /\ calls < MaxCalls /\ calls' = calls + 1
    /\ op' = [op EXCEPT ![c].at = "read", ![c].began = writes]
    /\ UNCHANGED <<doc, pinned, writes, storeFaults>>

\* The snapshot already has what the call is for.
Found(c) ==
    /\ op[c].at = "read" /\ doc.pins[c[1]] = Wants(c)
    /\ Return(c) /\ Done(c)
    /\ UNCHANGED <<doc, writes, calls, storeFaults>>

Read(c) ==
    /\ op[c].at = "read" /\ doc.pins[c[1]] # Wants(c)
    /\ op' = [op EXCEPT ![c].at = "put", ![c].seen = doc]
    /\ UNCHANGED <<doc, pinned, writes, calls, storeFaults>>

\* Mutant: the document is written whatever has become of it.
MatchesAny(c) == TRUE
\* onlyIf: etagMatches, and etagDoesNotMatch "*" where there was no document.
Matches(c) == doc = op[c].seen

WritePins(c) == doc' = Changed(c, op[c].seen) /\ writes' = writes + 1

Put(c) ==
    /\ op[c].at = "put" /\ Matches(c)
    /\ WritePins(c) /\ Return(c) /\ Done(c)
    /\ UNCHANGED <<calls, storeFaults>>

\* Another call was faster: read again, unless this was the last attempt; then a pin throws and
\* an unpin is content.
Again(o) == [o EXCEPT !.at = "read", !.lost = o.lost + 1, !.seen = NoDoc]
Lose(c) ==
    /\ op[c].at = "put" /\ ~Matches(c)
    /\ op' = [op EXCEPT ![c] = IF op[c].lost + 1 < MaxAttempts THEN Again(op[c]) ELSE NoCall]
    /\ UNCHANGED <<doc, pinned, writes, calls, storeFaults>>

\* The call throws: nothing was written, or the answer to the write was lost.  A pin that was not
\* acknowledged is not counted; one that was taken back is gone.
FailCall(c) ==
    /\ op[c].at # "idle" /\ storeFaults < MaxStoreFaults /\ storeFaults' = storeFaults + 1
    /\ Return(c)
    /\ \/ UNCHANGED <<doc, writes, pinned>>
       \/ /\ op[c].at = "put" /\ Matches(c) /\ WritePins(c)
          /\ pinned' = IF c[2] = "unpin" THEN pinned \ {c[1]} ELSE pinned
    /\ UNCHANGED calls

PinsNext == \E c \in PinCallers : Call(c) \/ Found(c) \/ Read(c) \/ Put(c) \/ Lose(c) \/ FailCall(c)
PinsSpec == PinsInit /\ [][PinsNext]_pinVars

-----------------------------------------------------------------------------
\* refs-store.ts: a run whose pin was put keeps it until it takes it back, whatever the other
\* runs of the repository write to the same document.
PinIsKept == \A r \in pinned : doc.pins[r] = CommitOf[r]

\* refs-store.ts:241 "Throws only when the CAS cannot converge (extreme contention)": each
\* attempt that is lost was lost to a write of another call.
LostToOthers == \A c \in PinCallers : op[c].at # "idle" => op[c].lost <= writes - op[c].began

\* A document that was written is there for good, and nothing pins a commit that is not its run's.
DocIsSound == (~doc.there => doc.pins = [r \in Runs |-> NoPin]) /\ \A r \in Runs : doc.pins[r] \in {NoPin, CommitOf[r]}

\* refs-store.ts, pinRunCommit and unpinRun: the pins are those that the runs' calls left.
PinsHold == PinIsKept /\ LostToOthers /\ DocIsSound
=============================================================================
