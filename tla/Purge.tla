-------------------------------- MODULE Purge --------------------------------
(***************************************************************************)
(* Emptying the buckets before an installation is destroyed                   *)
(* (scripts/purge-r2-before-destroy.ts).  For each bucket the script uploads a  *)
(* temporary Worker, the cleaner, under a name that depends on the bucket        *)
(* alone and with a token of this run, asks it for page after page to be          *)
(* deleted, and removes it.  Scripts may overlap, be killed, and be started        *)
(* again; any request may fail before or after it took effect, and an upload        *)
(* that was given up may still arrive; the installation's own Worker goes on         *)
(* writing.                                                                          *)
(***************************************************************************)
EXTENDS Naturals, FiniteSets, Sequences

CONSTANTS
    Scripts,              \* runs of the script
    Buckets,              \* in the order of outputBucketNames
    Objects,              \* bucket and name of what may be stored
    NoCleaner,
    MAX_READY_ATTEMPTS,
    PageSize,             \* objects that a page lists
    MaxFaults             \* bound: failures and deaths

VARIABLES
    stored,      \* objects in the buckets
    unwritten,   \* objects the installation has yet to write
    found,       \* script -> what it was started to delete
    cleaner,     \* bucket -> NoCleaner, or the run whose token it has and whether it has an address
    upload,      \* uploads that were given up and may still arrive
    script,      \* script -> its place, the bucket it is at, attempts at the page, objects counted, whether an error is held
    faults

\* Every object is in one of the buckets, and a page has room for one at least.
PurgeAssumption ==
    /\ IsFiniteSet(Objects) /\ \A o \in Objects : \E i \in 1..Len(Buckets) : o[1] = Buckets[i]
    /\ Len(Buckets) \in Nat \ {0} /\ PageSize \in Nat \ {0} /\ MAX_READY_ATTEMPTS \in Nat
    /\ MaxFaults \in Nat /\ NoCleaner \notin [by : Scripts, open : BOOLEAN]

uvars == <<stored, unwritten, found, cleaner, upload, script, faults>>

In(b) == {o \in stored : o[1] = b}
BucketOf(s) == Buckets[script[s].i]
NewScript == [at |-> "new", i |-> 1, tries |-> 0, deleted |-> 0, error |-> FALSE]

Places == {"new", "put", "open", "page", "remove", "failed", "succeeded"}
UTypeOK ==
    /\ stored \in SUBSET Objects /\ unwritten \in SUBSET Objects /\ found \in [Scripts -> SUBSET Objects]
    /\ cleaner \in [1..Len(Buckets) -> {NoCleaner} \cup [by : Scripts, open : BOOLEAN]]
    /\ upload \in SUBSET ((1..Len(Buckets)) \X Scripts)
    /\ script \in [Scripts -> [at : Places, i : 1..Len(Buckets), tries : 0..MAX_READY_ATTEMPTS, deleted : Nat, error : BOOLEAN]]
    /\ faults \in 0..MaxFaults

UInit ==
    /\ stored \in SUBSET Objects /\ unwritten = Objects \ stored /\ found = [s \in Scripts |-> {}]
    /\ cleaner = [i \in 1..Len(Buckets) |-> NoCleaner] /\ upload = {}
    /\ script = [s \in Scripts |-> NewScript] /\ faults = 0

At(s, where) == script[s].at = where
GoTo(s, where) == script' = [script EXCEPT ![s].at = where]
Hold(s) == script' = [script EXCEPT ![s].at = "remove", ![s].error = TRUE]
Fault == faults < MaxFaults /\ faults' = faults + 1

\* The installation stores an object.
Write(o) ==
    /\ o \in unwritten /\ unwritten' = unwritten \ {o} /\ stored' = stored \cup {o}
    /\ UNCHANGED <<found, cleaner, upload, script, faults>>

\* The environment and the outputs are read before anything is requested; what they lack ends the run.
Configure(s) ==
    /\ At(s, "new")
    /\ \/ GoTo(s, "put") /\ found' = [found EXCEPT ![s] = stored] /\ UNCHANGED faults
       \/ Fault /\ GoTo(s, "failed") /\ UNCHANGED found
    /\ UNCHANGED <<stored, unwritten, cleaner, upload>>

Uploaded(s) == [by |-> s, open |-> FALSE]
PutCleaner(s) ==
    LET i == script[s].i
    IN /\ At(s, "put")
       /\ \/ GoTo(s, "open") /\ cleaner' = [cleaner EXCEPT ![i] = Uploaded(s)] /\ UNCHANGED <<upload, faults>>
          \/ Fault /\ Hold(s) /\ upload' = upload \cup {<<i, s>>} /\ UNCHANGED cleaner
       /\ UNCHANGED <<stored, unwritten, found>>

\* The answer was lost or is late: the upload arrives, or does not.
ArriveLate(u) ==
    /\ u \in upload /\ upload' = upload \ {u}
    /\ \/ cleaner' = [cleaner EXCEPT ![u[1]] = Uploaded(u[2])]
       \/ UNCHANGED cleaner
    /\ UNCHANGED <<stored, unwritten, found, script, faults>>

\* The cleaner is given an address; a custom API must answer with it.
OpenCleaner(s) ==
    LET i == script[s].i
    IN /\ At(s, "open")
       /\ \/ /\ cleaner[i] # NoCleaner /\ cleaner' = [cleaner EXCEPT ![i].open = TRUE]
             /\ GoTo(s, "page") /\ UNCHANGED faults
          \/ cleaner[i] = NoCleaner /\ Hold(s) /\ UNCHANGED <<cleaner, faults>>
          \/ Fault /\ Hold(s) /\ UNCHANGED cleaner
       /\ UNCHANGED <<stored, unwritten, found, upload>>

\* r2CleanerWorkerSource: the token of the run that uploaded it, and no other.
Answers(s) == cleaner[script[s].i] = [by |-> s, open |-> TRUE]
Page(b) == {p \in SUBSET In(b) : Cardinality(p) = IF Cardinality(In(b)) < PageSize THEN Cardinality(In(b)) ELSE PageSize}

\* invokeCleanerPage: deleted and counted, and the last page is the one that had nothing.
CleanPage(s) ==
    /\ At(s, "page") /\ Answers(s)
    /\ \E p \in Page(BucketOf(s)) :
         /\ stored' = stored \ p
         /\ script' = [script EXCEPT ![s].at = IF p = {} THEN "remove" ELSE "page",
                                     ![s].tries = 0, ![s].deleted = @ + Cardinality(p)]
    /\ UNCHANGED <<unwritten, found, cleaner, upload, faults>>

\* Mutant: the error of a cleaner that never answered is not held.
RetriedThenLeft(s) ==
    IF script[s].tries + 1 < MAX_READY_ATTEMPTS THEN script' = [script EXCEPT ![s].tries = @ + 1]
    ELSE script' = [script EXCEPT ![s].at = "remove", ![s].tries = 0]
Retried(s) ==
    IF script[s].tries + 1 < MAX_READY_ATTEMPTS THEN script' = [script EXCEPT ![s].tries = @ + 1]
    ELSE script' = [script EXCEPT ![s].at = "remove", ![s].tries = 0, ![s].error = TRUE]

\* No answer, or one that is not ok, after which a page may be gone: tried again, then given up.
MissPage(s) ==
    /\ At(s, "page")
    /\ \/ ~Answers(s) /\ UNCHANGED <<stored, faults>>
       \/ Answers(s) /\ Fault /\ \E p \in Page(BucketOf(s)) \cup {{}} : stored' = stored \ p
    /\ Retried(s) /\ UNCHANGED <<unwritten, found, cleaner, upload>>

\* removeCleaner is always tried, and one that is not there is removed; then the error that is
\* held is thrown, or the next bucket's turn has come.
RemoveCleaner(s) ==
    LET i == script[s].i
    IN /\ At(s, "remove")
       /\ \/ /\ cleaner' = [cleaner EXCEPT ![i] = NoCleaner] /\ UNCHANGED faults
             /\ IF script[s].error THEN GoTo(s, "failed")
                ELSE IF i = Len(Buckets) THEN GoTo(s, "succeeded")
                ELSE script' = [script EXCEPT ![s].at = "put", ![s].i = i + 1]
          \/ Fault /\ GoTo(s, "failed") /\ cleaner' \in {cleaner, [cleaner EXCEPT ![i] = NoCleaner]}
       /\ UNCHANGED <<stored, unwritten, found, upload>>

\* The script is killed.
Kill(s) ==
    /\ script[s].at \notin {"new", "failed", "succeeded"} /\ Fault /\ GoTo(s, "failed")
    /\ UNCHANGED <<stored, unwritten, found, cleaner, upload>>

UNext ==
    \/ \E o \in Objects : Write(o)
    \/ \E u \in upload : ArriveLate(u)
    \/ \E s \in Scripts : Configure(s) \/ PutCleaner(s) \/ OpenCleaner(s) \/ CleanPage(s) \/ MissPage(s) \/ RemoveCleaner(s) \/ Kill(s)

USpec == UInit /\ [][UNext]_uvars
-----------------------------------------------------------------------------

\* purge-r2-before-destroy.ts, "status: succeeded", "cleanersRemoved": whatever was stored when a
\* run that succeeded began is gone, whichever runs overlapped it, and so is its cleaner.
SucceededIsClean ==
    \A s \in Scripts : At(s, "succeeded") =>
        /\ found[s] \cap stored = {}
        /\ \A i \in 1..Len(Buckets) : cleaner[i] # NoCleaner => cleaner[i].by # s

\* What the destruction that follows needs: the buckets are empty.
SucceededIsEmpty == \A s \in Scripts : At(s, "succeeded") => stored = {}
=============================================================================
