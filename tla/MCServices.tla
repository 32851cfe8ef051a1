----------------------------- MODULE MCServices -----------------------------
(***************************************************************************)
(* Small instances of the parts of the Worker that share no state with one    *)
(* another beyond what each models as its own: a behaviour is a behaviour of   *)
(* one of them, `which`, and the variables of the others rest.                 *)
(* What has theorems is extended, the rest instantiated.                      *)
(***************************************************************************)
EXTENDS Forks, UploadPack, Membership, Purge, Publication, Releases, RunPins, Serving, Sessions, IssueTracker,
        Checks, IssueScreen, RunRequests, TLC

CONSTANTS
    h1, h2, h3, main, dev, s1, f,      \* Forks, UploadPack: commits, branches, requests
    a1, a2                             \* two of a kind: requests, tabs, bots, releasers, isolates

VARIABLES
    which,
    plan, exec, chain, wire, log, acked, artifacts, verdict, ticks, mishaps,
    kind, first, rest

Off == "off"
(* Three commits, two of them children of the first; a pack holds two of the three.        *)
Fan == (h1 :> <<>>) @@ (h2 :> <<h1>>) @@ (h3 :> <<h1>>)

(* One person by two automations of the same subject, and a row of the first schema.  *)
TwoBindings == {<<"s", "b1">>, <<"s", "b2">>}
OneLegacyRow == 1 :> <<"s", "service_account">>
ASSUME MembershipAssumption

(* An owner of this Capsule, a member of its Workspace, an owner of another Capsule; a   *)
(* Capsule's installation, and a Workspace's after the secret was changed.               *)
Claim(m, n, cap, app, ws, r) == [member |-> m, nested |-> n, capsule |-> cap, appRole |-> app, workspace |-> ws, role |-> r]
ClaimsOfThree ==
    {Claim(FALSE, TRUE, "ours", "owner", "ours", "absent"), Claim(TRUE, TRUE, "absent", "absent", "ours", "member"),
     Claim(TRUE, TRUE, "other", "owner", "ours", "absent")}
TheConfig(capsule) == [capsule |-> capsule, workspace |-> TRUE, secret |-> 1]
TwoConfigs == {TheConfig(TRUE), TheConfig(FALSE)}
ASSUME SessionsAssumption

(* One tag, of which everything is asked.                                                 *)
ASSUME ReleasesAssumption

(* Three commits of which two have the same version.                                   *)
Versioned == <<1, 1, 2>>
ASSUME PublicationAssumption

(* Two buckets; what is in one is a page, and the empty page after it is another.         *)
TwoBuckets == <<"git", "logs">>
OneObjectEach == {<<"git", 1>>, <<"logs", 1>>}
ASSUME PurgeAssumption

(* Two isolates; a request without a context, and cron's with one. *)
ASSUME ServingAssumption

(* Two runs of one repository, whose calls overlap.                                          *)
EachItsOwn == [r1 |-> "k1", r2 |-> "k2"]
ASSUME PinsAssumption

TheStep(k, goesOn) == [kind |-> k, goesOn |-> goesOn]
ThreePlans ==
    {<<TheStep("checkout", FALSE), TheStep("run", FALSE)>>,
     <<TheStep("run", TRUE), TheStep("upload", FALSE), TheStep("empty", FALSE)>>,
     <<TheStep("download", TRUE), TheStep("run", FALSE), TheStep("unsupported", FALSE)>>}
N == INSTANCE Runner WITH
        Executions <- {1}, Plans <- ThreePlans, MaxOutput <- 2, Cap <- 4, TokenLife <- 1, MaxTicks <- 2, MaxMishaps <- 1
ASSUME N!PlansAssumption

G == INSTANCE MCAlgorithms

-----------------------------------------------------------------------------

runnerVars == <<plan, exec, chain, wire, log, acked, artifacts, verdict, ticks, mishaps>>
algorithmVars == <<kind, first, rest>>

\* What is extended rests in one of its initial states, what is instantiated is off.
ServicesInit ==
    /\ which \in {"forks", "membership", "issues", "releases", "sessions", "checks", "runner", "algorithms",
                 "publication", "purge", "serving", "screen", "fetch", "requests", "pins"}
    /\ Init /\ up[main] = (IF which = "forks" THEN h2 ELSE h1) /\ up[dev] = h1
    /\ (which # "purge" => stored = {}) /\ UInit
    /\ (which # "sessions" => /\ config = TheConfig(TRUE) /\ claims = Claim(FALSE, TRUE, "ours", "owner", "ours", "absent")
                              /\ jar = [state |-> NoState, session |-> NoSession])
    /\ SInit
    /\ (which # "checks" => branch = TRUE) /\ CInit
    /\ MInit /\ PInit /\ RInit /\ PinsInit /\ WInit /\ IInit /\ ScreenInit /\ FetchInit /\ QInit
    /\ IF which = "runner" THEN N!NInit
       ELSE /\ plan = Off /\ exec = Off /\ chain = Off /\ wire = Off /\ log = Off
            /\ acked = Off /\ artifacts = Off /\ verdict = Off /\ ticks = Off /\ mishaps = Off
    /\ IF which = "algorithms" THEN G!AInit ELSE kind = Off /\ first = Off /\ rest = Off

ServicesNext ==
    /\ UNCHANGED which
    /\ IF which = "forks" THEN Next ELSE UNCHANGED vars
    /\ IF which = "membership" THEN MNext ELSE UNCHANGED mvars
    /\ IF which = "issues" THEN INext ELSE UNCHANGED ivars
    /\ IF which = "releases" THEN RNext ELSE UNCHANGED rvars
    /\ IF which = "sessions" THEN SNext ELSE UNCHANGED svars
    /\ IF which = "checks" THEN CNext ELSE UNCHANGED cvars
    /\ IF which = "runner" THEN N!NNext ELSE UNCHANGED runnerVars
    /\ IF which = "algorithms" THEN G!Choose ELSE UNCHANGED algorithmVars
    /\ IF which = "publication" THEN PNext ELSE UNCHANGED pvars
    /\ IF which = "purge" THEN UNext ELSE UNCHANGED uvars
    /\ IF which = "serving" THEN WNext ELSE UNCHANGED wvars
    /\ IF which = "screen" THEN ScreenNext ELSE UNCHANGED screenVars
    /\ IF which = "fetch" THEN FetchNext ELSE UNCHANGED fetchVars
    /\ IF which = "requests" THEN QNext ELSE UNCHANGED qvars
    /\ IF which = "pins" THEN PinsNext ELSE UNCHANGED pinVars

servicesVars ==
    <<which, vars, mvars, ivars, rvars, svars, cvars, runnerVars, algorithmVars,
      pvars, uvars, wvars, screenVars, fetchVars, qvars, pinVars>>
ServicesSpec == ServicesInit /\ [][ServicesNext]_servicesVars

Alike == Permutations({a1, a2})

-----------------------------------------------------------------------------
(* The properties of the parts that are instantiated; the others are their modules' own.    *)

\* git/merge.ts, tree-diff.ts, text-diff.ts, blame.ts, pack-reader.ts, inflate-raw.ts, object.ts: what one side alone changed
\* is merged and the rest conflicts; a listed diff takes the old tree or text to the new one; a
\* line is blamed on a version that has it; the objects of a pack are the ones it was made from,
\* byte for byte.  code-browser.ts: a file's history is its changes, and a comparison is called what
\* it is.
HistoryHolds ==
    /\ G!PagesAreHonest
    /\ G!MergeKeepsBoth /\ G!DiffTransforms /\ G!BlameIsHonest
    /\ G!PackIsFaithful /\ G!StreamsAreExact /\ G!ObjectsReadBack

\* actions engine: an accepted workflow becomes rows that can all be started, and a push
\* starts exactly the workflows whose filters select its branch and one of its changes.
WorkflowsAreExact == G!AcceptedCanRun /\ G!TriggersAreExact

\* auth/acl.ts, worker.ts, mcp.ts, router.ts: a rule only ever denies, a private repository is not
\* shown, and every door comes to the same decision.
DecisionsHold == G!DecisionsHold /\ G!DoorsAgree

\* All that is computed is exact: histories and merges, rows and triggers, decisions, and (actions/runner/
\* internal-routes.ts) the log of a job, which keeps what was acknowledged, in order.
ComputedIsExact == HistoryHolds /\ WorkflowsAreExact /\ DecisionsHold /\ (which = "runner" => N!LogIsKept)

\* merge-resolution.ts:6 "applies user-supplied blob resolutions, builds the merged tree": a
\* file that one side alone added is in the resolved merge.
ResolutionKeepsAdditions == G!ResolutionKeepsAdditions
=============================================================================
