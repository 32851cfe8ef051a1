----------------------------- MODULE MCRefsDoc -----------------------------
(***************************************************************************)
(* A small repository for RefsDoc: two branches, a tag, and the history     *)
(*                                                                         *)
(*        c1 --- c2                                                         *)
(*          \      \                                                        *)
(*           c3 --- c4                                                      *)
(***************************************************************************)
EXTENDS RefsDoc, TLC

CONSTANTS p1, p2, m1, t1, main, dev, v1, c1, c2, c3, c4

MCBranches == {main, dev}
MCTags == {v1}
MCCommits == {c1, c2, c3, c4}

MCFirstOf == [S \in SUBSET MCBranches |->
                IF S = {} THEN None ELSE IF dev \in S THEN dev ELSE main]

MCAnc == (c1 :> {c1}) @@ (c2 :> {c1, c2}) @@ (c3 :> {c1, c3})
           @@ (c4 :> {c1, c2, c3, c4})

ForceRule == [deny |-> FALSE, force |-> TRUE, keep |-> TRUE]
\* Forced pushes yes, deletions no.
MCRuleSpace == {ForceRule}
NoRules == {}

Cmd(r, old, new, pk) == [change |-> OneRef(r, old, new), pack |-> pk]

\* One push of two refs at once.
Both(old1, new1, old2, new2, pk) ==
  [change |-> [touch |-> {main, dev},
               old   |-> [NoChange.old EXCEPT ![main] = old1, ![dev] = old2],
               new   |-> [NoChange.new EXCEPT ![main] = new1, ![dev] = new2]],
   pack   |-> pk]

\* Creations, fast-forwards, rewrites, deletions, a push of two refs, and
\* packs that leave out what the client believes the server has.
MCPushRequests ==
  {Cmd(main, None, c1, {c1}), Cmd(main, c1, c2, {c2}), Cmd(main, c1, c3, {c3}),
   Cmd(main, c2, c3, {c3}), Cmd(main, c2, None, {}),
   Cmd(dev, None, c3, {c3}), Both(c1, c2, None, c3, {c2, c3}),
   Cmd(v1, None, c2, {c2})}

\* Fewer of them, for the runs in which other clients race with a push.
MCFewPushRequests ==
  {Cmd(main, None, c1, {c1}), Cmd(main, c1, c2, {c2}), Cmd(dev, None, c3, {c1, c3}),
   Cmd(main, c2, c3, {c3}), Cmd(v1, None, c2, {c2})}

=============================================================================
