------------------------------ MODULE MCGitRun ------------------------------
(* Two files and three versions of each, two of them bad so that an edit    *)
(* may keep the problem: every pair of commits and every work tree, under   *)
(* every mode.                                                              *)
EXTENDS GitRun

CONSTANTS a, b, good, bad, worse

MCFiles == {a, b}
MCVersions == {good, bad, worse}
MCBad == {bad, worse}

Options ==
    [git : {TRUE}, fullDiff : BOOLEAN, workTree : {"", ".", "absolute"}, includeUntracked : BOOLEAN,
     stubsDir : BOOLEAN, indexOnly : BOOLEAN, authorAllowed : BOOLEAN,
     muted : BOOLEAN, allowDisable : BOOLEAN, findsRenames : BOOLEAN]

(* Options that make no difference to one another are not combined.        *)
GitConfigs ==
    {c \in Options : /\ c.workTree = "" => ~c.includeUntracked
                     /\ c.fullDiff => ~c.muted
                     /\ ~c.muted => c.allowDisable
                     /\ ~c.authorAllowed => ~c.fullDiff /\ ~c.indexOnly /\ ~c.findsRenames /\ ~c.muted
                     /\ c.workTree # "" => c.stubsDir /\ ~c.fullDiff /\ ~c.muted}

PlainConfigs ==
    {[git |-> FALSE, fullDiff |-> FALSE, workTree |-> "", includeUntracked |-> FALSE,
      stubsDir |-> FALSE, indexOnly |-> i, authorAllowed |-> TRUE,
      muted |-> m, allowDisable |-> d, findsRenames |-> FALSE] : i, m, d \in BOOLEAN}

MCConfigs == GitConfigs \union PlainConfigs
=============================================================================
