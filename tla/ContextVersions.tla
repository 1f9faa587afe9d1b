---------------------------- MODULE ContextVersions ----------------------------
(***************************************************************************)
(* Which version of the mounted context/ directory a run sees, and which   *)
(* one its DecisionLog row names. The directory is a git repository that   *)
(* can be swapped while the backend runs: a deployment rewrites the files  *)
(* and then moves HEAD. A run reads HEAD, hashes the files, loads the      *)
(* rules, and renders prompts from disk whenever a node needs one.         *)
(***************************************************************************)
EXTENDS Integers, FiniteSets

CONSTANTS
  Runs,         \* concurrent runs, of whatever mode
  MaxVersion,   \* bound: deployments
  Sources       \* the identities that git, or its failure, leaves

ASSUME ContextAssumption ==
  /\ MaxVersion \in Nat
  /\ Sources \subseteq {"git", "content-hash"}

VARIABLES
  head,        \* the version HEAD names
  tree,        \* the version of each part of the working tree
  target,      \* the version being deployed, or head
  run,         \* the runs
  snapshots,   \* ContextSnapshot rows
  logs         \* DecisionLog rows: the run and the sha

vars == <<head, tree, target, run, snapshots, logs>>

(* What a run loads at its start, and what it renders later *)
Parts == {"rules", "prompts"}
Versions == 0..MaxVersion
Trees == [Parts -> Versions]

(* What a version identity stands for: a commit for the tree that was committed,
   a content hash for the files it was computed from. *)
Committed(v) == [p \in Parts |-> v]

Shas == [source : Sources, tree : Trees]

None == -1
NoTree == Committed(None)
NoSha == [source |-> "", tree |-> NoTree]

(* overlap: history, has a deployment been under way during the run? *)
NewRun == [pc |-> "idle", since |-> 0, sha |-> NoSha, manifest |-> NoTree,
           rules |-> None, prompts |-> {}, saw |-> FALSE, overlap |-> FALSE]

TypeOK ==
  /\ head \in Versions /\ target \in Versions /\ tree \in Trees
  /\ \A r \in Runs :
       /\ run[r].pc \in {"idle", "sha", "manifest", "rules", "nodes", "select", "commit", "done", "lost"}
       /\ run[r].since \in Versions
       /\ run[r].sha \in Shas \cup {NoSha} /\ run[r].manifest \in Trees \cup {NoTree}
       /\ run[r].rules \in Versions \cup {None} /\ run[r].prompts \subseteq Versions
       /\ run[r].saw \in BOOLEAN /\ run[r].overlap \in BOOLEAN
  /\ snapshots \subseteq [sha : Shas, manifest : Trees]
  /\ logs \subseteq [run : Runs, sha : Shas]

Init ==
  /\ head = 0 /\ target = 0 /\ tree = [p \in Parts |-> 0]
  /\ run = [r \in Runs |-> NewRun]
  /\ snapshots = {} /\ logs = {}

-----------------------------------------------------------------------------
(* git pull in the mounted directory: files first, the reference last. *)
Deploying == target # head
UnderWay(r) == run[r].pc \notin {"idle", "done", "lost"}

BeginDeploy ==
  /\ ~Deploying /\ head < MaxVersion
  /\ target' = head + 1
  /\ run' = [r \in Runs |-> IF UnderWay(r) THEN [run[r] EXCEPT !.overlap = TRUE] ELSE run[r]]
  /\ UNCHANGED <<head, tree, snapshots, logs>>

WritePart(p) ==
  /\ Deploying /\ tree[p] # target
  /\ tree' = [tree EXCEPT ![p] = target]
  /\ UNCHANGED <<head, target, run, snapshots, logs>>

MoveHead ==
  /\ Deploying /\ \A p \in Parts : tree[p] = target
  /\ head' = target
  /\ UNCHANGED <<tree, target, run, snapshots, logs>>

-----------------------------------------------------------------------------
Set(r, record) == run' = [run EXCEPT ![r] = record]

Begin(r) ==
  /\ run[r].pc = "idle"
  /\ Set(r, [run[r] EXCEPT !.pc = "sha", !.since = head, !.overlap = Deploying])
  /\ UNCHANGED <<head, tree, target, snapshots, logs>>

(* git rev-parse HEAD; the content hash when git fails or takes too long. *)
Identity(source) ==
  [source |-> source, tree |-> IF source = "git" THEN Committed(head) ELSE tree]

ReadSha(r) ==
  /\ run[r].pc = "sha"
  /\ \E source \in Sources :
       Set(r, [run[r] EXCEPT !.pc = "manifest", !.sha = Identity(source)])
  /\ UNCHANGED <<head, tree, target, snapshots, logs>>

(* The manifest hashes the files of the working tree, in a thread. *)
ReadManifest(r) ==
  /\ run[r].pc = "manifest"
  /\ Set(r, [run[r] EXCEPT !.pc = "rules", !.manifest = tree])
  /\ UNCHANGED <<head, tree, target, snapshots, logs>>

(* The prompts are only listed here: the bundle holds their paths. *)
LoadRules(r) ==
  /\ run[r].pc = "rules"
  /\ Set(r, [run[r] EXCEPT !.pc = "nodes", !.rules = tree["rules"]])
  /\ UNCHANGED <<head, tree, target, snapshots, logs>>

(* Mutant: the templates are compiled once and kept. *)
MutTemplate == 0

(* The environment of PromptLoader reloads a template that has changed. *)
Template == tree["prompts"]

Render(r) ==
  /\ run[r].pc = "nodes"
  /\ Set(r, [run[r] EXCEPT !.prompts = @ \cup {Template}])
  /\ UNCHANGED <<head, tree, target, snapshots, logs>>

FinishNodes(r) ==
  /\ run[r].pc = "nodes" /\ run[r].prompts # {}
  /\ Set(r, [run[r] EXCEPT !.pc = "select"])
  /\ UNCHANGED <<head, tree, target, snapshots, logs>>

Known(r) == \E s \in snapshots : s.sha = run[r].sha

SelectSnapshot(r) ==
  /\ run[r].pc = "select"
  /\ Set(r, [run[r] EXCEPT !.pc = "commit", !.saw = Known(r)])
  /\ UNCHANGED <<head, tree, target, snapshots, logs>>

(* Mutant: commit_sha is only an index. *)
MutClashes(r) == FALSE

(* commit_sha is unique: a snapshot that another run committed in between makes
   the commit fail, and the DecisionLog row is rolled back with it. *)
Clashes(r) == ~run[r].saw /\ \E s \in snapshots : s.sha = run[r].sha

Commit(r) ==
  /\ run[r].pc = "commit" /\ ~Clashes(r)
  /\ snapshots' = snapshots \cup
       (IF run[r].saw THEN {} ELSE {[sha |-> run[r].sha, manifest |-> run[r].manifest]})
  /\ logs' = logs \cup {[run |-> r, sha |-> run[r].sha]}
  /\ Set(r, [run[r] EXCEPT !.pc = "done"])
  /\ UNCHANGED <<head, tree, target>>

RollBack(r) ==
  /\ run[r].pc = "commit" /\ Clashes(r)
  /\ Set(r, [run[r] EXCEPT !.pc = "lost"])
  /\ UNCHANGED <<head, tree, target, snapshots, logs>>

Next ==
  \/ BeginDeploy \/ MoveHead \/ \E p \in Parts : WritePart(p)
  \/ \E r \in Runs :
       \/ Begin(r) \/ ReadSha(r) \/ ReadManifest(r) \/ LoadRules(r) \/ Render(r)
       \/ FinishNodes(r) \/ SelectSnapshot(r) \/ Commit(r) \/ RollBack(r)

Spec == Init /\ [][Next]_vars

-----------------------------------------------------------------------------
(* "every new SHA gets a ContextSnapshot manifest": the sha of a row is always
   found in the snapshots, and once, however runs and deployments interleave. *)
SnapshotPerSha ==
  \A log \in logs : Cardinality({s \in snapshots : s.sha = log.sha}) = 1

(* "swapped/redeployed without rebuilding the image": no restart is needed
   either, a run that begins after a deployment sees nothing that is older. *)
NothingStale ==
  \A r \in Runs :
    /\ run[r].rules # None => run[r].rules >= run[r].since
    /\ \A v \in run[r].prompts : v >= run[r].since
    /\ run[r].sha # NoSha => \A p \in Parts : run[r].sha.tree[p] >= run[r].since

(* "The git SHA ties each decision to the exact prompts/rules/personas it ran
   with (context_snapshots stores the full manifest)", as long as nothing was
   deployed during the run, whatever was deployed before and after it and
   however other runs overlap. *)
TiedToItsContext ==
  \A log \in logs : ~run[log.run].overlap =>
    /\ run[log.run].rules = log.sha.tree["rules"]
    /\ run[log.run].prompts = {log.sha.tree["prompts"]}
    /\ \A s \in snapshots : s.sha = log.sha => s.manifest = log.sha.tree
=============================================================================
