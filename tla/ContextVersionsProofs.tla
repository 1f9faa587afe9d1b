------------------------ MODULE ContextVersionsProofs ------------------------
(***************************************************************************)
(* Theorems about ContextVersions for every number of runs and of          *)
(* deployments, and for every way they interleave.                         *)
(***************************************************************************)
EXTENDS ContextVersions, FiniteSetTheorems, TLAPS

Points == {"idle", "sha", "manifest", "rules", "nodes", "select", "commit", "done", "lost"}
HasSha == {"manifest", "rules", "nodes", "select", "commit", "done", "lost"}
HasManifest == {"rules", "nodes", "select", "commit", "done", "lost"}
HasRules == {"nodes", "select", "commit", "done", "lost"}
HasPrompts == {"select", "commit", "done", "lost"}

RunRecord ==
  [pc : Points, since : Versions, sha : Shas \cup {NoSha}, manifest : Trees \cup {NoTree},
   rules : Versions \cup {None}, prompts : SUBSET Versions,
   saw : BOOLEAN, overlap : BOOLEAN]

(* The files are of the version HEAD names or of the one being deployed. *)
TreeInv ==
  /\ head \in Versions /\ target \in Versions /\ head <= target
  /\ tree \in Trees /\ \A p \in Parts : tree[p] \in {head, target}

AllWritten == \A p \in Parts : tree[p] = target

(* What a run has loaded, and that none of it is older than the run. *)
Loaded(r) ==
  /\ run[r].since <= head
  /\ run[r].pc \in HasSha => run[r].sha \in Shas
  /\ run[r].pc \notin HasSha => run[r].sha = NoSha
  /\ run[r].pc \in HasManifest => run[r].manifest \in Trees
  /\ run[r].pc \notin HasRules => run[r].rules = None /\ run[r].prompts = {}
  /\ run[r].pc \in HasPrompts => run[r].prompts # {}
  /\ run[r].sha # NoSha => \A p \in Parts : run[r].sha.tree[p] >= run[r].since
  /\ run[r].rules # None => run[r].rules >= run[r].since
  /\ \A v \in run[r].prompts : v >= run[r].since

(* A run that no deployment has touched sees one version. *)
Undisturbed(r) ==
  ~run[r].overlap /\ run[r].pc # "idle" =>
    /\ UnderWay(r) => ~Deploying /\ run[r].since = head
    /\ run[r].pc \in HasSha => run[r].sha.tree = Committed(run[r].since)
    /\ run[r].pc \in HasRules => run[r].rules = run[r].since
    /\ run[r].prompts \subseteq {run[r].since}

(* An identity stands for a version that has been written, and for the version
   written last the manifest is right, whoever read it. *)
NotAhead(sha) ==
  /\ \A p \in Parts : sha.tree[p] <= target
  /\ sha.tree = Committed(target) => AllWritten

Latest(r) ==
  run[r].pc \in HasSha =>
    /\ NotAhead(run[r].sha)
    /\ run[r].pc \in HasManifest /\ run[r].sha.tree = Committed(target) =>
         run[r].manifest = Committed(target)

RunInv(r) ==
  /\ Loaded(r) /\ Undisturbed(r) /\ Latest(r)
  /\ run[r].pc = "commit" /\ run[r].saw => Known(r)

SnapshotInv ==
  /\ snapshots \subseteq [sha : Shas, manifest : Trees]
  /\ \A s, t \in snapshots : s.sha = t.sha => s = t
  /\ \A s \in snapshots :
       /\ NotAhead(s.sha)
       /\ s.sha.tree = Committed(target) => s.manifest = Committed(target)

LogInv ==
  \A log \in logs :
    /\ log.run \in Runs /\ run[log.run].pc = "done" /\ log.sha = run[log.run].sha
    /\ \E s \in snapshots : s.sha = log.sha
    /\ ~run[log.run].overlap => \A s \in snapshots : s.sha = log.sha => s.manifest = log.sha.tree

Inv ==
  /\ TreeInv /\ run \in [Runs -> RunRecord]
  /\ \A r \in Runs : RunInv(r)
  /\ SnapshotInv /\ LogInv
-----------------------------------------------------------------------------
LEMMA Facts ==
  /\ Versions \subseteq Int /\ Versions \subseteq Nat
  /\ \A v \in Versions : Committed(v) \in Trees
  /\ \A v : \A p \in Parts : Committed(v)[p] = v
  /\ "rules" \in Parts /\ "prompts" \in Parts
  /\ NoSha \notin Shas /\ None \notin Versions /\ None \in Int
  /\ \A v, w : Committed(v) = Committed(w) => v = w
<1>1. Versions \subseteq Int /\ Versions \subseteq Nat /\ None \notin Versions /\ None \in Int
  BY ContextAssumption DEF Versions, None
<1>2. "rules" \in Parts /\ "prompts" \in Parts
  BY DEF Parts
<1>3. \A v : \A p \in Parts : Committed(v)[p] = v
  BY DEF Committed
<1>4. \A v \in Versions : Committed(v) \in Trees
  BY DEF Committed, Trees
<1>5. NoSha \notin Shas
  <2>1. "" \notin {"git", "content-hash"}
    OBVIOUS
  <2> QED BY <2>1, ContextAssumption DEF NoSha, Shas
<1>6. \A v, w : Committed(v) = Committed(w) => v = w
  BY <1>2, <1>3
<1> QED BY <1>1, <1>2, <1>3, <1>4, <1>5, <1>6

(* Once all of it is written, the tree is the version being deployed. *)
LEMMA WrittenTree ==
  ASSUME TreeInv
  PROVE  /\ AllWritten => tree = Committed(target)
         /\ tree = Committed(target) => AllWritten
         /\ ~Deploying => AllWritten /\ head = target
         /\ \A p \in Parts : tree[p] \in Versions /\ tree[p] >= head /\ tree[p] <= target
<1>1. AllWritten => tree = Committed(target)
  BY DEF TreeInv, AllWritten, Committed, Trees
<1>2. tree = Committed(target) => AllWritten
  BY DEF AllWritten, Committed
<1>3. ~Deploying => AllWritten /\ head = target
  BY DEF Deploying, AllWritten, TreeInv
<1>4. \A p \in Parts : tree[p] \in Versions /\ tree[p] >= head /\ tree[p] <= target
  BY Facts DEF TreeInv
<1> QED BY <1>1, <1>2, <1>3, <1>4

(* A step of one run, which leaves the directory and the tables alone. *)
LEMMA RunStep ==
  ASSUME Inv, NEW r \in Runs, NEW x \in RunRecord, Set(r, x), run[r].pc # "done",
         UNCHANGED <<head, tree, target, snapshots, logs>>, RunInv(r)'
  PROVE  Inv'
<1>1. /\ run' \in [Runs -> RunRecord]
      /\ \A q \in Runs : q # r => run'[q] = run[q]
  BY DEF Inv, Set
<1>2. ASSUME NEW q \in Runs, q # r PROVE RunInv(q)'
  BY <1>1, <1>2 DEF Inv, RunInv, Loaded, Undisturbed, Latest, NotAhead, AllWritten, UnderWay,
                    Deploying, Known
<1>3. TreeInv' /\ SnapshotInv'
  BY DEF Inv, TreeInv, SnapshotInv, NotAhead, AllWritten
<1>4. LogInv'
  BY <1>1 DEF Inv, LogInv
<1> QED BY <1>1, <1>2, <1>3, <1>4 DEF Inv

LEMMA BeginKeepsInv == ASSUME Inv, NEW r \in Runs, Begin(r) PROVE Inv'
<1> DEFINE x == [run[r] EXCEPT !.pc = "sha", !.since = head, !.overlap = Deploying]
<1>1. /\ run[r] \in RunRecord /\ run[r].pc = "idle" /\ run[r].sha = NoSha
      /\ run[r].rules = None /\ run[r].prompts = {}
  BY DEF Inv, RunInv, Loaded, Begin, HasSha, HasRules
<1>2. /\ x \in RunRecord
      /\ x.pc = "sha" /\ x.since = head /\ x.overlap = Deploying
      /\ x.sha = NoSha /\ x.rules = None /\ x.prompts = {}
  BY <1>1 DEF Inv, TreeInv, RunRecord, Points, Deploying
<1>3. /\ Set(r, x) /\ UNCHANGED <<head, tree, target, snapshots, logs>>
  BY DEF Begin
<1> HIDE DEF x
<1>4. run'[r] = x
  BY <1>3 DEF Inv, Set
<1>5. RunInv(r)'
  <2>0. head \in Int
    BY Facts DEF Inv, TreeInv
  <2>1. Loaded(r)'
    BY <1>2, <1>3, <1>4, <2>0 DEF Loaded, HasSha, HasManifest, HasRules, HasPrompts
  <2>2. Undisturbed(r)'
    BY <1>2, <1>3, <1>4 DEF Undisturbed, HasSha, HasRules, Deploying
  <2>3. Latest(r)'
    BY <1>2, <1>4 DEF Latest, HasSha
  <2> QED BY <1>2, <1>4, <2>1, <2>2, <2>3 DEF RunInv
<1> QED BY <1>1, <1>2, <1>3, <1>5, RunStep

(* What git, or the content hash, can tell of the tree. *)
LEMMA IdentityFacts ==
  ASSUME TreeInv, NEW source \in Sources
  PROVE  LET sha == Identity(source) IN
         /\ sha \in Shas /\ NotAhead(sha)
         /\ \A p \in Parts : sha.tree[p] >= head
         /\ ~Deploying => sha.tree = Committed(head)
<1> DEFINE sha == Identity(source)
<1>1. sha.tree = IF source = "git" THEN Committed(head) ELSE tree
  BY DEF Identity
<1>2. head \in Versions /\ target \in Versions /\ head <= target /\ tree \in Trees
  BY DEF TreeInv
<1>3. sha \in Shas
  BY <1>2, Facts DEF Identity, Shas
<1> HIDE DEF sha
<1>4. CASE sha.tree = Committed(head)
  <2>1. Committed(head) = Committed(target) => AllWritten
    BY Facts, WrittenTree DEF Deploying
  <2> QED BY <1>2, <1>3, <1>4, <2>1, Facts DEF NotAhead, sha
<1>5. CASE sha.tree = tree
  BY <1>2, <1>3, <1>5, WrittenTree, Facts DEF NotAhead, sha
<1> QED BY <1>1, <1>4, <1>5

LEMMA ReadShaKeepsInv == ASSUME Inv, NEW r \in Runs, ReadSha(r) PROVE Inv'
<1>1. PICK source \in Sources :
        Set(r, [run[r] EXCEPT !.pc = "manifest", !.sha = Identity(source)])
  BY DEF ReadSha
<1> DEFINE sha == Identity(source)
           x == [run[r] EXCEPT !.pc = "manifest", !.sha = sha]
<1>2. /\ sha \in Shas /\ NotAhead(sha) /\ \A p \in Parts : sha.tree[p] >= head
      /\ ~Deploying => sha.tree = Committed(head)
  BY IdentityFacts DEF Inv
<1>3. /\ Set(r, x) /\ UNCHANGED <<head, tree, target, snapshots, logs>>
  BY <1>1 DEF ReadSha
<1> HIDE DEF sha
<1>4. /\ run[r] \in RunRecord /\ run[r].pc = "sha" /\ run[r].since <= head
      /\ run[r].rules = None /\ run[r].prompts = {}
      /\ ~run[r].overlap => ~Deploying /\ run[r].since = head
  BY DEF Inv, RunInv, Loaded, Undisturbed, UnderWay, ReadSha, HasRules
<1>5. /\ x \in RunRecord /\ x.pc = "manifest" /\ x.sha = sha
      /\ x.since = run[r].since /\ x.overlap = run[r].overlap
      /\ x.rules = None /\ x.prompts = {}
  BY <1>2, <1>4 DEF RunRecord, Points
<1> HIDE DEF x
<1>6. run'[r] = x
  BY <1>3 DEF Inv, Set
<1>7. \A p \in Parts : sha.tree[p] >= run[r].since
  <2>1. \A p \in Parts : sha.tree[p] \in Versions
    BY <1>2 DEF Shas, Trees
  <2>2. run[r].since \in Versions /\ head \in Versions
    BY <1>4 DEF RunRecord, Inv, TreeInv
  <2>3. run[r].since \in Int /\ head \in Int /\ \A p \in Parts : sha.tree[p] \in Int
    BY <2>1, <2>2, Facts
  <2> QED BY <1>2, <1>4, <2>3
<1>8. RunInv(r)'
  <2>1. Loaded(r)'
    BY <1>2, <1>3, <1>4, <1>5, <1>6, <1>7
    DEF Loaded, HasSha, HasManifest, HasRules, HasPrompts
  <2>2. Undisturbed(r)'
    BY <1>2, <1>3, <1>4, <1>5, <1>6 DEF Undisturbed, HasRules, Deploying
  <2>3. Latest(r)'
    BY <1>2, <1>3, <1>5, <1>6 DEF Latest, NotAhead, AllWritten, HasManifest
  <2> QED BY <1>5, <1>6, <2>1, <2>2, <2>3 DEF RunInv
<1> QED BY <1>3, <1>4, <1>5, <1>8, RunStep

LEMMA ReadManifestKeepsInv == ASSUME Inv, NEW r \in Runs, ReadManifest(r) PROVE Inv'
<1> DEFINE x == [run[r] EXCEPT !.pc = "rules", !.manifest = tree]
<1>1. /\ run[r] \in RunRecord /\ run[r].pc = "manifest" /\ tree \in Trees /\ RunInv(r)
      /\ Set(r, x) /\ UNCHANGED <<head, tree, target, snapshots, logs>>
  BY DEF Inv, TreeInv, ReadManifest
<1>2. /\ x \in RunRecord /\ x.pc = "rules" /\ x.manifest = tree /\ x.sha = run[r].sha
      /\ x.since = run[r].since /\ x.overlap = run[r].overlap
      /\ x.rules = run[r].rules /\ x.prompts = run[r].prompts
  BY <1>1 DEF RunRecord, Points
<1> HIDE DEF x
<1>3. run'[r] = x
  BY <1>1 DEF Inv, Set
<1>4. RunInv(r)'
  <2>1. Loaded(r)'
    BY <1>1, <1>2, <1>3 DEF RunInv, Loaded, HasSha, HasManifest, HasRules, HasPrompts
  <2>2. Undisturbed(r)'
    BY <1>1, <1>2, <1>3 DEF RunInv, Undisturbed, UnderWay, HasSha, HasRules, Deploying
  <2>3. Latest(r)'
    <3>1. AllWritten => tree = Committed(target)
      BY WrittenTree DEF Inv
    <3>2. NotAhead(run[r].sha)
      BY <1>1 DEF RunInv, Latest, HasSha
    <3> QED BY <1>1, <1>2, <1>3, <3>1, <3>2 DEF Latest, NotAhead, AllWritten
  <2> QED BY <1>2, <1>3, <2>1, <2>2, <2>3 DEF RunInv
<1> QED BY <1>1, <1>2, <1>4, RunStep

LEMMA LoadRulesKeepsInv == ASSUME Inv, NEW r \in Runs, LoadRules(r) PROVE Inv'
<1> DEFINE x == [run[r] EXCEPT !.pc = "nodes", !.rules = tree["rules"]]
<1>1. /\ run[r] \in RunRecord /\ run[r].pc = "rules" /\ RunInv(r)
      /\ tree["rules"] \in Versions /\ tree["rules"] >= head
      /\ ~Deploying => tree["rules"] = head
      /\ Set(r, x) /\ UNCHANGED <<head, tree, target, snapshots, logs>>
  BY WrittenTree, Facts DEF Inv, LoadRules, AllWritten
<1>2. /\ x \in RunRecord /\ x.pc = "nodes" /\ x.rules = tree["rules"]
      /\ x.manifest = run[r].manifest /\ x.sha = run[r].sha
      /\ x.since = run[r].since /\ x.overlap = run[r].overlap /\ x.prompts = run[r].prompts
  BY <1>1 DEF RunRecord, Points
<1> HIDE DEF x
<1>3. run'[r] = x
  BY <1>1 DEF Inv, Set
<1>4. tree["rules"] >= run[r].since
  <2>1. run[r].since \in Versions /\ run[r].since <= head /\ head \in Versions
    BY <1>1 DEF RunRecord, RunInv, Loaded, Inv, TreeInv
  <2>2. run[r].since \in Int /\ head \in Int /\ tree["rules"] \in Int
    BY <1>1, <2>1, Facts
  <2> QED BY <1>1, <2>1, <2>2
<1>5. RunInv(r)'
  <2>1. Loaded(r)'
    BY <1>1, <1>2, <1>3, <1>4 DEF RunInv, Loaded, HasSha, HasManifest, HasRules, HasPrompts
  <2>2. Undisturbed(r)'
    BY <1>1, <1>2, <1>3 DEF RunInv, Undisturbed, UnderWay, HasSha, HasRules, Deploying
  <2>3. Latest(r)'
    BY <1>1, <1>2, <1>3 DEF RunInv, Latest, NotAhead, AllWritten, HasSha, HasManifest
  <2> QED BY <1>2, <1>3, <2>1, <2>2, <2>3 DEF RunInv
<1> QED BY <1>1, <1>2, <1>5, RunStep

LEMMA RenderKeepsInv == ASSUME Inv, NEW r \in Runs, Render(r) PROVE Inv'
<1> DEFINE seen == run[r].prompts \cup {tree["prompts"]}
           x == [run[r] EXCEPT !.prompts = seen]
<1>1. /\ run[r] \in RunRecord /\ run[r].pc = "nodes" /\ RunInv(r)
      /\ tree["prompts"] \in Versions /\ tree["prompts"] >= head
      /\ ~Deploying => tree["prompts"] = head
      /\ Set(r, x) /\ UNCHANGED <<head, tree, target, snapshots, logs>>
  BY WrittenTree, Facts DEF Inv, Render, Template, AllWritten
<1>2. /\ x \in RunRecord /\ x.pc = "nodes" /\ x.rules = run[r].rules
      /\ x.manifest = run[r].manifest /\ x.sha = run[r].sha
      /\ x.since = run[r].since /\ x.overlap = run[r].overlap /\ x.prompts = seen
  BY <1>1 DEF RunRecord
<1> HIDE DEF x
<1>3. run'[r] = x
  BY <1>1 DEF Inv, Set
<1>4. tree["prompts"] >= run[r].since
  <2>1. run[r].since \in Versions /\ run[r].since <= head /\ head \in Versions
    BY <1>1 DEF RunRecord, RunInv, Loaded, Inv, TreeInv
  <2>2. run[r].since \in Int /\ head \in Int /\ tree["prompts"] \in Int
    BY <1>1, <2>1, Facts
  <2> QED BY <1>1, <2>1, <2>2
<1>5. RunInv(r)'
  <2>1. Loaded(r)'
    BY <1>1, <1>2, <1>3, <1>4 DEF RunInv, Loaded, HasSha, HasManifest, HasRules, HasPrompts
  <2>2. Undisturbed(r)'
    BY <1>1, <1>2, <1>3 DEF RunInv, Undisturbed, UnderWay, HasSha, HasRules, Deploying
  <2>3. Latest(r)'
    BY <1>1, <1>2, <1>3 DEF RunInv, Latest, NotAhead, AllWritten, HasSha, HasManifest
  <2> QED BY <1>2, <1>3, <2>1, <2>2, <2>3 DEF RunInv
<1> QED BY <1>1, <1>2, <1>5, RunStep

(* The steps that load nothing. *)
LEMMA PassKeepsInv ==
  ASSUME Inv, NEW r \in Runs, FinishNodes(r) \/ SelectSnapshot(r) \/ RollBack(r)
  PROVE  Inv'
<1>1. PICK next \in {"select", "commit", "lost"}, seen \in BOOLEAN :
        /\ Set(r, [run[r] EXCEPT !.pc = next, !.saw = seen])
        /\ run[r].pc \in {"nodes", "select", "commit"} /\ run[r].prompts # {}
        /\ next = "commit" => seen = Known(r)
        /\ UNCHANGED <<head, tree, target, snapshots, logs>>
  <2>0. run[r] \in RunRecord
    BY DEF Inv
  <2>1. CASE FinishNodes(r)
    <3>1. [run[r] EXCEPT !.pc = "select"] = [run[r] EXCEPT !.pc = "select", !.saw = run[r].saw]
      BY <2>0 DEF RunRecord
    <3>2. run[r].saw \in BOOLEAN
      BY <2>0 DEF RunRecord
    <3> QED BY <2>1, <3>1, <3>2 DEF FinishNodes
  <2>2. CASE SelectSnapshot(r)
    <3>1. Known(r) \in BOOLEAN
      BY DEF Known
    <3>2. run[r].prompts # {}
      BY <2>2 DEF Inv, RunInv, Loaded, SelectSnapshot, HasPrompts
    <3> QED BY <2>2, <3>1, <3>2 DEF SelectSnapshot
  <2>3. CASE RollBack(r)
    <3>1. [run[r] EXCEPT !.pc = "lost"] = [run[r] EXCEPT !.pc = "lost", !.saw = run[r].saw]
      BY <2>0 DEF RunRecord
    <3>2. run[r].saw \in BOOLEAN
      BY <2>0 DEF RunRecord
    <3>3. run[r].prompts # {}
      BY <2>3 DEF Inv, RunInv, Loaded, RollBack, HasPrompts
    <3> QED BY <2>3, <3>1, <3>2, <3>3 DEF RollBack
  <2> QED BY <2>1, <2>2, <2>3
<1> DEFINE x == [run[r] EXCEPT !.pc = next, !.saw = seen]
<1>2. run[r] \in RunRecord /\ RunInv(r)
  BY DEF Inv
<1>3. /\ x \in RunRecord /\ x.pc = next /\ x.saw = seen /\ x.rules = run[r].rules
      /\ x.manifest = run[r].manifest /\ x.sha = run[r].sha
      /\ x.since = run[r].since /\ x.overlap = run[r].overlap /\ x.prompts = run[r].prompts
  BY <1>1, <1>2 DEF RunRecord, Points
<1>4. Set(r, x)
  BY <1>1
<1> HIDE DEF x
<1>5. run'[r] = x
  BY <1>4 DEF Inv, Set
<1>6. RunInv(r)'
  <2>1. Loaded(r)'
    BY <1>1, <1>2, <1>3, <1>5 DEF RunInv, Loaded, HasSha, HasManifest, HasRules, HasPrompts
  <2>2. Undisturbed(r)'
    BY <1>1, <1>2, <1>3, <1>5 DEF RunInv, Undisturbed, UnderWay, HasSha, HasRules, Deploying
  <2>3. Latest(r)'
    BY <1>1, <1>2, <1>3, <1>5 DEF RunInv, Latest, NotAhead, AllWritten, HasSha, HasManifest
  <2> QED BY <1>1, <1>3, <1>5, <2>1, <2>2, <2>3 DEF RunInv, Known
<1> QED BY <1>1, <1>2, <1>3, <1>4, <1>6, RunStep
(* The row and, for a new identity, its snapshot. *)
LEMMA CommitKeepsInv == ASSUME Inv, NEW r \in Runs, Commit(r) PROVE Inv'
<1> DEFINE x == [run[r] EXCEPT !.pc = "done"]
           sha == run[r].sha
           entry == [sha |-> sha, manifest |-> run[r].manifest]
           row == [run |-> r, sha |-> sha]
<1>1. /\ run[r] \in RunRecord /\ run[r].pc = "commit" /\ RunInv(r) /\ ~Clashes(r)
      /\ snapshots' = snapshots \cup (IF run[r].saw THEN {} ELSE {entry})
      /\ logs' = logs \cup {row}
      /\ Set(r, x) /\ UNCHANGED <<head, tree, target>>
  BY DEF Inv, Commit
<1>2. /\ x \in RunRecord /\ x.pc = "done" /\ x.rules = run[r].rules
      /\ x.manifest = run[r].manifest /\ x.sha = sha
      /\ x.since = run[r].since /\ x.overlap = run[r].overlap /\ x.prompts = run[r].prompts
  BY <1>1 DEF RunRecord, Points
<1>3. /\ entry \in [sha : Shas, manifest : Trees] /\ NotAhead(sha)
      /\ sha.tree = Committed(target) => run[r].manifest = Committed(target)
  BY <1>1 DEF RunInv, Loaded, Latest, HasSha, HasManifest
<1>4. /\ run[r].saw => \E s \in snapshots : s.sha = sha
      /\ ~run[r].saw => \A s \in snapshots : s.sha # sha
  BY <1>1 DEF RunInv, Known, Clashes
<1> HIDE DEF x
<1>5. run' \in [Runs -> RunRecord] /\ run'[r] = x /\ \A q \in Runs : q # r => run'[q] = run[q]
  BY <1>1, <1>2 DEF Inv, Set
<1>6. TreeInv'
  BY <1>1 DEF Inv, TreeInv
<1>7. \A q \in Runs : RunInv(q)'
  <2> TAKE q \in Runs
  <2>1. CASE q = r
    <3>1. Loaded(r)'
      BY <1>1, <1>2, <1>5 DEF RunInv, Loaded, HasSha, HasManifest, HasRules, HasPrompts
    <3>2. Undisturbed(r)'
      BY <1>1, <1>2, <1>5 DEF RunInv, Undisturbed, UnderWay, HasSha, HasRules, Deploying
    <3>3. Latest(r)'
      BY <1>1, <1>2, <1>5 DEF RunInv, Latest, NotAhead, AllWritten, HasSha, HasManifest
    <3> QED BY <1>2, <1>5, <2>1, <3>1, <3>2, <3>3 DEF RunInv
  <2>2. CASE q # r
    <3>1. RunInv(q) /\ run'[q] = run[q]
      BY <1>5, <2>2 DEF Inv
    <3> QED BY <1>1, <3>1 DEF RunInv, Loaded, Undisturbed, Latest, NotAhead, AllWritten,
                              UnderWay, Deploying, Known
  <2> QED BY <2>1, <2>2
<1>8. SnapshotInv'
  <2>1. SnapshotInv
    BY DEF Inv
  <2>2. /\ entry.sha = sha /\ entry.manifest = run[r].manifest
        /\ \A s \in snapshots' : s \in snapshots \/ (s = entry /\ ~run[r].saw)
        /\ \A q : NotAhead(q)' = NotAhead(q)
    BY <1>1 DEF NotAhead, AllWritten
  <2> HIDE DEF entry
  <2>3. snapshots' \subseteq [sha : Shas, manifest : Trees]
    BY <1>3, <2>1, <2>2 DEF SnapshotInv
  <2>4. ASSUME NEW s \in snapshots', NEW t \in snapshots', s.sha = t.sha PROVE s = t
    BY <1>4, <2>1, <2>2, <2>4 DEF SnapshotInv
  <2>5. ASSUME NEW s \in snapshots'
        PROVE  /\ NotAhead(s.sha)'
               /\ s.sha.tree = Committed(target) => s.manifest = Committed(target)
    BY <1>3, <2>1, <2>2, <2>5 DEF SnapshotInv
  <2> QED BY <1>1, <2>3, <2>4, <2>5 DEF SnapshotInv
<1>9. LogInv'
  <2>1. LogInv
    BY DEF Inv
  <2>2. \E s \in snapshots' : s.sha = sha
    <3>1. CASE run[r].saw
      BY <1>1, <1>4, <3>1
    <3>2. CASE ~run[r].saw
      <4>1. entry \in snapshots'
        BY <1>1, <3>2
      <4> QED BY <4>1
    <3> QED BY <3>1, <3>2
  <2>3. row.run = r /\ row.sha = sha
    OBVIOUS
  <2> HIDE DEF row
  <2>4. ASSUME ~run[r].overlap, NEW s \in snapshots', s.sha = sha PROVE s.manifest = sha.tree
    <3>1. ~Deploying /\ run[r].since = head /\ sha.tree = Committed(run[r].since)
      BY <1>1, <2>4 DEF RunInv, Undisturbed, UnderWay, HasSha
    <3>2. sha.tree = Committed(target)
      BY <3>1 DEF Deploying
    <3>3. \A t \in snapshots' : t.sha.tree = Committed(target) => t.manifest = Committed(target)
      BY <1>1, <1>8 DEF SnapshotInv
    <3> QED BY <2>4, <3>2, <3>3
  <2>5. ASSUME NEW log \in logs
        PROVE  /\ log.run \in Runs /\ run'[log.run].pc = "done" /\ log.sha = run'[log.run].sha
               /\ \E s \in snapshots' : s.sha = log.sha
               /\ ~run'[log.run].overlap =>
                    \A s \in snapshots' : s.sha = log.sha => s.manifest = log.sha.tree
    <3>1. /\ log.run \in Runs /\ run[log.run].pc = "done" /\ log.sha = run[log.run].sha
          /\ \E s \in snapshots : s.sha = log.sha
          /\ ~run[log.run].overlap =>
               \A s \in snapshots : s.sha = log.sha => s.manifest = log.sha.tree
      BY <2>1 DEF LogInv
    <3>2. run'[log.run] = run[log.run]
      BY <1>1, <1>5, <3>1
    <3>3. \A s \in snapshots' : s.sha = log.sha => s \in snapshots
      BY <1>1, <1>4, <3>1
    <3> QED BY <1>1, <3>1, <3>2, <3>3
  <2>6. ASSUME NEW log \in logs'
        PROVE  /\ log.run \in Runs /\ run'[log.run].pc = "done" /\ log.sha = run'[log.run].sha
               /\ \E s \in snapshots' : s.sha = log.sha
               /\ ~run'[log.run].overlap =>
                    \A s \in snapshots' : s.sha = log.sha => s.manifest = log.sha.tree
    <3>1. CASE log = row
      BY <1>2, <1>5, <2>2, <2>3, <2>4, <3>1
    <3>2. CASE log \in logs
      BY <2>5, <3>2
    <3> QED BY <1>1, <3>1, <3>2
  <2> QED BY <2>6 DEF LogInv
<1> QED BY <1>5, <1>6, <1>7, <1>8, <1>9 DEF Inv

(* A deployment begins: every version known so far is older than its target. *)
LEMMA BeginDeployKeepsInv == ASSUME Inv, BeginDeploy PROVE Inv'
<1>1. /\ head = target /\ head < MaxVersion /\ target' = head + 1
      /\ run' = [r \in Runs |-> IF UnderWay(r) THEN [run[r] EXCEPT !.overlap = TRUE] ELSE run[r]]
      /\ UNCHANGED <<head, tree, snapshots, logs>>
  BY DEF BeginDeploy, Deploying
<1>2. head \in Nat /\ MaxVersion \in Nat /\ target' \in Versions /\ head <= target'
  BY <1>1, ContextAssumption DEF Inv, TreeInv, Versions
<1>3. TreeInv'
  BY <1>1, <1>2 DEF Inv, TreeInv
<1>4. ASSUME NEW r \in Runs
      PROVE  /\ run[r] \in RunRecord /\ run'[r] \in RunRecord
             /\ run'[r].pc = run[r].pc /\ run'[r].since = run[r].since
             /\ run'[r].sha = run[r].sha /\ run'[r].manifest = run[r].manifest
             /\ run'[r].rules = run[r].rules /\ run'[r].prompts = run[r].prompts
             /\ run'[r].saw = run[r].saw
             /\ ~run'[r].overlap => ~UnderWay(r) /\ ~run[r].overlap
             /\ ~UnderWay(r) => run'[r] = run[r]
  <2>1. run[r] \in RunRecord
    BY DEF Inv
  <2>2. CASE UnderWay(r)
    <3>1. run'[r] = [run[r] EXCEPT !.overlap = TRUE]
      BY <1>1, <2>2
    <3> QED BY <2>1, <2>2, <3>1 DEF RunRecord
  <2>3. CASE ~UnderWay(r)
    BY <1>1, <2>1, <2>3
  <2> QED BY <2>2, <2>3
<1>5. run' \in [Runs -> RunRecord]
  BY <1>1, <1>4
<1>6. ASSUME NEW sha \in Shas, NotAhead(sha)
      PROVE  NotAhead(sha)' /\ sha.tree # Committed(target)'
  <2>1. \A p \in Parts : sha.tree[p] \in Versions /\ sha.tree[p] <= head
    BY <1>1, <1>6 DEF NotAhead, Shas, Trees
  <2>2. \A p \in Parts : sha.tree[p] < target'
    <3> TAKE p \in Parts
    <3>1. sha.tree[p] \in Int
      BY <2>1, Facts
    <3> QED BY <1>1, <1>2, <2>1, <3>1
  <2>3. target' \in Int /\ "rules" \in Parts /\ \A p \in Parts : sha.tree[p] \in Int
    BY <1>2, <2>1, Facts
  <2>4. sha.tree # Committed(target)'
    BY <2>2, <2>3 DEF Committed
  <2> QED BY <2>2, <2>3, <2>4 DEF NotAhead
<1>7. \A r \in Runs : RunInv(r)'
  <2> TAKE r \in Runs
  <2>1. RunInv(r)
    BY DEF Inv
  <2>2. Loaded(r)'
    BY <1>1, <1>4, <2>1 DEF RunInv, Loaded
  <2>3. Undisturbed(r)'
    BY <1>1, <1>4, <2>1 DEF RunInv, Undisturbed, UnderWay
  <2>4. Latest(r)'
    BY <1>4, <1>6, <2>1 DEF RunInv, Loaded, Latest
  <2> QED BY <1>1, <1>4, <2>1, <2>2, <2>3, <2>4 DEF RunInv, Known
<1>8. SnapshotInv'
  <2>1. \A s \in snapshots : s.sha \in Shas /\ NotAhead(s.sha)
    BY DEF Inv, SnapshotInv
  <2> QED BY <1>1, <1>6, <2>1 DEF Inv, SnapshotInv
<1>9. LogInv'
  <2>1. \A log \in logs : ~UnderWay(log.run)
    BY DEF Inv, LogInv, UnderWay
  <2> QED BY <1>1, <1>4, <2>1 DEF Inv, LogInv
<1> QED BY <1>3, <1>5, <1>7, <1>8, <1>9 DEF Inv

(* Files and the reference: what was the latest version stays so, and a run in
   the midst of this is not undisturbed. *)
LEMMA DeployKeepsInv == ASSUME Inv, MoveHead \/ \E p \in Parts : WritePart(p) PROVE Inv'
<1>1. /\ Deploying /\ UNCHANGED <<target, run, snapshots, logs>>
      /\ \/ AllWritten /\ head' = target /\ UNCHANGED tree
         \/ ~AllWritten /\ UNCHANGED head /\ \E p \in Parts : tree' = [tree EXCEPT ![p] = target]
  BY DEF MoveHead, WritePart, AllWritten
<1>2. /\ head \in Versions /\ target \in Versions /\ head \in Int /\ target \in Int
      /\ head <= target /\ head <= head' /\ head' \in Versions /\ head' <= target
      /\ AllWritten => AllWritten'
  BY <1>1, Facts DEF Inv, TreeInv, AllWritten
<1>3. TreeInv'
  <2>1. CASE AllWritten /\ head' = target /\ UNCHANGED tree
    BY <1>1, <1>2, <2>1 DEF Inv, TreeInv, AllWritten
  <2>2. CASE UNCHANGED head /\ \E p \in Parts : tree' = [tree EXCEPT ![p] = target]
    BY <1>1, <1>2, <2>2 DEF Inv, TreeInv, Trees
  <2> QED BY <1>1, <2>1, <2>2
<1>4. \A sha : NotAhead(sha) => NotAhead(sha)'
  BY <1>1, <1>2 DEF NotAhead
<1>5. \A r \in Runs : RunInv(r)'
  <2> TAKE r \in Runs
  <2>1. RunInv(r) /\ run[r].since \in Int
    BY Facts DEF Inv, RunRecord
  <2>2. Loaded(r)'
    <3>1. run[r].since <= head'
      BY <1>2, <2>1, Facts DEF RunInv, Loaded
    <3> QED BY <1>1, <2>1, <3>1 DEF RunInv, Loaded
  <2>3. Undisturbed(r)'
    BY <1>1, <2>1 DEF RunInv, Undisturbed, UnderWay
  <2>4. Latest(r)'
    BY <1>1, <1>4, <2>1 DEF RunInv, Latest
  <2> QED BY <1>1, <2>1, <2>2, <2>3, <2>4 DEF RunInv, Known
<1>6. SnapshotInv' /\ LogInv'
  BY <1>1, <1>4 DEF Inv, SnapshotInv, LogInv
<1> QED BY <1>1, <1>3, <1>5, <1>6 DEF Inv

LEMMA InvHolds == Spec => []Inv
<1>1. Init => Inv
  <2> SUFFICES ASSUME Init PROVE Inv
    OBVIOUS
  <2>1. 0 \in Versions
    BY ContextAssumption DEF Versions
  <2>2. TreeInv
    BY <2>1 DEF Init, TreeInv, Trees
  <2>3. NewRun \in RunRecord
    BY <2>1 DEF NewRun, RunRecord, Points
  <2>4. \A r \in Runs : run[r] = NewRun
    BY DEF Init
  <2>5. \A r \in Runs : RunInv(r)
    BY <2>4 DEF Init, NewRun, RunInv, Loaded, Undisturbed, Latest, HasSha, HasManifest, HasRules,
                HasPrompts
  <2>6. SnapshotInv /\ LogInv
    BY DEF Init, SnapshotInv, LogInv
  <2> QED BY <2>2, <2>3, <2>5, <2>6 DEF Inv, Init
<1>2. Inv /\ UNCHANGED vars => Inv'
  BY DEF Inv, TreeInv, RunInv, Loaded, Undisturbed, Latest, NotAhead, AllWritten, UnderWay,
         Deploying, Known, SnapshotInv, LogInv, vars
<1>3. Inv /\ [Next]_vars => Inv'
  BY <1>2, BeginKeepsInv, ReadShaKeepsInv, ReadManifestKeepsInv, LoadRulesKeepsInv,
     RenderKeepsInv, PassKeepsInv, CommitKeepsInv, BeginDeployKeepsInv, DeployKeepsInv DEF Next
<1> QED BY <1>1, <1>3, PTL DEF Spec

(* The sha of every row is found among the snapshots, and once, however many
   runs and deployments there are. *)
THEOREM OneSnapshotPerSha == Spec => []SnapshotPerSha
<1>1. Inv => SnapshotPerSha
  <2> SUFFICES ASSUME Inv, NEW log \in logs
               PROVE  Cardinality({s \in snapshots : s.sha = log.sha}) = 1
    BY DEF SnapshotPerSha
  <2>1. PICK s \in snapshots : s.sha = log.sha
    BY DEF Inv, LogInv
  <2>2. {t \in snapshots : t.sha = log.sha} = {s}
    BY <2>1 DEF Inv, SnapshotInv
  <2> QED BY <2>2, FS_Singleton
<1> QED BY <1>1, InvHolds, PTL

(* A row names the very rules, prompts and files of its run, unless a deployment
   was under way during the run: the overlaps with other runs do no harm, not
   even when another run stored the snapshot. *)
THEOREM RowsAreTied == Spec => []TiedToItsContext
<1>1. Inv => TiedToItsContext
  <2> SUFFICES ASSUME Inv, NEW log \in logs, ~run[log.run].overlap
               PROVE  /\ run[log.run].rules = log.sha.tree["rules"]
                      /\ run[log.run].prompts = {log.sha.tree["prompts"]}
                      /\ \A s \in snapshots : s.sha = log.sha => s.manifest = log.sha.tree
    BY DEF TiedToItsContext
  <2> DEFINE r == log.run
  <2>1. /\ r \in Runs /\ run[r].pc = "done" /\ log.sha = run[r].sha /\ RunInv(r)
        /\ \A s \in snapshots : s.sha = log.sha => s.manifest = log.sha.tree
    BY DEF Inv, LogInv
  <2> HIDE DEF r
  <2>2. /\ log.sha.tree = Committed(run[r].since) /\ run[r].rules = run[r].since
        /\ run[r].prompts = {run[r].since}
    BY <2>1 DEF RunInv, Undisturbed, Loaded, HasSha, HasRules, HasPrompts, r
  <2> QED BY <2>1, <2>2, Facts DEF r
<1> QED BY <1>1, InvHolds, PTL

(* A run that begins after a deployment uses nothing that is older, without a
   restart of the backend. *)
THEOREM RunsAreFresh == Spec => []NothingStale
<1>1. Inv => NothingStale
  BY DEF Inv, RunInv, Loaded, NothingStale
<1> QED BY <1>1, InvHolds, PTL
=============================================================================
