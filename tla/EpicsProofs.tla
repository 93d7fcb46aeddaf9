------------------------------ MODULE EpicsProofs ------------------------------
(***************************************************************************)
(* Proofs about Epics, for any tasks, PRDs, branches, --base values, edits *)
(* and runs.  Two facts carry them: what a branch and trunk have between   *)
(* them only grows, and the branch of a task is its stamp from the moment  *)
(* it has a worktree.                                                      *)
(***************************************************************************)
EXTENDS Epics, TLAPS

Commits == Ticket \cup {Stray}
EpicStates == {"ready", "blocked", "in_progress", "taken", "merged", "failed",
               "abandoned"}
Worktree == [has : SUBSET Commits, hand : BOOLEAN]
Choice == [task : Ticket, ref : Refs]
Batches == [cli : Refs \cup {Null}, fine : SUBSET Refs, bad : SUBSET Refs,
            skips : SUBSET Ticket, pick : Choice \cup {Null}]
Ones == [at : {"resolved", "running"}, task : Ticket, ref : Refs,
         cli : Refs \cup {Null}]

EpicTypeOK ==
    /\ declared \in [Prd -> Branch \cup {Null}]
    /\ state \in [Ticket -> EpicStates]
    /\ stamp \in [Ticket -> Refs \cup {Null}]
    /\ wt \in [Ticket -> Worktree \cup {Null}]
    /\ local \in [Refs -> (SUBSET Commits) \cup {Null}]
    /\ origin \in [Refs -> (SUBSET Commits) \cup {Null}]
    /\ remote \in BOOLEAN /\ rootAt \in Refs \cup {Null}
    /\ run \in Batches \cup {Null}
    /\ one \in Ones \cup {Null}

\* What a branch has: its own tip's work, and what is on trunk already.
Reach(b) == Contents(Tip(b)) \cup Contents(Tip(Trunk))

\* There is a trunk, on the remote too when there is one; without a remote
\* there is nothing of it.
TrunkInv ==
    /\ local[Trunk] # Null
    /\ remote => origin[Trunk] # Null
    /\ ~remote => \A b \in Refs : origin[b] = Null

\* A ready task has only settled blockers; a task in progress has its stamp and
\* its worktree; a merged one is in the reach of its stamp; and so is all that
\* a batch worktree holds.
TicketSafe(t) ==
    /\ state[t] = "ready" => \A u \in BlockersOf[t] : SettledIn(u, state)
    /\ state[t] = "in_progress" => stamp[t] # Null /\ wt[t] # Null
    /\ state[t] = "merged" => stamp[t] # Null /\ t \in Reach(stamp[t])
    /\ wt[t] # Null /\ ~wt[t].hand =>
          stamp[t] # Null /\ wt[t].has \subseteq Reach(stamp[t])

\* The task the batch picked is ready until it is spawned, the branch it will
\* be cut from is its stamp's, and every merged blocker of it is there.
PickSafe(t, ref) ==
    /\ state[t] = "ready"
    /\ stamp[t] \in {Null, ref}
    /\ run.cli = Null =>
          \A u \in BlockersOf[t] :
             state[u] = "merged" => stamp[u] = ref \/ u \in Reach(Trunk)

PickInv ==
    run # Null /\ run.pick # Null => PickSafe(run.pick.task, run.pick.ref)

EpicInv ==
    /\ EpicTypeOK
    /\ TrunkInv
    /\ \A t \in Ticket : TicketSafe(t)
    /\ PickInv

-----------------------------------------------------------------------------
(* Resolution: the first of two or three that is known.                    *)

\* FirstKnown of two.
LEMMA FirstOfTwo ==
  ASSUME NEW x, NEW y
  PROVE  /\ x # Null => FirstKnown(<<x, y>>) = x
         /\ x = Null /\ y # Null => FirstKnown(<<x, y>>) = y
<1> DEFINE s == <<x, y>>
           K(i) == s[i] # Null /\ \A j \in 1..(i - 1) : s[j] = Null
<1>1. DOMAIN s = {1, 2} /\ s[1] = x /\ s[2] = y
  OBVIOUS
<1> HIDE DEF s
<1>2. FirstKnown(s) = s[CHOOSE i \in {1, 2} : K(i)]
  BY <1>1 DEF FirstKnown
<1>3. ASSUME x # Null PROVE (CHOOSE i \in {1, 2} : K(i)) = 1
  <2>1. K(1) /\ ~K(2)
    BY <1>1, <1>3
  <2> QED
    BY <2>1
<1>4. ASSUME x = Null, y # Null PROVE (CHOOSE i \in {1, 2} : K(i)) = 2
  <2>1. ~K(1) /\ K(2)
    BY <1>1, <1>4
  <2> QED
    BY <2>1
<1> QED
  BY <1>1, <1>2, <1>3, <1>4 DEF s

\* FirstKnown of three.
LEMMA FirstOfThree ==
  ASSUME NEW x, NEW y, NEW z
  PROVE  /\ x # Null => FirstKnown(<<x, y, z>>) = x
         /\ x = Null /\ y # Null => FirstKnown(<<x, y, z>>) = y
         /\ x = Null /\ y = Null /\ z # Null => FirstKnown(<<x, y, z>>) = z
<1> DEFINE s == <<x, y, z>>
           K(i) == s[i] # Null /\ \A j \in 1..(i - 1) : s[j] = Null
<1>1. DOMAIN s = {1, 2, 3} /\ s[1] = x /\ s[2] = y /\ s[3] = z
  OBVIOUS
<1> HIDE DEF s
<1>2. FirstKnown(s) = s[CHOOSE i \in {1, 2, 3} : K(i)]
  BY <1>1 DEF FirstKnown
<1>3. ASSUME x # Null PROVE (CHOOSE i \in {1, 2, 3} : K(i)) = 1
  <2>1. K(1) /\ ~K(2) /\ ~K(3)
    BY <1>1, <1>3
  <2> QED
    BY <2>1
<1>4. ASSUME x = Null, y # Null PROVE (CHOOSE i \in {1, 2, 3} : K(i)) = 2
  <2>1. ~K(1) /\ K(2) /\ ~K(3)
    BY <1>1, <1>4
  <2> QED
    BY <2>1
<1>5. ASSUME x = Null, y = Null, z # Null
      PROVE  (CHOOSE i \in {1, 2, 3} : K(i)) = 3
  <2>1. ~K(1) /\ ~K(2) /\ K(3)
    BY <1>1, <1>5
  <2> QED
    BY <2>1
<1> QED
  BY <1>1, <1>2, <1>3, <1>4, <1>5 DEF s

\* --base first, then the stamp, then what the plans say, which is a branch.
LEMMA Resolution ==
  ASSUME EpicTypeOK, NEW t \in Ticket, NEW cli \in Refs \cup {Null}
  PROVE  /\ ActiveBranch(t, cli) \in Refs
         /\ cli # Null => ActiveBranch(t, cli) = cli
         /\ BranchOf(t, cli) \in Refs
         /\ cli # Null => BranchOf(t, cli) = cli
         /\ cli = Null /\ stamp[t] # Null => BranchOf(t, cli) = stamp[t]
<1> DEFINE d == Document(PrdOf[t])
<1>1. PrdOf[t] \in Prd /\ Null \notin Branch
  BY EpicsAssumption DEF Refs
<1>2. declared[PrdOf[t]] \in Branch \cup {Null} /\ Derived[PrdOf[t]] \in Branch
  BY <1>1, EpicsAssumption DEF EpicTypeOK
<1>3. d \in Branch
  BY <1>1, <1>2, FirstOfTwo DEF Document
<1> HIDE DEF d
<1>4. ASSUME NEW c \in Refs \cup {Null}
      PROVE  ActiveBranch(t, c) \in Refs /\ (c # Null => ActiveBranch(t, c) = c)
  <2>1. ActiveBranch(t, c) = FirstKnown(<<c, d, Trunk>>)
    BY DEF ActiveBranch, d
  <2>2. d # Null /\ d \in Refs
    BY <1>1, <1>3 DEF Refs
  <2> QED
    BY <2>1, <2>2, FirstOfThree
<1> DEFINE a == ActiveBranch(t, Null)
<1>5. a \in Refs /\ a # Null
  BY <1>4, EpicsAssumption
<1>6. stamp[t] \in Refs \cup {Null}
  BY DEF EpicTypeOK
<1>7. BranchOf(t, cli) = FirstKnown(<<cli, stamp[t], a>>)
  BY DEF BranchOf
<1> HIDE DEF a
<1>8. /\ BranchOf(t, cli) \in Refs
      /\ cli # Null => BranchOf(t, cli) = cli
      /\ cli = Null /\ stamp[t] # Null => BranchOf(t, cli) = stamp[t]
  BY <1>5, <1>6, <1>7, FirstOfThree
<1> QED
  BY <1>4, <1>8

\* The initial states are safe.
LEMMA EpicInit ==
  ASSUME Null \notin SUBSET Commits, EpicsInit PROVE EpicInv
<1>1. EpicTypeOK
  <2>1. /\ local \in [Refs -> (SUBSET Commits) \cup {Null}]
        /\ origin \in [Refs -> (SUBSET Commits) \cup {Null}]
    BY DEF EpicsInit
  <2>2. state \in [Ticket -> EpicStates] /\ rootAt \in Refs \cup {Null}
    BY DEF EpicsInit, EpicStates, Refs
  <2> QED
    BY <2>1, <2>2 DEF EpicTypeOK, EpicsInit
<1>2. TrunkInv
  BY EpicsAssumption DEF TrunkInv, EpicsInit, Refs
<1>3. ASSUME NEW t \in Ticket PROVE TicketSafe(t)
  <2>1. wt[t] = Null /\ state[t] \in {"ready", "blocked"}
    BY DEF EpicsInit
  <2>2. state[t] = "ready" => BlockersOf[t] = {}
    BY DEF EpicsInit
  <2> QED
    BY <2>1, <2>2 DEF TicketSafe
<1>4. PickInv
  BY DEF PickInv, EpicsInit
<1> QED
  BY <1>1, <1>2, <1>3, <1>4 DEF EpicInv

-----------------------------------------------------------------------------
(* What the branches reach only grows.                                     *)

GitOK ==
    /\ local \in [Refs -> (SUBSET Commits) \cup {Null}]
    /\ origin \in [Refs -> (SUBSET Commits) \cup {Null}]
    /\ remote \in BOOLEAN
    /\ TrunkInv

Grows == \A b \in Refs : Reach(b) \subseteq Reach(b)'

\* Branches whose tips only grow reach only more.
LEMMA TipsGrow ==
  ASSUME \A b \in Refs : Contents(Tip(b)) \subseteq Contents(Tip(b))'
  PROVE  Grows
<1>1. Trunk \in Refs
  BY DEF Refs
<1> QED
  BY <1>1 DEF Grows, Reach

\* Steps that touch no branch.
LEMMA SameGrows ==
  ASSUME GitOK, UNCHANGED <<local, origin, remote>> PROVE GitOK' /\ Grows
<1>1. \A b \in Refs : Contents(Tip(b)) \subseteq Contents(Tip(b))'
  BY DEF Tip, Contents
<1> QED
  BY <1>1, TipsGrow DEF GitOK, TrunkInv

\* A branch that is nowhere is made from trunk.
LEMMA EnsuredGrows ==
  ASSUME GitOK, NEW ref \in Refs, local' = Ensured(ref), UNCHANGED <<origin, remote>>
  PROVE  GitOK' /\ Grows
<1>1. CASE Tip(ref) # Null
  BY <1>1, SameGrows DEF Ensured
<1>2. CASE Tip(ref) = Null
  <2>1. local' = [local EXCEPT ![ref] = Tip(Trunk)]
    BY <1>2 DEF Ensured
  <2>2. Tip(Trunk) \in (SUBSET Commits) \cup {Null}
    BY DEF GitOK, Tip, Refs
  <2>3. local' \in [Refs -> (SUBSET Commits) \cup {Null}]
    BY <2>1, <2>2 DEF GitOK
  <2>4. \A b \in Refs : b # ref => local'[b] = local[b]
    BY <2>1 DEF GitOK
  <2>5. \A b \in Refs : Contents(Tip(b)) \subseteq Contents(Tip(b))'
    BY <1>2, <2>4 DEF Tip, Contents
  <2>6. local'[Trunk] # Null
    BY <1>2, <2>4 DEF GitOK, TrunkInv, Tip, Refs
  <2> QED
    BY <2>3, <2>5, <2>6, TipsGrow DEF GitOK, TrunkInv
<1> QED
  BY <1>1, <1>2

\* What lands is in the reach of its branch.
LEMMA LandGrows ==
  ASSUME Null \notin SUBSET Commits, GitOK, NEW ref \in Refs, NEW new \in SUBSET Commits,
         Tip(ref) # Null, Tip(ref) \subseteq new, remote \/ rootAt # ref,
         origin' = (IF remote THEN [origin EXCEPT ![ref] = new] ELSE origin),
         local' = (IF rootAt = ref THEN local ELSE [local EXCEPT ![ref] = new]),
         UNCHANGED remote
  PROVE  GitOK' /\ Grows /\ new \subseteq Reach(ref)'
<1>1. /\ local' \in [Refs -> (SUBSET Commits) \cup {Null}]
      /\ origin' \in [Refs -> (SUBSET Commits) \cup {Null}]
  BY DEF GitOK
<1>2. new # Null
  OBVIOUS
<1>3. \A b \in Refs : b # ref => local'[b] = local[b] /\ origin'[b] = origin[b]
  BY DEF GitOK
<1>4. Tip(ref)' = new
  <2>1. CASE remote
    <3>1. origin'[ref] = new
      BY <2>1 DEF GitOK
    <3> QED
      BY <3>1, <1>2 DEF Tip
  <2>2. CASE ~remote
    <3>1. origin'[ref] = Null /\ local'[ref] = new
      BY <2>2 DEF GitOK, TrunkInv
    <3> QED
      BY <3>1 DEF Tip
  <2> QED
    BY <2>1, <2>2 DEF GitOK
<1>5. TrunkInv'
  <2>1. Trunk \in Refs
    BY DEF Refs
  <2>2. CASE remote
    <3>1. origin'[Trunk] \in {origin[Trunk], new}
      BY <2>1, <2>2 DEF GitOK
    <3> QED
      BY <2>2, <3>1, <1>2 DEF GitOK, TrunkInv
  <2>3. CASE ~remote
    BY <2>3 DEF GitOK, TrunkInv
  <2> QED
    BY <2>2, <2>3 DEF GitOK
<1>6. \A b \in Refs : Contents(Tip(b)) \subseteq Contents(Tip(b))'
  <2>1. Contents(Tip(ref)) \subseteq Contents(Tip(ref))'
    BY <1>2, <1>4 DEF Contents
  <2>2. ASSUME NEW b \in Refs, b # ref
        PROVE  Contents(Tip(b)) \subseteq Contents(Tip(b))'
    BY <1>3, <2>2 DEF Tip, Contents
  <2> QED
    BY <2>1, <2>2
<1>7. new \subseteq Reach(ref)'
  BY <1>2, <1>4 DEF Reach, Contents
<1> QED
  BY <1>1, <1>5, <1>6, <1>7, TipsGrow DEF GitOK

\* One branch, on one side, has more than before.
LEMMA OneGrows ==
  ASSUME GitOK, NEW b \in Refs, NEW new \in SUBSET Commits, new # Null,
         UNCHANGED remote,
         \/ /\ local' = [local EXCEPT ![b] = new] /\ UNCHANGED origin
            /\ origin[b] = Null => Contents(local[b]) \subseteq new
         \/ /\ origin' = [origin EXCEPT ![b] = new] /\ UNCHANGED local
            /\ origin[b] # Null /\ origin[b] \subseteq new
  PROVE  GitOK' /\ Grows
<1>1. /\ local' \in [Refs -> (SUBSET Commits) \cup {Null}]
      /\ origin' \in [Refs -> (SUBSET Commits) \cup {Null}]
  BY DEF GitOK
<1>2. \A c \in Refs : c # b => local'[c] = local[c] /\ origin'[c] = origin[c]
  BY DEF GitOK
<1>3. /\ local'[b] \in {local[b], new} /\ origin'[b] \in {origin[b], new}
      /\ origin[b] = Null => origin'[b] = Null
  BY DEF GitOK
<1>4. TrunkInv'
  <2>1. Trunk \in Refs /\ (origin[Trunk] # Null => origin'[Trunk] # Null)
    BY <1>2, <1>3 DEF Refs
  <2>2. \A c \in Refs : origin[c] = Null => origin'[c] = Null
    BY <1>2, <1>3
  <2> QED
    BY <2>1, <2>2 DEF GitOK, TrunkInv
<1>5. ASSUME NEW c \in Refs PROVE Contents(Tip(c)) \subseteq Contents(Tip(c))'
  <2>1. CASE c # b
    BY <1>2, <2>1 DEF Tip, Contents
  <2>2. CASE local' = [local EXCEPT ![b] = new] /\ UNCHANGED origin
             /\ (origin[b] = Null => Contents(local[b]) \subseteq new) /\ c = b
    <3>1. local'[b] = new
      BY <2>2 DEF GitOK
    <3> QED
      BY <2>2, <3>1 DEF Tip, Contents
  <2>3. CASE origin' = [origin EXCEPT ![b] = new] /\ UNCHANGED local
             /\ origin[b] # Null /\ origin[b] \subseteq new /\ c = b
    <3>1. origin'[b] = new
      BY <2>3 DEF GitOK
    <3> QED
      BY <2>3, <3>1 DEF Tip, Contents
  <2> QED
    BY <2>1, <2>2, <2>3
<1> QED
  BY <1>1, <1>4, <1>5, TipsGrow DEF GitOK

\* An operator's commit, push or pull, the merge of an epic and its deletion.
LEMMA OperatorGrows ==
  ASSUME Null \notin SUBSET Commits, GitOK, NEW b \in Refs,
         CommitLocally(b) \/ PushOrPull(b) \/ (b # Trunk /\ (MergeEpic(b) \/ DeleteEpic(b)))
  PROVE  GitOK' /\ Grows
<1>0. UNCHANGED remote
  BY DEF CommitLocally, PushOrPull, MergeEpic, DeleteEpic, Untouched
<1>1. /\ local[b] \in (SUBSET Commits) \cup {Null}
      /\ origin[b] \in (SUBSET Commits) \cup {Null}
  BY DEF GitOK
<1>2. CASE CommitLocally(b)
  <2>1. /\ local[b] \in SUBSET Commits
        /\ local' = [local EXCEPT ![b] = local[b] \cup {Stray}] /\ UNCHANGED origin
    BY <1>1, <1>2 DEF CommitLocally
  <2>2. local[b] \cup {Stray} \in SUBSET Commits /\ local[b] \cup {Stray} # Null
    BY <2>1 DEF Commits
  <2>3. Contents(local[b]) \subseteq local[b] \cup {Stray}
    BY DEF Contents
  <2> QED
    BY <1>0, <2>1, <2>2, <2>3, OneGrows
<1>3. CASE PushOrPull(b)
  <2>1. origin[b] \in SUBSET Commits /\ origin[b] # Null
    BY <1>1, <1>3 DEF PushOrPull
  <2>2. CASE local[b] # Null /\ origin[b] \subseteq local[b]
             /\ origin' = [origin EXCEPT ![b] = local[b]] /\ UNCHANGED local
    BY <1>0, <1>1, <2>1, <2>2, OneGrows
  <2>3. CASE local' = [local EXCEPT ![b] = origin[b]] /\ UNCHANGED origin
    BY <1>0, <2>1, <2>3, OneGrows
  <2> QED
    BY <1>3, <2>2, <2>3 DEF PushOrPull
<1>4. CASE b # Trunk /\ MergeEpic(b)
  <2>1. /\ origin[b] \in SUBSET Commits /\ origin[b] # Null
        /\ origin' = [origin EXCEPT ![Trunk] = origin[Trunk] \cup origin[b]]
        /\ UNCHANGED local
    BY <1>1, <1>4 DEF MergeEpic
  <2>2. Trunk \in Refs /\ origin[Trunk] # Null /\ origin[Trunk] \in SUBSET Commits
    BY <2>1 DEF GitOK, TrunkInv, Refs
  <2>3. /\ origin[Trunk] \cup origin[b] \in SUBSET Commits
        /\ origin[Trunk] \cup origin[b] # Null
    BY <2>1, <2>2
  <2> QED
    BY <1>0, <2>1, <2>2, <2>3, OneGrows
<1>5. CASE b # Trunk /\ DeleteEpic(b)
  <2>1. /\ local' = [local EXCEPT ![b] = Null] /\ origin' = [origin EXCEPT ![b] = Null]
        /\ Contents(local[b]) \cup Contents(origin[b]) \subseteq Tip(Trunk)
    BY <1>5 DEF DeleteEpic
  <2>2. /\ local' \in [Refs -> (SUBSET Commits) \cup {Null}]
        /\ origin' \in [Refs -> (SUBSET Commits) \cup {Null}]
    BY <2>1 DEF GitOK
  <2>3. \A c \in Refs : c # b => local'[c] = local[c] /\ origin'[c] = origin[c]
    BY <2>1 DEF GitOK
  <2>4. \A c \in Refs : origin[c] = Null => origin'[c] = Null
    BY <2>1 DEF GitOK
  <2>5. Trunk \in Refs /\ local'[Trunk] = local[Trunk] /\ origin'[Trunk] = origin[Trunk]
    BY <1>5, <2>3 DEF Refs
  <2>6. TrunkInv'
    BY <1>0, <2>4, <2>5 DEF GitOK, TrunkInv
  <2>7. ASSUME Tip(Trunk) # Null, NEW c \in Refs PROVE Reach(c) \subseteq Reach(c)'
    <3>1. Contents(Tip(Trunk))' = Contents(Tip(Trunk))
      BY <2>5 DEF Contents, Tip
    <3>2. c # b => Contents(Tip(c))' = Contents(Tip(c))
      BY <2>3 DEF Contents, Tip
    <3>3. c = b => Contents(Tip(c)) \subseteq Contents(Tip(Trunk))
      BY <2>1, <2>7 DEF Contents, Tip
    <3> QED
      BY <3>1, <3>2, <3>3 DEF Reach
  <2>8. Tip(Trunk) # Null
    BY DEF GitOK, TrunkInv, Tip
  <2> QED
    BY <1>0, <2>2, <2>6, <2>7, <2>8 DEF GitOK, Grows
<1> QED
  BY <1>2, <1>3, <1>4, <1>5

-----------------------------------------------------------------------------
(* The records                                                             *)

\* The part of the types that the lemmas on branches need.
LEMMA GitIsOK == ASSUME EpicTypeOK, TrunkInv PROVE GitOK
  BY DEF EpicTypeOK, GitOK

\* Only blocked tasks change, to ready, when all they wait for is settled.
LEMMA RefreshedStates ==
  ASSUME NEW st \in [Ticket -> EpicStates]
  PROVE  /\ Refreshed(st) \in [Ticket -> EpicStates]
         /\ \A t \in Ticket :
               \/ Refreshed(st)[t] = st[t]
               \/ /\ st[t] = "blocked" /\ Refreshed(st)[t] = "ready"
                  /\ \A u \in BlockersOf[t] : SettledIn(u, st)
  BY DEF Refreshed, EpicStates

\* A stamp is written once.
LEMMA StampedTypes ==
  ASSUME EpicTypeOK, NEW t \in Ticket, NEW b \in Refs
  PROVE  /\ Stamped(t, b) \in [Ticket -> Refs \cup {Null}]
         /\ Stamped(t, b)[t] = (IF stamp[t] = Null THEN b ELSE stamp[t])
         /\ \A u \in Ticket : u # t => Stamped(t, b)[u] = stamp[u]
  BY DEF EpicTypeOK, Stamped

\* What the worktree becomes.
CutOne(t, c, hand) ==
    IF wt[t] = Null THEN [has |-> c, hand |-> hand]
    ELSE [has |-> wt[t].has \cup c, hand |-> wt[t].hand \/ hand]

\* Only its own worktree changes, to one that is well typed.
LEMMA CutIsOne ==
  ASSUME EpicTypeOK, NEW t \in Ticket, NEW c \in SUBSET Commits, NEW hand \in BOOLEAN
  PROVE  /\ CutOne(t, c, hand) \in Worktree
         /\ Cut(t, c, hand) \in [Ticket -> Worktree \cup {Null}]
         /\ Cut(t, c, hand)[t] = CutOne(t, c, hand)
         /\ \A u \in Ticket : u # t => Cut(t, c, hand)[u] = wt[u]
<1>1. wt[t] \in Worktree \cup {Null}
  BY DEF EpicTypeOK
<1>2. Cut(t, c, hand) = [wt EXCEPT ![t] = CutOne(t, c, hand)]
  BY DEF Cut, CutOne
<1>3. CutOne(t, c, hand) \in Worktree
  <2>1. CASE wt[t] = Null
    BY <2>1 DEF Worktree, CutOne
  <2>2. CASE wt[t] # Null
    <3>1. wt[t].has \cup c \in SUBSET Commits
      BY <1>1, <2>2 DEF Worktree
    <3>2. (wt[t].hand \/ hand) \in BOOLEAN
      BY <1>1, <2>2 DEF Worktree
    <3>3. CutOne(t, c, hand) = [has |-> wt[t].has \cup c, hand |-> wt[t].hand \/ hand]
      BY <2>2 DEF CutOne
    <3> QED
      BY <3>1, <3>2, <3>3 DEF Worktree
  <2> QED
    BY <2>1, <2>2
<1> QED
  BY <1>2, <1>3 DEF EpicTypeOK

\* The worktree holds at least what it was cut from.
LEMMA CutHas ==
  ASSUME Null \notin Worktree, EpicTypeOK, NEW t \in Ticket, NEW c \in SUBSET Commits,
         NEW hand \in BOOLEAN, wt' = Cut(t, c, hand)
  PROVE  /\ wt' \in [Ticket -> Worktree \cup {Null}]
         /\ wt'[t] # Null /\ c \subseteq wt'[t].has
         /\ wt[t] = Null => wt'[t].has = c
         /\ wt[t] # Null => wt'[t].has = wt[t].has \cup c
         /\ \A u \in Ticket : u # t => wt'[u] = wt[u]
<1>1. wt'[t] = CutOne(t, c, hand) /\ wt'[t] \in Worktree
  BY CutIsOne
<1>2. wt'[t].has = IF wt[t] = Null THEN c ELSE wt[t].has \cup c
  BY <1>1 DEF CutOne
<1>3. wt' \in [Ticket -> Worktree \cup {Null}]
  BY CutIsOne
<1>4. \A u \in Ticket : u # t => wt'[u] = wt[u]
  BY CutIsOne
<1> QED
  BY <1>1, <1>2, <1>3, <1>4

\* A worktree that a hand started stays so.
LEMMA CutHand ==
  ASSUME EpicTypeOK, NEW t \in Ticket, NEW c \in SUBSET Commits,
         NEW hand \in BOOLEAN, wt' = Cut(t, c, hand), ~wt'[t].hand
  PROVE  ~hand /\ (wt[t] # Null => ~wt[t].hand)
<1>1. wt'[t] = CutOne(t, c, hand)
  BY CutIsOne
<1>2. CASE wt[t] = Null
  <2>1. wt'[t].hand = hand
    BY <1>1, <1>2 DEF CutOne
  <2> QED
    BY <1>2, <2>1
<1>3. CASE wt[t] # Null
  <2>1. wt'[t].hand = (wt[t].hand \/ hand)
    BY <1>1, <1>3 DEF CutOne
  <2> QED
    BY <2>1
<1> QED
  BY <1>2, <1>3

\* A ticket that the step leaves alone stays safe: branches only grow, and
\* what is settled stays so.
LEMMA KeepsSafe ==
  ASSUME EpicTypeOK, Grows, NEW t \in Ticket, TicketSafe(t),
         state'[t] = state[t], stamp'[t] = stamp[t], wt'[t] = wt[t],
         \A u \in Ticket : SettledIn(u, state) => SettledIn(u, state')
  PROVE  TicketSafe(t)'
<1>1. BlockersOf[t] \subseteq Ticket
  BY EpicsAssumption
<1>2. stamp[t] \in Refs \cup {Null}
  BY DEF EpicTypeOK
<1>3. state'[t] = "ready" => \A u \in BlockersOf[t] : SettledIn(u, state')
  BY <1>1 DEF TicketSafe
<1>4. stamp[t] # Null => Reach(stamp[t]) \subseteq Reach(stamp[t])'
  BY <1>2 DEF Grows
<1>5. state'[t] = "in_progress" => stamp'[t] # Null /\ wt'[t] # Null
  BY DEF TicketSafe
<1>6. state'[t] = "merged" => stamp'[t] # Null /\ t \in Reach(stamp[t])'
  BY <1>4 DEF TicketSafe
<1>7. wt'[t] # Null /\ ~wt'[t].hand =>
        stamp'[t] # Null /\ wt'[t].has \subseteq Reach(stamp[t])'
  BY <1>4 DEF TicketSafe
<1> QED
  BY <1>3, <1>5, <1>6, <1>7 DEF TicketSafe

\* A ticket whose state becomes any but in progress and merged.
LEMMA IdleSafe ==
  ASSUME EpicTypeOK, Grows, NEW t \in Ticket, TicketSafe(t),
         stamp'[t] = stamp[t], wt'[t] \in {wt[t], Null},
         state'[t] \notin {"in_progress", "merged"},
         state'[t] = "ready" => \A u \in BlockersOf[t] : SettledIn(u, state')
  PROVE  TicketSafe(t)'
<1>1. stamp[t] \in Refs \cup {Null}
  BY DEF EpicTypeOK
<1>2. stamp[t] # Null => Reach(stamp[t]) \subseteq Reach(stamp[t])'
  BY <1>1 DEF Grows
<1>3. wt'[t] # Null /\ ~wt'[t].hand =>
        stamp'[t] # Null /\ wt'[t].has \subseteq Reach(stamp[t])'
  BY <1>2 DEF TicketSafe
<1> QED
  BY <1>3 DEF TicketSafe

\* The picked task is ready, and its blockers are settled: none of them moves.
LEMMA PickKeeps ==
  ASSUME EpicInv, Grows, UNCHANGED <<run, stamp>>,
         \A u \in Ticket :
            state[u] \in {"ready", "merged", "abandoned"} => state'[u] = state[u]
  PROVE  PickInv'
<1> SUFFICES ASSUME run # Null, run.pick # Null
             PROVE  PickSafe(run.pick.task, run.pick.ref)'
  BY DEF PickInv
<1> DEFINE t == run.pick.task
           ref == run.pick.ref
<1>1. t \in Ticket /\ ref \in Refs
  BY DEF EpicInv, EpicTypeOK, Batches, Choice
<1>2. PickSafe(t, ref) /\ run'.pick.task = t /\ run'.pick.ref = ref /\ run'.cli = run.cli
  BY DEF EpicInv, PickInv
<1> HIDE DEF t, ref
<1>3. \A u \in BlockersOf[t] : u \in Ticket /\ SettledIn(u, state)
  BY <1>1, <1>2, EpicsAssumption DEF EpicInv, TicketSafe, PickSafe
<1>4. \A u \in BlockersOf[t] : state'[u] = state[u]
  BY <1>3 DEF SettledIn
<1>5. Reach(Trunk) \subseteq Reach(Trunk)'
  BY DEF Grows, Refs
<1>6. state'[t] = "ready" /\ stamp'[t] \in {Null, ref}
  BY <1>1, <1>2 DEF PickSafe
<1>7. run'.cli = Null =>
        \A u \in BlockersOf[t] :
           state'[u] = "merged" => stamp'[u] = ref \/ u \in Reach(Trunk)'
  BY <1>2, <1>4, <1>5 DEF PickSafe
<1> QED
  BY <1>2, <1>6, <1>7 DEF PickSafe, t, ref

\* Steps that leave the records and the worktrees alone.
LEMMA QuietKeeps ==
  ASSUME EpicInv, GitOK', Grows, UNCHANGED <<state, stamp, wt, rootAt>>,
         declared' \in [Prd -> Branch \cup {Null}], one' \in Ones \cup {Null},
         run' \in Batches \cup {Null},
         run' = run \/ run' = Null \/ run'.pick = Null
  PROVE  EpicInv'
<1>1. EpicTypeOK'
  BY DEF EpicInv, EpicTypeOK, GitOK
<1>2. \A t \in Ticket : TicketSafe(t)'
  BY KeepsSafe DEF EpicInv
<1>3. PickInv'
  BY PickKeeps DEF PickInv
<1> QED
  BY <1>1, <1>2, <1>3 DEF EpicInv, GitOK

\* Steps under a free lease: no batch has picked anything.
LEMMA FreeKeeps ==
  ASSUME EpicInv, GitOK', run = Null, UNCHANGED <<declared, rootAt, run>>,
         one' \in Ones \cup {Null}, state' \in [Ticket -> EpicStates],
         stamp' \in [Ticket -> Refs \cup {Null}],
         wt' \in [Ticket -> Worktree \cup {Null}],
         \A t \in Ticket : TicketSafe(t)'
  PROVE  EpicInv'
<1>1. EpicTypeOK'
  BY DEF EpicInv, EpicTypeOK, GitOK
<1> QED
  BY <1>1 DEF EpicInv, GitOK, PickInv

\* The steps of QuietKeeps.
LEMMA QuietSteps ==
  ASSUME Null \notin SUBSET Commits, EpicInv,
         \/ \E cli \in Bases \cup {Null} : StartRun(cli)
         \/ \E t \in Ticket : SkipTask(t) \/ SkipBranch(t)
         \/ EndRun \/ OneEnds
         \/ \E t \in Ticket, cli \in Bases \cup {Null} : OneResolve(t, cli)
         \/ \E p \in Prd, b \in Branch \cup {Null} : Retarget(p, b)
         \/ \E b \in Refs : CommitLocally(b) \/ PushOrPull(b)
         \/ \E b \in Branch : MergeEpic(b) \/ DeleteEpic(b)
         \/ UNCHANGED epicVars
  PROVE  EpicInv' /\ UNCHANGED <<state, wt>>
<1>1. GitOK /\ declared \in [Prd -> Branch \cup {Null}] /\ one \in Ones \cup {Null}
      /\ run \in Batches \cup {Null}
  BY GitIsOK DEF EpicInv, EpicTypeOK
<1>2. ASSUME NEW cli \in Bases \cup {Null}, StartRun(cli)
      PROVE  EpicInv' /\ UNCHANGED <<state, wt>>
  <2>1. UNCHANGED <<declared, state, stamp, local, origin, remote, rootAt, wt, one>>
    BY <1>2 DEF StartRun, boardVars, gitVars
  <2>2. run' = [cli |-> cli, fine |-> {}, bad |-> {}, skips |-> {}, pick |-> Null]
    BY <1>2 DEF StartRun
  <2>3. run' \in Batches /\ run'.pick = Null
    BY <2>2, EpicsAssumption DEF Batches
  <2> QED
    BY <1>1, <2>1, <2>3, SameGrows, QuietKeeps
<1>3. ASSUME NEW t \in Ticket, SkipTask(t) \/ SkipBranch(t)
      PROVE  EpicInv' /\ UNCHANGED <<state, wt>>
  <2>1. UNCHANGED <<declared, state, stamp, local, origin, remote, rootAt, wt, one>>
    BY <1>3 DEF SkipTask, SkipBranch, boardVars, gitVars
  <2>2. run # Null /\ run.pick = Null /\ run \in Batches
    BY <1>1, <1>3 DEF SkipTask, SkipBranch, Passes, Considers
  <2>3. BranchOf(t, run.cli) \in Refs
    BY <2>2, Resolution DEF EpicInv, Batches
  <2>4. PICK bad \in SUBSET Refs :
          run' = [run EXCEPT !.skips = run.skips \cup {t}, !.bad = run.bad \cup bad]
    BY <1>3, <2>3 DEF SkipTask, SkipBranch, Skip
  <2>5. run' \in Batches /\ run'.pick = Null
    BY <2>2, <2>4 DEF Batches
  <2> QED
    BY <1>1, <2>1, <2>5, SameGrows, QuietKeeps
<1>4. ASSUME EndRun \/ OneEnds \/ UNCHANGED epicVars
      PROVE  EpicInv' /\ UNCHANGED <<state, wt>>
  <2>1. /\ UNCHANGED <<declared, state, stamp, local, origin, remote, rootAt, wt>>
        /\ one' \in {one, Null} /\ run' \in {run, Null}
    BY <1>4 DEF EndRun, OneEnds, epicVars, boardVars, gitVars
  <2> QED
    BY <1>1, <2>1, SameGrows, QuietKeeps
<1>5. ASSUME NEW t \in Ticket, NEW cli \in Bases \cup {Null}, OneResolve(t, cli)
      PROVE  EpicInv' /\ UNCHANGED <<state, wt>>
  <2>1. UNCHANGED <<declared, state, stamp, local, origin, remote, rootAt, wt, run>>
    BY <1>5 DEF OneResolve, boardVars, gitVars
  <2>2. cli \in Refs \cup {Null} /\ BranchOf(t, cli) \in Refs
    BY EpicsAssumption, Resolution DEF EpicInv
  <2>3. one' = [at |-> "resolved", task |-> t, ref |-> BranchOf(t, cli), cli |-> cli]
    BY <1>5 DEF OneResolve
  <2>4. one' \in Ones
    BY <2>2, <2>3 DEF Ones
  <2> QED
    BY <1>1, <2>1, <2>4, SameGrows, QuietKeeps
<1>6. ASSUME NEW p \in Prd, NEW b \in Branch \cup {Null}, Retarget(p, b)
      PROVE  EpicInv' /\ UNCHANGED <<state, wt>>
  <2>1. UNCHANGED <<state, stamp, local, origin, remote, rootAt, wt, run, one>>
    BY <1>6 DEF Retarget, boardVars, gitVars
  <2>2. declared' \in [Prd -> Branch \cup {Null}]
    BY <1>1, <1>6 DEF Retarget
  <2> QED
    BY <1>1, <2>1, <2>2, SameGrows, QuietKeeps
<1>7. ASSUME NEW b \in Refs,
             CommitLocally(b) \/ PushOrPull(b)
                \/ (b # Trunk /\ (MergeEpic(b) \/ DeleteEpic(b)))
      PROVE  EpicInv' /\ UNCHANGED <<state, wt>>
  <2>1. UNCHANGED <<declared, state, stamp, rootAt, wt, run, one>>
    BY <1>7 DEF CommitLocally, PushOrPull, MergeEpic, DeleteEpic, Untouched, boardVars
  <2>2. GitOK' /\ Grows
    BY <1>1, <1>7, OperatorGrows
  <2> QED
    BY <1>1, <2>1, <2>2, QuietKeeps
<1>8. \A b \in Branch : b \in Refs /\ b # Trunk
  BY EpicsAssumption DEF Refs
<1> QED
  BY <1>2, <1>3, <1>4, <1>5, <1>6, <1>7, <1>8

\* The batch picks a task: nothing of its dependencies crosses epics.
LEMMA PickStep ==
  ASSUME EpicInv, NEW t \in Ticket, Pick(t)
  PROVE  EpicInv' /\ UNCHANGED <<state, wt>>
<1>1. /\ run # Null /\ run \in Batches /\ run.cli \in Refs \cup {Null}
      /\ state[t] = "ready"
      /\ ~Mismatch(t, run.cli) /\ Crossing(t, BranchOf(t, run.cli), run.cli) = {}
  BY DEF Pick, Passes, Considers, EpicInv, EpicTypeOK, Batches
<1>2. PICK ref \in Refs : ref = BranchOf(t, run.cli) /\ stamp[t] \in {Null, ref}
  <2>1. stamp[t] = Null \/ ActiveBranch(t, run.cli) = stamp[t]
    BY <1>1 DEF Mismatch
  <2> QED
    BY <1>1, <2>1, Resolution DEF EpicInv
<1>3. /\ run' = [run EXCEPT !.fine = run.fine \cup {ref},
                           !.pick = [task |-> t, ref |-> ref]]
      /\ local' = Ensured(ref)
      /\ UNCHANGED <<declared, state, stamp, origin, remote, rootAt, wt, one>>
  BY <1>2 DEF Pick, boardVars
<1>4. ASSUME run.cli = Null, NEW u \in BlockersOf[t], state[u] = "merged"
      PROVE  stamp[u] = ref \/ u \in Reach(Trunk)
  <2>1. u \in Ticket
    BY EpicsAssumption
  <2>2. stamp[u] # Null
    BY <1>4, <2>1 DEF EpicInv, TicketSafe
  <2>3. BranchOf(u, run.cli) = stamp[u]
    BY <1>4, <2>1, <2>2, Resolution DEF EpicInv
  <2>4. stamp[u] = ref \/ u \in Contents(Tip(Trunk))
    BY <1>1, <1>2, <2>3 DEF Crossing
  <2> QED
    BY <2>4 DEF Reach
<1>5. /\ run' \in Batches /\ run'.cli = run.cli
      /\ run'.pick = [task |-> t, ref |-> ref]
  BY <1>1, <1>3 DEF Batches, Choice
<1>6. GitOK' /\ Grows
  BY <1>3, EnsuredGrows, GitIsOK DEF EpicInv
<1>7. EpicTypeOK'
  BY <1>3, <1>5, <1>6 DEF EpicInv, EpicTypeOK, GitOK
<1>8. \A u \in Ticket : TicketSafe(u)'
  BY <1>3, <1>6, KeepsSafe DEF EpicInv
<1>9. PickInv'
  <2>1. Reach(Trunk) \subseteq Reach(Trunk)'
    BY <1>6 DEF Grows, Refs
  <2>2. state'[t] = "ready" /\ stamp'[t] \in {Null, ref}
    BY <1>1, <1>2, <1>3
  <2>3. run'.cli = Null =>
          \A u \in BlockersOf[t] :
             state'[u] = "merged" => stamp'[u] = ref \/ u \in Reach(Trunk)'
    BY <1>3, <1>4, <1>5, <2>1
  <2>4. run'.pick.task = t /\ run'.pick.ref = ref
    BY <1>5
  <2> QED
    BY <2>2, <2>3, <2>4 DEF PickInv, PickSafe
<1> QED
  BY <1>3, <1>6, <1>7, <1>8, <1>9 DEF EpicInv, GitOK

\* What is settled stays so when only other states change.
LEMMA SettledStays ==
  ASSUME \A u \in Ticket : state[u] \in {"merged", "abandoned"} => state'[u] = state[u]
  PROVE  \A u \in Ticket : SettledIn(u, state) => SettledIn(u, state')
  BY DEF SettledIn

\* A task that gets its worktree: it is in progress, and stamped with the
\* branch that the worktree was cut from, unless a hand started it.
LEMMA StartedSafe ==
  ASSUME Null \notin Worktree, EpicTypeOK, Grows, NEW t \in Ticket, TicketSafe(t),
         NEW ref \in Refs, NEW c \in SUBSET Commits, NEW hand \in BOOLEAN,
         ~hand => stamp[t] \in {Null, ref} /\ c \subseteq Reach(ref),
         state'[t] = "in_progress", stamp' = Stamped(t, ref), wt' = Cut(t, c, hand)
  PROVE  TicketSafe(t)'
<1>1. stamp'[t] # Null /\ (~hand => stamp'[t] = ref)
  BY StampedTypes, EpicsAssumption
<1>2. /\ wt'[t] # Null
      /\ wt[t] = Null => wt'[t].has = c
      /\ wt[t] # Null => wt'[t].has = wt[t].has \cup c
  BY CutHas
<1>3. ASSUME ~wt'[t].hand PROVE wt'[t].has \subseteq Reach(stamp[t])'
  <2>0. ~hand /\ (wt[t] # Null => ~wt[t].hand)
    BY <1>3, CutHand
  <2>1. stamp'[t] = ref /\ c \subseteq Reach(ref)
    BY <1>1, <2>0
  <2>2. CASE wt[t] = Null
    BY <1>2, <2>1, <2>2 DEF Grows
  <2>3. CASE wt[t] # Null
    <3>1. stamp[t] = ref /\ wt[t].has \subseteq Reach(ref)
      BY <2>0, <2>3 DEF TicketSafe
    <3> QED
      BY <1>2, <2>1, <2>3, <3>1 DEF Grows
  <2> QED
    BY <2>2, <2>3
<1> QED
  BY <1>1, <1>2, <1>3 DEF TicketSafe

\* The batch spawns what it picked: the worktree is cut from the branch that
\* the task's stamp names from now on, and has every merged blocker's work.
LEMMA SpawnStep ==
  ASSUME Null \notin Worktree, EpicInv, Spawn
  PROVE  /\ EpicInv'
         /\ \A t \in Ticket : t # run.pick.task => state'[t] = state[t]
         /\ run.cli = Null =>
               \A u \in BlockersOf[run.pick.task] :
                  state[u] = "merged" =>
                     u \in wt'[run.pick.task].has \cup Contents(Tip(Trunk))
<1>1. run # Null /\ run.pick # Null /\ run \in Batches
  BY DEF Spawn, EpicInv, EpicTypeOK
<1>2. PICK t \in Ticket : t = run.pick.task
  BY <1>1 DEF Batches, Choice
<1>3. PICK ref \in Refs : ref = run.pick.ref
  BY <1>1 DEF Batches, Choice
<1>4. PICK c \in SUBSET Commits : c = Contents(Tip(ref))
  BY DEF EpicInv, EpicTypeOK, Tip, Contents
<1>5. PickSafe(t, ref) /\ TicketSafe(t)
  BY <1>1, <1>2, <1>3 DEF EpicInv, PickInv
<1>6. /\ state' = [state EXCEPT ![t] = "in_progress"]
      /\ stamp' = Stamped(t, ref) /\ wt' = Cut(t, c, FALSE)
      /\ run' = [run EXCEPT !.pick = Null]
      /\ UNCHANGED <<declared, local, origin, remote, rootAt, one>>
  BY <1>2, <1>3, <1>4 DEF Spawn, gitVars
<1>7. run' \in Batches /\ run'.pick = Null
  BY <1>1, <1>6 DEF Batches
<1>8. GitOK' /\ Grows
  BY <1>6, SameGrows, GitIsOK DEF EpicInv
<1>9. /\ wt' \in [Ticket -> Worktree \cup {Null}]
      /\ c \subseteq wt'[t].has
      /\ \A u \in Ticket : u # t => wt'[u] = wt[u]
  BY <1>6, CutHas DEF EpicInv
<1>10. /\ stamp' \in [Ticket -> Refs \cup {Null}]
       /\ \A u \in Ticket : u # t => stamp'[u] = stamp[u]
  BY <1>6, StampedTypes DEF EpicInv
<1>11. /\ state' \in [Ticket -> EpicStates]
       /\ state'[t] = "in_progress"
       /\ \A u \in Ticket : u # t => state'[u] = state[u]
  BY <1>6 DEF EpicInv, EpicTypeOK, EpicStates
<1>12. EpicTypeOK'
  BY <1>6, <1>7, <1>8, <1>9, <1>10, <1>11 DEF EpicInv, EpicTypeOK, GitOK
<1>13. TicketSafe(t)'
  BY <1>4, <1>5, <1>6, <1>8, <1>11, StartedSafe DEF EpicInv, PickSafe, Reach
<1>14. ASSUME NEW u \in Ticket, u # t PROVE TicketSafe(u)'
  <2>1. \A v \in Ticket : SettledIn(v, state) => SettledIn(v, state')
    BY <1>5, <1>11, SettledStays DEF PickSafe
  <2>2. state'[u] = state[u] /\ stamp'[u] = stamp[u] /\ wt'[u] = wt[u]
    BY <1>9, <1>10, <1>11, <1>14
  <2> QED
    BY <1>8, <2>1, <2>2, KeepsSafe DEF EpicInv
<1>15. EpicInv'
  BY <1>7, <1>8, <1>12, <1>13, <1>14 DEF EpicInv, GitOK, PickInv
<1>16. ASSUME run.cli = Null, NEW u \in BlockersOf[t], state[u] = "merged"
       PROVE  u \in wt'[t].has \cup Contents(Tip(Trunk))
  <2>1. u \in Ticket
    BY EpicsAssumption
  <2>2. u \in Reach(stamp[u])
    BY <1>16, <2>1 DEF EpicInv, TicketSafe
  <2>3. CASE stamp[u] = ref
    BY <1>4, <1>9, <2>2, <2>3 DEF Reach
  <2>4. CASE u \in Reach(Trunk)
    BY <2>4 DEF Reach
  <2> QED
    BY <1>5, <1>16, <2>3, <2>4 DEF PickSafe
<1> QED
  BY <1>2, <1>11, <1>15, <1>16

\* A ready task that is started, taken or given up, one state only changed.
LEMMA OthersSafe ==
  ASSUME EpicInv, Grows, NEW t \in Ticket, state[t] \notin {"merged", "abandoned"},
         NEW s \in EpicStates, state' = [state EXCEPT ![t] = s],
         \A u \in Ticket : u # t => stamp'[u] = stamp[u] /\ wt'[u] = wt[u]
  PROVE  /\ state' \in [Ticket -> EpicStates] /\ state'[t] = s
         /\ \A u \in Ticket : u # t => state'[u] = state[u]
         /\ \A u \in Ticket : SettledIn(u, state) => SettledIn(u, state')
         /\ \A u \in Ticket : u # t => TicketSafe(u)'
<1>1. /\ state' \in [Ticket -> EpicStates] /\ state'[t] = s
      /\ \A u \in Ticket : u # t => state'[u] = state[u]
  BY DEF EpicInv, EpicTypeOK
<1>2. \A u \in Ticket : SettledIn(u, state) => SettledIn(u, state')
  BY <1>1, SettledStays
<1>3. ASSUME NEW u \in Ticket, u # t PROVE TicketSafe(u)'
  <2>1. state'[u] = state[u] /\ stamp'[u] = stamp[u] /\ wt'[u] = wt[u]
    BY <1>1, <1>3
  <2> QED
    BY <1>2, <2>1, KeepsSafe DEF EpicInv
<1> QED
  BY <1>1, <1>2, <1>3

\* run-one starts a task, under a free lease.
LEMMA OneStartStep ==
  ASSUME Null \notin Worktree, EpicInv, OneStart
  PROVE  EpicInv' /\ run = Null
<1>1. run = Null /\ one # Null /\ one \in Ones
  BY DEF OneStart, LeaseFree, EpicInv, EpicTypeOK
<1>2. PICK t \in Ticket : t = one.task
  BY <1>1 DEF Ones
<1>3. PICK ref \in Refs : ref = one.ref
  BY <1>1 DEF Ones
<1>4. PICK home \in Refs : home = BranchOf(t, Null)
  BY Resolution DEF EpicInv
<1>5. /\ state[t] = "ready" /\ state' = [state EXCEPT ![t] = "in_progress"]
      /\ local' = Ensured(ref)
      /\ wt' = Cut(t, IF origin[ref] # Null THEN origin[ref]
                      ELSE Contents(local'[ref]), TRUE)
      /\ stamp' = Stamped(t, home)
      /\ one' = [one EXCEPT !.at = "running"]
      /\ UNCHANGED <<declared, origin, remote, rootAt, run>>
  BY <1>2, <1>3, <1>4 DEF OneStart
<1>6. GitOK' /\ Grows
  BY <1>5, EnsuredGrows, GitIsOK DEF EpicInv
<1>7. PICK c \in SUBSET Commits :
        c = IF origin[ref] # Null THEN origin[ref] ELSE Contents(local'[ref])
  BY <1>6 DEF EpicInv, EpicTypeOK, GitOK, Contents
<1>8. wt' = Cut(t, c, TRUE)
  BY <1>5, <1>7
<1>9. /\ wt' \in [Ticket -> Worktree \cup {Null}]
      /\ \A u \in Ticket : u # t => wt'[u] = wt[u]
  BY <1>8, CutHas DEF EpicInv
<1>10. /\ stamp' \in [Ticket -> Refs \cup {Null}]
       /\ \A u \in Ticket : u # t => stamp'[u] = stamp[u]
  BY <1>5, StampedTypes DEF EpicInv
<1>11. /\ state' \in [Ticket -> EpicStates] /\ state'[t] = "in_progress"
       /\ \A u \in Ticket : u # t => TicketSafe(u)'
  BY <1>5, <1>6, <1>9, <1>10, OthersSafe DEF EpicStates
<1>12. TicketSafe(t)'
  BY <1>5, <1>6, <1>8, <1>11, StartedSafe DEF EpicInv
<1>13. one' \in Ones
  BY <1>1, <1>5 DEF Ones
<1> QED
  BY <1>1, <1>5, <1>6, <1>9, <1>10, <1>11, <1>12, <1>13, FreeKeeps

\* aet next hands a task out, under a free lease.
LEMMA TakeStep ==
  ASSUME EpicInv, NEW t \in Ticket, Take(t)
  PROVE  EpicInv' /\ run = Null
<1>1. PICK home \in Refs : home = BranchOf(t, Null)
  BY Resolution DEF EpicInv
<1>2. /\ run = Null /\ state[t] = "ready" /\ state' = [state EXCEPT ![t] = "taken"]
      /\ stamp' = Stamped(t, home)
      /\ UNCHANGED <<declared, local, origin, remote, rootAt, wt, run, one>>
  BY <1>1 DEF Take, LeaseFree, gitVars
<1>3. GitOK' /\ Grows
  BY <1>2, SameGrows, GitIsOK DEF EpicInv
<1>4. /\ stamp' \in [Ticket -> Refs \cup {Null}]
      /\ stamp[t] # Null => stamp'[t] = stamp[t]
      /\ \A u \in Ticket : u # t => stamp'[u] = stamp[u]
  BY <1>2, StampedTypes DEF EpicInv
<1>5. /\ state' \in [Ticket -> EpicStates] /\ state'[t] = "taken"
      /\ \A u \in Ticket : u # t => TicketSafe(u)'
  BY <1>2, <1>3, <1>4, OthersSafe DEF EpicStates
<1>6. TicketSafe(t)'
  <2>1. CASE stamp[t] # Null
    BY <1>2, <1>3, <1>4, <1>5, <2>1, IdleSafe DEF EpicInv
  <2>2. CASE stamp[t] = Null
    <3>1. ~(wt[t] # Null /\ ~wt[t].hand)
      BY <2>2 DEF EpicInv, TicketSafe
    <3> QED
      BY <1>2, <1>5, <3>1 DEF TicketSafe
  <2> QED
    BY <2>1, <2>2
<1> QED
  BY <1>2, <1>3, <1>4, <1>5, <1>6, FreeKeeps DEF EpicInv, EpicTypeOK

\* A reset makes a task ready only when its blockers are settled.
LEMMA ResetStep ==
  ASSUME EpicInv, NEW t \in Ticket, NEW hard \in BOOLEAN, ResetTask(t, hard)
  PROVE  EpicInv' /\ run = Null
<1>1. PICK s \in EpicStates :
        /\ state' = [state EXCEPT ![t] = s] /\ s \in {"ready", "blocked"}
        /\ s = "ready" => \A u \in BlockersOf[t] : SettledIn(u, state)
  BY DEF ResetTask, EpicStates
<1>2. /\ run = Null /\ state[t] \notin {"merged", "abandoned"}
      /\ wt' = IF hard THEN [wt EXCEPT ![t] = Null] ELSE wt
      /\ UNCHANGED <<declared, stamp, local, origin, remote, rootAt, run, one>>
  BY DEF ResetTask, LeaseFree, gitVars
<1>3. GitOK' /\ Grows
  BY <1>2, SameGrows, GitIsOK DEF EpicInv
<1>4. /\ wt' \in [Ticket -> Worktree \cup {Null}] /\ wt'[t] \in {wt[t], Null}
      /\ \A u \in Ticket : u # t => wt'[u] = wt[u]
  BY <1>2 DEF EpicInv, EpicTypeOK
<1>5. /\ state' \in [Ticket -> EpicStates] /\ state'[t] = s
      /\ \A u \in Ticket : SettledIn(u, state) => SettledIn(u, state')
      /\ \A u \in Ticket : u # t => TicketSafe(u)'
  BY <1>1, <1>2, <1>3, <1>4, OthersSafe
<1>6. TicketSafe(t)'
  <2>1. BlockersOf[t] \subseteq Ticket
    BY EpicsAssumption
  <2> QED
    BY <1>1, <1>2, <1>3, <1>4, <1>5, <2>1, IdleSafe DEF EpicInv
<1> QED
  BY <1>2, <1>3, <1>4, <1>5, <1>6, FreeKeeps DEF EpicInv, EpicTypeOK

\* After a task settles, its dependents may be ready.
LEMMA RefreshSafe ==
  ASSUME EpicInv, Grows, NEW t \in Ticket, state[t] \notin {"merged", "abandoned"},
         NEW s \in {"merged", "abandoned"},
         state' = Refreshed([state EXCEPT ![t] = s]), stamp' = stamp,
         \A u \in Ticket : u # t => wt'[u] = wt[u]
  PROVE  /\ state' \in [Ticket -> EpicStates] /\ state'[t] = s
         /\ \A u \in Ticket : u # t /\ state[u] # "blocked" => state'[u] = state[u]
         /\ \A u \in Ticket : u # t => state'[u] = state[u] \/ state'[u] = "ready"
         /\ \A u \in Ticket : u # t => TicketSafe(u)'
<1> DEFINE st == [state EXCEPT ![t] = s]
<1>1. /\ st \in [Ticket -> EpicStates] /\ st[t] = s
      /\ \A u \in Ticket : u # t => st[u] = state[u]
  BY DEF EpicInv, EpicTypeOK, EpicStates
<1> HIDE DEF st
<1>2. /\ state' \in [Ticket -> EpicStates]
      /\ \A u \in Ticket :
            \/ state'[u] = st[u]
            \/ /\ st[u] = "blocked" /\ state'[u] = "ready"
               /\ \A v \in BlockersOf[u] : SettledIn(v, st)
  BY <1>1, RefreshedStates DEF st
<1>3. state'[t] = s
  BY <1>1, <1>2
<1>4. \A u \in Ticket : SettledIn(u, st) => SettledIn(u, state')
  BY <1>2 DEF SettledIn
<1>5. \A u \in Ticket : SettledIn(u, state) => SettledIn(u, state')
  BY <1>1, <1>4 DEF SettledIn
<1>6. ASSUME NEW u \in Ticket, u # t PROVE TicketSafe(u)'
  <2>1. CASE state'[u] = state[u]
    BY <1>5, <1>6, <2>1, KeepsSafe DEF EpicInv
  <2>2. CASE state'[u] = "ready" /\ \A v \in BlockersOf[u] : SettledIn(v, st)
    <3>1. \A v \in BlockersOf[u] : SettledIn(v, state')
      BY <1>4, <2>2, EpicsAssumption
    <3> QED
      BY <1>6, <2>2, <3>1, IdleSafe DEF EpicInv
  <2> QED
    BY <1>1, <1>2, <1>6, <2>1, <2>2
<1> QED
  BY <1>1, <1>2, <1>3, <1>6

\* A task is given up.
LEMMA AbandonStep ==
  ASSUME EpicInv, NEW t \in Ticket, Abandon(t)
  PROVE  EpicInv' /\ run = Null
<1>1. /\ run = Null /\ state[t] \notin {"merged", "abandoned"}
      /\ state' = Refreshed([state EXCEPT ![t] = "abandoned"])
      /\ UNCHANGED <<declared, stamp, local, origin, remote, rootAt, wt, run, one>>
  BY DEF Abandon, LeaseFree, gitVars
<1>2. GitOK' /\ Grows
  BY <1>1, SameGrows, GitIsOK DEF EpicInv
<1>3. /\ state' \in [Ticket -> EpicStates] /\ state'[t] = "abandoned"
      /\ \A u \in Ticket : u # t => TicketSafe(u)'
  BY <1>1, <1>2, RefreshSafe
<1>4. TicketSafe(t)'
  BY <1>1, <1>2, <1>3, IdleSafe DEF EpicInv
<1> QED
  BY <1>1, <1>2, <1>3, <1>4, FreeKeeps DEF EpicInv, EpicTypeOK

\* A task fails, also while the batch has picked another.
LEMMA FailStep ==
  ASSUME EpicInv, NEW t \in Ticket, Fail(t)
  PROVE  /\ EpicInv' /\ state[t] = "in_progress" /\ state'[t] # "in_progress"
         /\ \A u \in Ticket : u # t => state'[u] = state[u]
<1>1. /\ state[t] = "in_progress" /\ state' = [state EXCEPT ![t] = "failed"]
      /\ UNCHANGED <<declared, stamp, local, origin, remote, rootAt, wt, run, one>>
  BY DEF Fail, gitVars
<1>2. GitOK' /\ Grows
  BY <1>1, SameGrows, GitIsOK DEF EpicInv
<1>3. /\ state' \in [Ticket -> EpicStates] /\ state'[t] = "failed"
      /\ \A u \in Ticket : u # t => state'[u] = state[u] /\ TicketSafe(u)'
  BY <1>1, <1>2, OthersSafe DEF EpicStates
<1>4. TicketSafe(t)'
  BY <1>1, <1>2, <1>3, IdleSafe DEF EpicInv
<1>5. EpicTypeOK'
  BY <1>1, <1>2, <1>3 DEF EpicInv, EpicTypeOK, GitOK
<1>6. PickInv'
  BY <1>1, <1>2, <1>3, PickKeeps
<1> QED
  BY <1>1, <1>2, <1>3, <1>4, <1>5, <1>6 DEF EpicInv, GitOK

\* The task's work lands on the branch its stamp names.
LEMMA LandStep ==
  ASSUME Null \notin SUBSET Commits, EpicInv, NEW t \in Ticket, Land(t)
  PROVE  /\ EpicInv' /\ state[t] = "in_progress" /\ state'[t] # "in_progress"
         /\ \A u \in Ticket : u # t => state'[u] \in {state[u], "ready"}
<1>1. /\ state[t] = "in_progress" /\ stamp[t] # Null /\ stamp[t] \in Refs
      /\ wt[t] \in Worktree
  BY DEF Land, EpicInv, EpicTypeOK, TicketSafe
<1>2. PICK ref \in Refs : ref = stamp[t]
  BY <1>1
<1>3. BranchOf(t, Null) = ref
  BY <1>1, <1>2, Resolution DEF EpicInv
<1>4. Tip(ref) # Null /\ Tip(ref) \in SUBSET Commits
  BY <1>3 DEF Land, EpicInv, EpicTypeOK, Tip
<1>5. PICK new \in SUBSET Commits : new = Tip(ref) \cup wt[t].has \cup {t}
  BY <1>1, <1>4 DEF Worktree, Commits
<1>6. /\ remote \/ rootAt # ref
      /\ origin' = (IF remote THEN [origin EXCEPT ![ref] = new] ELSE origin)
      /\ local' = (IF rootAt = ref THEN local ELSE [local EXCEPT ![ref] = new])
  BY <1>3, <1>5 DEF Land
<1>7. /\ state' = Refreshed([state EXCEPT ![t] = "merged"])
      /\ wt' = [wt EXCEPT ![t] = Null]
      /\ UNCHANGED <<declared, stamp, remote, rootAt, run, one>>
  BY DEF Land
<1>8. GitOK
  BY GitIsOK DEF EpicInv
<1>9. GitOK' /\ Grows /\ new \subseteq Reach(ref)'
  BY <1>4, <1>5, <1>6, <1>7, <1>8, LandGrows
<1>10. /\ wt' \in [Ticket -> Worktree \cup {Null}] /\ wt'[t] = Null
       /\ \A u \in Ticket : u # t => wt'[u] = wt[u]
  BY <1>7 DEF EpicInv, EpicTypeOK
<1>11. /\ state' \in [Ticket -> EpicStates] /\ state'[t] = "merged"
       /\ \A u \in Ticket : u # t /\ state[u] # "blocked" => state'[u] = state[u]
       /\ \A u \in Ticket : u # t => state'[u] = state[u] \/ state'[u] = "ready"
       /\ \A u \in Ticket : u # t => TicketSafe(u)'
  BY <1>1, <1>7, <1>9, <1>10, RefreshSafe
<1>12. TicketSafe(t)'
  <2>1. stamp'[t] = ref /\ stamp'[t] # Null /\ t \in new
    BY <1>1, <1>2, <1>5, <1>7
  <2> QED
    BY <1>9, <1>10, <1>11, <2>1 DEF TicketSafe
<1>13. EpicTypeOK'
  BY <1>7, <1>9, <1>10, <1>11 DEF EpicInv, EpicTypeOK, GitOK
<1>14. PickInv'
  BY <1>1, <1>7, <1>9, <1>11, PickKeeps
<1> QED
  BY <1>1, <1>9, <1>11, <1>12, <1>13, <1>14 DEF EpicInv, GitOK

\* What a batch's start of a ready task has seen.
SeesBlockers ==
    \A t \in Ticket :
       /\ run # Null /\ run.cli = Null
       /\ state[t] = "ready" /\ state'[t] = "in_progress" /\ ~wt'[t].hand
       => \A u \in BlockersOf[t] :
             state[u] = "merged" => u \in wt'[t].has \cup Contents(Tip(Trunk))

\* Every step keeps the invariant, and starts dependents on their blockers.
LEMMA EpicStep ==
  ASSUME Null \notin SUBSET Commits, Null \notin Worktree, EpicInv, [EpicsNext]_epicVars
  PROVE  EpicInv' /\ SeesBlockers
<1>1. ASSUME UNCHANGED state PROVE SeesBlockers
  BY <1>1 DEF SeesBlockers
<1>2. ASSUME run = Null PROVE SeesBlockers
  BY <1>2 DEF SeesBlockers
<1>3. ASSUME NEW t \in Ticket, state[t] = "in_progress",
             \A u \in Ticket : u # t => state'[u] \in {state[u], "ready"}
      PROVE  SeesBlockers
  BY <1>3 DEF SeesBlockers
<1>4. CASE Spawn
  <2>1. run.pick.task \in Ticket
    BY <1>4 DEF Spawn, EpicInv, EpicTypeOK, Batches, Choice
  <2>2. \A t \in Ticket : t # run.pick.task => state'[t] = state[t]
    BY <1>4, SpawnStep
  <2>3. run.cli = Null =>
          \A u \in BlockersOf[run.pick.task] :
             state[u] = "merged" =>
                u \in wt'[run.pick.task].has \cup Contents(Tip(Trunk))
    BY <1>4, SpawnStep
  <2>4. EpicInv'
    BY <1>4, SpawnStep
  <2> QED
    BY <2>1, <2>2, <2>3, <2>4 DEF SeesBlockers
<1>5. CASE OneStart
  BY <1>2, <1>5, OneStartStep
<1>6. ASSUME NEW t \in Ticket, Pick(t) PROVE EpicInv' /\ SeesBlockers
  BY <1>1, <1>6, PickStep
<1>7. ASSUME NEW t \in Ticket,
             Take(t) \/ Abandon(t) \/ \E hard \in BOOLEAN : ResetTask(t, hard)
      PROVE  EpicInv' /\ SeesBlockers
  BY <1>2, <1>7, TakeStep, AbandonStep, ResetStep
<1>8. ASSUME NEW t \in Ticket, Fail(t) PROVE EpicInv' /\ SeesBlockers
  BY <1>3, <1>8, FailStep
<1>9. ASSUME NEW t \in Ticket, Land(t) PROVE EpicInv' /\ SeesBlockers
  BY <1>3, <1>9, LandStep
<1>10. ASSUME \/ \E cli \in Bases \cup {Null} : StartRun(cli)
              \/ \E t \in Ticket : SkipTask(t) \/ SkipBranch(t)
              \/ EndRun \/ OneEnds
              \/ \E t \in Ticket, cli \in Bases \cup {Null} : OneResolve(t, cli)
              \/ \E p \in Prd, b \in Branch \cup {Null} : Retarget(p, b)
              \/ \E b \in Refs : CommitLocally(b) \/ PushOrPull(b)
              \/ \E b \in Branch : MergeEpic(b) \/ DeleteEpic(b)
              \/ UNCHANGED epicVars
       PROVE  EpicInv' /\ SeesBlockers
  BY <1>1, <1>10, QuietSteps
<1> QED
  BY <1>4, <1>5, <1>6, <1>7, <1>8, <1>9, <1>10 DEF EpicsNext

\* The records, the branches and the worktrees keep their invariant
\* (branch_ref.py, cli/orchestrator.py).
THEOREM EpicsKeepInv ==
  ASSUME Null \notin SUBSET Commits, Null \notin Worktree
  PROVE  EpicsSpec => []EpicInv
BY EpicInit, EpicStep, PTL DEF EpicsSpec

\* A dependent that a batch starts without --base has the work of each merged
\* blocker, or that work is on trunk, for any tasks, PRDs, branches, edits of
\* the PRDs, resets and runs (_spawn_ready_tasks of cli/orchestrator.py).
THEOREM DependentsStartOnBlockers ==
  ASSUME Null \notin SUBSET Commits, Null \notin Worktree
  PROVE  EpicsSpec => DependentsSeeBlockers
<1>1. EpicInv /\ [EpicsNext]_epicVars =>
        [\A t \in Ticket :
           /\ run # Null /\ run.cli = Null
           /\ state[t] = "ready" /\ state'[t] = "in_progress" /\ ~wt'[t].hand
           => \A u \in BlockersOf[t] :
                 state[u] = "merged"
                 => u \in wt'[t].has \cup Contents(Tip(Trunk))]_epicVars
  BY EpicStep DEF SeesBlockers
<1> QED
  BY <1>1, EpicInit, EpicStep, PTL DEF EpicsSpec, DependentsSeeBlockers

\* Landing a task that a batch started carries no epic's unreleased work into
\* another, whatever its PRD names by then (integration_branch on the record).
THEOREM WorktreesStayInTheirEpic ==
  ASSUME Null \notin SUBSET Commits, Null \notin Worktree
  PROVE  EpicsSpec => []CarriesOnlyItsOwn
<1>1. ASSUME EpicInv PROVE CarriesOnlyItsOwn
  <2> SUFFICES ASSUME NEW t \in Ticket, state[t] = "in_progress", ~wt[t].hand
               PROVE  wt[t].has \cap Ticket
                        \subseteq Contents(Tip(BranchOf(t, Null))) \cup Contents(Tip(Trunk))
    BY DEF CarriesOnlyItsOwn
  <2>1. stamp[t] # Null /\ wt[t].has \subseteq Reach(stamp[t])
    BY <1>1 DEF EpicInv, TicketSafe
  <2>2. BranchOf(t, Null) = stamp[t]
    BY <1>1, <2>1, Resolution DEF EpicInv
  <2> QED
    BY <2>1, <2>2 DEF Reach
<1> QED
  BY <1>1, EpicsKeepInv, PTL
================================================================================
