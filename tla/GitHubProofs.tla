---------------------------- MODULE GitHubProofs ----------------------------
(***************************************************************************)
(* What the loop may rely on outside its own state: what the methods of    *)
(* the GitHub client return of it, what a question to the operator there   *)
(* promises, what the audit of the code files there, and what the records  *)
(* mirrored into the event log and the folds of it tell.  Each for any     *)
(* number of pull requests, workers, comments, violations, records,        *)
(* deaths and calls that fail.                                             *)
(***************************************************************************)
EXTENDS GitHubCalls, OperatorAsk, Audit, EventMirror,
        SequenceTheorems, FiniteSetTheorems, WellFoundedInduction, TLAPS

-----------------------------------------------------------------------------
(* The methods of the client: what they return, however their calls fail or   *)
(* lose their answers and whatever is done meanwhile.                         *)

Methods == [name : {"none", "repair", "merge", "post"}, pr : Nat,
            at : {"", "list", "threads", "enable", "merge", "head", "delete", "inline", "plain"},
            before : Nat, todo : SUBSET Pulls, single : SUBSET Pulls,
            listed : UNION {[S -> Pr] : S \in SUBSET Pulls},
            threads : UNION {[S -> SUBSET {"critic", "human"}] : S \in SUBSET Pulls}]

Told == [name : {"none", "repair", "merge", "post"}, pr : Nat, ok : BOOLEAN,
         how : {"", "auto", "squash", "none"}, prs : SUBSET Pulls, skips : SUBSET Pulls, faults : Nat]

(* Of the calls that failed the first costs nobody, each other one at most one. *)
Few(missed, faults) == Cardinality(missed) <= IF faults = 0 THEN 0 ELSE faults - 1

(* Whom a human holds back, and the method believes nobody does. *)
Unseen(m, by) == {n \in by : n \in DOMAIN m.threads /\ "human" \notin m.threads[n]}

WorldForm ==
    /\ gh \in [Pulls -> Pr]
    /\ posted \in 0..2 /\ ghFaults \in 0..MaxGhFaults
    /\ ghMoves \in 0..MaxGhMoves /\ methods \in 0..MaxMethods

(* The histories are true of GitHub as it is; a branch goes after the merge.  *)
WorldSound ==
    /\ held \subseteq HumanHolds(gh) /\ ready \subseteq IsReady(gh)
    /\ \A n \in Pulls : ~gh[n].branch => gh[n].state = "merged"

(* A step of a method is a step of that method. *)
StageSound(m) ==
    /\ m.name = "none" => m = NoMethod
    /\ m.at \in {"list", "threads"} => m.name = "repair"
    /\ m.at \in {"enable", "merge", "head", "delete"} => m.name = "merge" /\ m.pr \in Pulls
    /\ m.at \in {"inline", "plain"} => m.name = "post" /\ m.pr \in Pulls

(* A listing under way has, or will ask for, the threads of all who are held  *)
(* back, and has seen those of all but a few; nobody who was approved all     *)
(* through looks otherwise in it.                                             *)
ListingSound(m, by, good, faults) ==
    /\ m.at = "list" => m.todo = {} /\ m.single = {} /\ DOMAIN m.threads = {}
    /\ m.at = "threads" =>
        /\ DOMAIN m.listed = m.todo \cup m.single \cup DOMAIN m.threads
        /\ by \subseteq DOMAIN m.listed
        /\ m.single # {} => m.before < faults
        /\ Few(Unseen(m, by), faults - m.before)
        /\ \A n \in good \cap DOMAIN m.listed :
              m.listed[n].label = "none" /\ m.listed[n].merge = "clean"
        /\ \A n \in good \cap DOMAIN m.threads : "human" \notin m.threads[n]

(* The branch goes after the merge only. *)
MergeSound(m, g) == m.at \in {"head", "delete"} => g[m.pr].state = "merged"

(* A finding is posted without its line only after an answer was lost. *)
PostSound(m, n, faults) ==
    /\ m.at = "inline" => n = 0
    /\ m.at = "plain" => n <= 1 /\ (faults = m.before => n = 0)

MethodSound ==
    /\ method \in Methods /\ method.before <= ghFaults
    /\ StageSound(method) /\ ListingSound(method, held, ready, ghFaults)
    /\ MergeSound(method, gh) /\ PostSound(method, posted, ghFaults)

AnswerSound ==
    /\ answer \in Told
    /\ answer.how = "squash" =>
          answer.name = "merge" /\ answer.ok /\ answer.pr \in Pulls /\ gh[answer.pr].state = "merged"
    /\ HumanHeldBack /\ ApprovedLeftAlone /\ FindingLands

GitHubSound == WorldForm /\ WorldSound /\ MethodSound /\ AnswerSound

-----------------------------------------------------------------------------
(* Finite sets of pull requests. *)

LEMMA CardIs ==
    ASSUME NEW B \in SUBSET Pulls, NEW A \in SUBSET B
    PROVE  /\ Cardinality(A) \in Nat /\ Cardinality(B) \in Nat /\ Cardinality(A) <= Cardinality(B)
           /\ Cardinality(A) = Cardinality(B) => A = B
  <1>1. IsFiniteSet(B)
    BY GitHubAssumption, FS_Subset
  <1>2. IsFiniteSet(A)
    BY <1>1, FS_Subset
  <1>3. QED  BY <1>1, <1>2, FS_Subset, FS_CardinalityType

LEMMA FewerIsFew ==
    ASSUME NEW B \in SUBSET Pulls, NEW A \in SUBSET B, NEW faults \in Nat, Few(B, faults)
    PROVE  Few(A, faults)
  BY CardIs DEF Few

(* One more fault, one more missed; none is missed before the first. *)
LEMMA OneMoreIsFew ==
    ASSUME NEW B \in SUBSET Pulls, NEW n \in Pulls, NEW A \in SUBSET (B \cup {n}),
           NEW faults \in Nat \ {0}, Few(B, faults)
    PROVE  Few(A, faults + 1)
  <1>1. IsFiniteSet(B) /\ Cardinality(B) \in Nat
    BY GitHubAssumption, FS_Subset, FS_CardinalityType
  <1>2. Cardinality(B \cup {n}) <= Cardinality(B) + 1
    <2>1. CASE n \in B
      <3>1. Cardinality(B \cup {n}) = Cardinality(B)
        <4>1. B \cup {n} = B
          BY <2>1
        <4>2. QED  BY <4>1
      <3>2. PICK c \in Nat : c = Cardinality(B)
        BY <1>1
      <3>3. QED  BY <3>1, <3>2
    <2>2. CASE n \notin B
      <3>1. Cardinality(B \cup {n}) = Cardinality(B) + 1
        BY <1>1, <2>2, FS_AddElement
      <3>2. QED  BY <1>1, <3>1
    <2>3. QED  BY <2>1, <2>2
  <1>3. Cardinality(A) <= Cardinality(B \cup {n}) /\ Cardinality(A) \in Nat /\ Cardinality(B \cup {n}) \in Nat
    BY CardIs
  <1>4. QED  BY <1>1, <1>2, <1>3 DEF Few

LEMMA MoreFaultsIsFew ==
    ASSUME NEW B \in SUBSET Pulls, NEW faults \in Nat, NEW more \in Nat, faults <= more, Few(B, faults)
    PROVE  Few(B, more)
  BY CardIs DEF Few

LEMMA NoneIsFew == ASSUME NEW faults \in Nat PROVE Few({}, faults)
  BY FS_EmptySet DEF Few

-----------------------------------------------------------------------------
(* What a step keeps. *)

LEMMA Constants_ ==
    /\ NoMethod \in Methods /\ NoMethod.name = "none" /\ NoMethod.at = "" /\ NoMethod.before = 0
    /\ Untold \in Told /\ Untold.name = "none" /\ Untold.how = "" /\ Untold.prs = {} /\ Untold.faults = 0
  <1>1. [n \in {} |-> 0] \in [{} -> Pr] /\ [n \in {} |-> {}] \in [{} -> SUBSET {"critic", "human"}]
    OBVIOUS
  <1>2. [n \in {} |-> 0] \in UNION {[S -> Pr] : S \in SUBSET Pulls}
    BY <1>1
  <1>3. [n \in {} |-> {}] \in UNION {[S -> SUBSET {"critic", "human"}] : S \in SUBSET Pulls}
    BY <1>1
  <1>4. NoMethod \in Methods
    BY <1>2, <1>3 DEF NoMethod, Methods
  <1>5. QED  BY <1>4 DEF NoMethod, Untold, Told

LEMMA CalmSound == answer' = Untold => AnswerSound'
  BY Constants_ DEF AnswerSound, HumanHeldBack, ApprovedLeftAlone, FindingLands

LEMMA RestSound ==
    ASSUME method' = NoMethod, ghFaults' \in Nat
    PROVE  MethodSound'
  <1>1. /\ method' \in Methods /\ method'.at = "" /\ method'.before = 0
    BY Constants_
  <1>2. method'.before <= ghFaults'
    <2>1. PICK k \in Nat : k = ghFaults'
      OBVIOUS
    <2>2. 0 <= k
      BY <2>1
    <2>3. QED  BY <1>1, <2>1, <2>2
  <1>3. QED  BY <1>1, <1>2 DEF MethodSound, StageSound, ListingSound, MergeSound, PostSound

(* What the histories keep was in them, and is true of GitHub as it becomes. *)
Recalls ==
    /\ held' \subseteq held /\ held' \subseteq HumanHolds(gh')
    /\ ready' \subseteq ready /\ ready' \subseteq IsReady(gh')

LEMMA RemembersIs == Remembers => Recalls
  BY DEF Remembers, Recalls

LEMMA HistoriesSound ==
    ASSUME WorldForm, WorldSound, Recalls, gh' \in [Pulls -> Pr]
    PROVE  /\ held' \subseteq HumanHolds(gh') /\ ready' \subseteq IsReady(gh')
           /\ held' \subseteq held /\ ready' \subseteq ready
           /\ held \subseteq Pulls /\ ready \subseteq Pulls
  BY DEF WorldSound, Recalls, HumanHolds, IsReady

(* A method that rests, and an answer that is there, survive what GitHub does. *)
LEMMA MethodKept ==
    ASSUME GitHubSound, UNCHANGED <<method, posted, ghFaults>>, held' \subseteq held, ready' \subseteq ready,
           held \subseteq Pulls,
           \A n \in Pulls : gh[n].state = "merged" => gh'[n].state = "merged"
    PROVE  MethodSound'
  <1>1. /\ method \in Methods /\ method.before <= ghFaults /\ method.before \in Nat /\ ghFaults \in Nat
        /\ StageSound(method) /\ ListingSound(method, held, ready, ghFaults)
        /\ MergeSound(method, gh) /\ PostSound(method, posted, ghFaults)
    <2>1. method \in Methods /\ ghFaults \in 0..MaxGhFaults /\ MethodSound
      BY DEF GitHubSound, MethodSound, WorldForm
    <2>2. method.before \in Nat
      BY <2>1 DEF Methods
    <2>3. ghFaults \in Nat
      BY <2>1, GitHubAssumption
    <2>4. QED  BY <2>1, <2>2, <2>3 DEF MethodSound
  <1>2. ListingSound(method, held', ready', ghFaults)
    <2> SUFFICES ASSUME method.at = "threads" PROVE ListingSound(method, held', ready', ghFaults)
      BY <1>1 DEF ListingSound
    <2>1. Unseen(method, held') \subseteq Unseen(method, held) /\ Unseen(method, held) \subseteq Pulls
      BY DEF Unseen
    <2>2. Few(Unseen(method, held), ghFaults - method.before) /\ ghFaults - method.before \in Nat
      BY <1>1 DEF ListingSound
    <2>3. Few(Unseen(method, held'), ghFaults - method.before)
      BY <2>1, <2>2, FewerIsFew
    <2>4. QED  BY <1>1, <2>3 DEF ListingSound
  <1>3. MergeSound(method, gh')
    BY <1>1 DEF MergeSound, StageSound
  <1>4. QED  BY <1>1, <1>2, <1>3 DEF MethodSound

LEMMA AnswerKept ==
    ASSUME GitHubSound, UNCHANGED <<answer, posted>>, held' \subseteq held, ready' \subseteq ready,
           held \subseteq Pulls,
           \A n \in Pulls : gh[n].state = "merged" => gh'[n].state = "merged"
    PROVE  AnswerSound'
  <1>1. /\ answer \in Told /\ answer.faults \in Nat
        /\ HumanHeldBack /\ ApprovedLeftAlone /\ FindingLands
    BY DEF GitHubSound, AnswerSound, Told
  <1>2. HumanHeldBack'
    <2> SUFFICES ASSUME answer.name = "repair", answer.ok, Cardinality(answer.prs) # RepairLimit
                 PROVE  Few(held' \ answer.prs, answer.faults)
      BY DEF HumanHeldBack, Few
    <2>1. Few(held \ answer.prs, answer.faults)
      BY <1>1 DEF HumanHeldBack, Few
    <2>2. held' \ answer.prs \subseteq held \ answer.prs /\ held \ answer.prs \subseteq Pulls
      OBVIOUS
    <2>3. QED  BY <1>1, <2>1, <2>2, FewerIsFew
  <1>3. ApprovedLeftAlone'
    BY <1>1 DEF ApprovedLeftAlone
  <1>4. FindingLands'
    BY <1>1 DEF FindingLands
  <1>5. QED  BY <1>1, <1>2, <1>3, <1>4 DEF GitHubSound, AnswerSound

(* A call that fails or not. *)
LEMMA FaultsGrow ==
    ASSUME WorldForm, Fault \/ NoFault
    PROVE  /\ ghFaults' \in 0..MaxGhFaults /\ ghFaults \in Nat /\ ghFaults' \in Nat
           /\ Fault => ghFaults' = ghFaults + 1
           /\ NoFault => ghFaults' = ghFaults
           /\ ghFaults <= ghFaults'
  <1>1. MaxGhFaults \in Nat
    BY GitHubAssumption
  <1>2. QED  BY <1>1 DEF WorldForm, Fault, NoFault

LEMMA FaultsSince ==
    ASSUME WorldForm, MethodSound, Fault \/ NoFault
    PROVE  method.before <= ghFaults'
  <1>1. ghFaults' \in Nat /\ ghFaults <= ghFaults' /\ ghFaults \in Nat
    BY FaultsGrow
  <1>2. method.before \in Nat /\ method.before <= ghFaults
    BY DEF MethodSound, Methods
  <1>3. QED  BY <1>1, <1>2

(* A method that returns leaves an answer, which tells of the calls that failed. *)
LEMMA ReturnIs ==
    ASSUME WorldForm, MethodSound, Fault \/ NoFault, NEW t \in Told, Returns(t)
    PROVE  /\ MethodSound' /\ answer' \in Told
           /\ answer'.name = t.name /\ answer'.pr = t.pr /\ answer'.ok = t.ok /\ answer'.how = t.how
           /\ answer'.prs = t.prs /\ answer'.faults = ghFaults' - method.before
           /\ ghFaults' - method.before \in Nat
  <1>1. ghFaults' \in Nat /\ ghFaults <= ghFaults' /\ ghFaults \in Nat
    BY FaultsGrow
  <1>2. method.before \in Nat /\ method.before <= ghFaults
    BY DEF MethodSound, Methods
  <1>3. PICK k \in Nat : k = ghFaults' - method.before
    BY <1>1, <1>2
  <1>4. method' = NoMethod /\ answer' = [t EXCEPT !.faults = k]
    BY <1>3 DEF Returns
  <1>5. MethodSound'
    BY <1>1, <1>4, RestSound
  <1>6. QED  BY <1>3, <1>4, <1>5 DEF Told

LEMMA WithThreads ==
    ASSUME NEW m \in Methods,
           NEW f \in UNION {[S -> SUBSET {"critic", "human"}] : S \in SUBSET Pulls},
           NEW w, w = [m EXCEPT !.threads = f]
    PROVE  /\ w \in Methods /\ w.name = m.name /\ w.pr = m.pr /\ w.at = m.at /\ w.before = m.before
           /\ w.todo = m.todo /\ w.single = m.single /\ w.listed = m.listed /\ w.threads = f
  BY DEF Methods

(* Threads that were read, and threads that could not be. *)
LEMMA WithIs ==
    ASSUME WorldForm, NEW m \in Methods, NEW ns \in SUBSET Pulls
    PROVE  /\ With(m, ns) \in Methods
           /\ With(m, ns).name = m.name /\ With(m, ns).pr = m.pr /\ With(m, ns).at = m.at
           /\ With(m, ns).before = m.before /\ With(m, ns).todo = m.todo
           /\ With(m, ns).single = m.single /\ With(m, ns).listed = m.listed
           /\ DOMAIN With(m, ns).threads = DOMAIN m.threads \cup ns
           /\ \A n \in DOMAIN m.threads \cup ns :
                 With(m, ns).threads[n] = IF n \in ns THEN gh[n].threads ELSE m.threads[n]
  <1>1. PICK S \in SUBSET Pulls : m.threads \in [S -> SUBSET {"critic", "human"}]
    BY DEF Methods
  <1>2. \A n \in ns : gh[n].threads \in SUBSET {"critic", "human"}
    BY DEF WorldForm, Pr
  <1>3. PICK f : f = [n \in DOMAIN m.threads \cup ns |-> IF n \in ns THEN gh[n].threads ELSE m.threads[n]]
    OBVIOUS
  <1>4. f \in [S \cup ns -> SUBSET {"critic", "human"}] /\ S \cup ns \in SUBSET Pulls
    BY <1>1, <1>2, <1>3
  <1>5. f \in UNION {[T -> SUBSET {"critic", "human"}] : T \in SUBSET Pulls}
    BY <1>4
  <1>6. With(m, ns) = [m EXCEPT !.threads = f]
    BY <1>3 DEF With
  <1>7. PICK w : w = With(m, ns)
    OBVIOUS
  <1>8. /\ w \in Methods /\ w.name = m.name /\ w.pr = m.pr /\ w.at = m.at /\ w.before = m.before
        /\ w.todo = m.todo /\ w.single = m.single /\ w.listed = m.listed /\ w.threads = f
    BY <1>5, <1>6, <1>7, WithThreads
  <1>9. QED  BY <1>3, <1>7, <1>8

LEMMA WithoutIs ==
    ASSUME NEW m \in Methods, NEW ns \in SUBSET Pulls
    PROVE  /\ Without(m, ns) \in Methods
           /\ Without(m, ns).name = m.name /\ Without(m, ns).pr = m.pr /\ Without(m, ns).at = m.at
           /\ Without(m, ns).before = m.before /\ Without(m, ns).todo = m.todo
           /\ Without(m, ns).single = m.single /\ Without(m, ns).listed = m.listed
           /\ DOMAIN Without(m, ns).threads = DOMAIN m.threads \cup ns
           /\ \A n \in DOMAIN m.threads \cup ns :
                 Without(m, ns).threads[n] = IF n \in ns THEN {} ELSE m.threads[n]
  <1>1. PICK S \in SUBSET Pulls : m.threads \in [S -> SUBSET {"critic", "human"}]
    BY DEF Methods
  <1>2. PICK f : f = [n \in DOMAIN m.threads \cup ns |-> IF n \in ns THEN {} ELSE m.threads[n]]
    OBVIOUS
  <1>3. f \in [S \cup ns -> SUBSET {"critic", "human"}] /\ S \cup ns \in SUBSET Pulls
    BY <1>1, <1>2
  <1>4. f \in UNION {[T -> SUBSET {"critic", "human"}] : T \in SUBSET Pulls}
    BY <1>3
  <1>5. Without(m, ns) = [m EXCEPT !.threads = f]
    BY <1>2 DEF Without
  <1>6. PICK w : w = Without(m, ns)
    OBVIOUS
  <1>7. /\ w \in Methods /\ w.name = m.name /\ w.pr = m.pr /\ w.at = m.at /\ w.before = m.before
        /\ w.todo = m.todo /\ w.single = m.single /\ w.listed = m.listed /\ w.threads = f
    BY <1>4, <1>5, <1>6, WithThreads
  <1>8. QED  BY <1>2, <1>6, <1>7

-----------------------------------------------------------------------------
(* prs_requiring_repair. *)

(* A method m that goes on with the listing under way: with less to do, and   *)
(* no listing of its own.                                                     *)
Continues(m) ==
    /\ m \in Methods /\ m.name = method.name /\ m.at = method.at /\ m.before = method.before
    /\ m.listed = method.listed

LEMMA ListingNow ==
    ASSUME GitHubSound, method.at = "threads"
    PROVE  /\ DOMAIN method.listed = method.todo \cup method.single \cup DOMAIN method.threads
           /\ DOMAIN method.listed \in SUBSET Pulls /\ DOMAIN method.threads \in SUBSET Pulls
           /\ held \subseteq DOMAIN method.listed
           /\ method.single # {} => method.before < ghFaults
           /\ ghFaults \in Nat /\ method.before \in Nat /\ method.before <= ghFaults
           /\ ghFaults - method.before \in Nat
           /\ Few(Unseen(method, held), ghFaults - method.before)
           /\ \A n \in ready \cap DOMAIN method.listed :
                 method.listed[n].label = "none" /\ method.listed[n].merge = "clean"
           /\ \A n \in ready \cap DOMAIN method.threads : "human" \notin method.threads[n]
           /\ method \in Methods /\ method.name = "repair"
  <1>1. /\ method \in Methods /\ method.before <= ghFaults /\ StageSound(method)
        /\ ListingSound(method, held, ready, ghFaults) /\ ghFaults \in Nat
    BY DEF GitHubSound, MethodSound, WorldForm
  <1>2. method.before \in Nat /\ method.todo \subseteq Pulls /\ method.single \subseteq Pulls
    BY <1>1 DEF Methods
  <1>3. PICK S \in SUBSET Pulls : method.threads \in [S -> SUBSET {"critic", "human"}]
    BY <1>1 DEF Methods
  <1>4. DOMAIN method.threads \in SUBSET Pulls
    BY <1>3
  <1>5. QED  BY <1>1, <1>2, <1>4 DEF ListingSound, StageSound

LEMMA ReadSound ==
    ASSUME GitHubSound, method.at = "threads", NEW m, Continues(m), NEW ns \in SUBSET Pulls,
           m.threads = method.threads, m.single # {} => method.single # {},
           m.todo \cup m.single \cup ns = method.todo \cup method.single,
           UNCHANGED <<gh, posted>>, Recalls, Calm, method' = With(m, ns), NoFault
    PROVE  MethodSound'
  <1>1. /\ m \in Methods /\ WorldForm /\ WorldSound
        /\ gh' \in [Pulls -> Pr] /\ gh' = gh
    BY DEF Continues, GitHubSound, WorldForm
  <1>2. /\ method' \in Methods /\ method'.name = "repair" /\ method'.at = "threads"
        /\ method'.before = method.before /\ method'.todo = m.todo /\ method'.single = m.single
        /\ method'.listed = method.listed
        /\ DOMAIN method'.threads = DOMAIN method.threads \cup ns
        /\ \A n \in DOMAIN method.threads \cup ns :
              method'.threads[n] = IF n \in ns THEN gh[n].threads ELSE method.threads[n]
    BY <1>1, WithIs, ListingNow DEF Continues
  <1>3. /\ held' \subseteq HumanHolds(gh) /\ ready' \subseteq IsReady(gh)
        /\ held' \subseteq held /\ ready' \subseteq ready /\ held \subseteq Pulls
    BY <1>1, HistoriesSound
  <1>4. ghFaults' = ghFaults
    BY DEF NoFault
  <1>5. Few(Unseen(method', held'), ghFaults' - method'.before)
    <2>1. Unseen(method', held') \subseteq Unseen(method, held)
      BY <1>2, <1>3 DEF Unseen, HumanHolds
    <2>2. Unseen(method, held) \subseteq Pulls
      BY <1>3 DEF Unseen
    <2>3. QED  BY <1>2, <1>4, <2>1, <2>2, ListingNow, FewerIsFew
  <1>6. \A n \in ready' \cap DOMAIN method'.threads : "human" \notin method'.threads[n]
    <2>1. \A n \in IsReady(gh) : "human" \notin gh[n].threads
      BY DEF IsReady, is_approved_mergeable, human_unresolved_threads
    <2>2. QED  BY <1>2, <1>3, <2>1, ListingNow
  <1>7. DOMAIN method'.listed = method'.todo \cup method'.single \cup DOMAIN method'.threads
    BY <1>2, ListingNow
  <1>8. ListingSound(method', held', ready', ghFaults')
    BY <1>2, <1>3, <1>4, <1>5, <1>6, <1>7, ListingNow DEF ListingSound
  <1>9. QED  BY <1>2, <1>4, <1>8, ListingNow DEF MethodSound, StageSound, MergeSound, PostSound

LEMMA MissedSound ==
    ASSUME GitHubSound, method.at = "threads", NEW m, Continues(m), NEW n \in method.single,
           m.threads = method.threads, m.todo = method.todo, m.single = method.single \ {n},
           UNCHANGED <<gh, posted>>, Recalls, Calm, method' = Without(m, {n}), Fault
    PROVE  MethodSound'
  <1>1. /\ m \in Methods /\ WorldForm /\ WorldSound /\ {n} \in SUBSET Pulls
        /\ gh' \in [Pulls -> Pr] /\ gh' = gh
    BY ListingNow DEF Continues, GitHubSound, WorldForm
  <1>2. /\ method' \in Methods /\ method'.name = "repair" /\ method'.at = "threads"
        /\ method'.before = method.before /\ method'.todo = m.todo /\ method'.single = m.single
        /\ method'.listed = method.listed
        /\ DOMAIN method'.threads = DOMAIN method.threads \cup {n}
        /\ \A k \in DOMAIN method.threads \cup {n} :
              method'.threads[k] = IF k \in {n} THEN {} ELSE method.threads[k]
    BY <1>1, WithoutIs, ListingNow DEF Continues
  <1>3. /\ held' \subseteq held /\ ready' \subseteq ready /\ held \subseteq Pulls
    BY <1>1, HistoriesSound
  <1>4. ghFaults' = ghFaults + 1
    BY DEF Fault
  <1>5. PICK faults \in Nat \ {0} : faults = ghFaults - method.before
    BY ListingNow
  <1>6. Few(Unseen(method', held'), ghFaults' - method'.before)
    <2>1. Unseen(method', held') \subseteq Unseen(method, held) \cup {n}
      BY <1>2, <1>3 DEF Unseen
    <2>2. Unseen(method, held) \subseteq Pulls /\ n \in Pulls
      BY <1>1, <1>3 DEF Unseen
    <2>3. Few(Unseen(method', held'), faults + 1)
      BY <1>5, <2>1, <2>2, ListingNow, OneMoreIsFew
    <2>4. ghFaults' - method'.before = faults + 1
      BY <1>2, <1>4, <1>5, ListingNow
    <2>5. QED  BY <2>3, <2>4
  <1>7. \A k \in ready' \cap DOMAIN method'.threads : "human" \notin method'.threads[k]
    <2>1. \A k \in ready \cap DOMAIN method.threads : "human" \notin method.threads[k]
      BY ListingNow
    <2>2. QED  BY <1>2, <1>3, <2>1
  <1>8. DOMAIN method'.listed = method'.todo \cup method'.single \cup DOMAIN method'.threads
    <2>1. DOMAIN method.listed = method.todo \cup method.single \cup DOMAIN method.threads
      BY ListingNow
    <2>2. QED  BY <1>2, <2>1
  <1>9. method'.single # {} => method'.before < ghFaults'
    BY <1>2, <1>4, ListingNow
  <1>10. \A k \in ready' \cap DOMAIN method'.listed :
            method'.listed[k].label = "none" /\ method'.listed[k].merge = "clean"
    BY <1>2, <1>3, ListingNow
  <1>11. held' \subseteq DOMAIN method'.listed
    BY <1>2, <1>3, ListingNow
  <1>12. ListingSound(method', held', ready', ghFaults')
    BY <1>2, <1>6, <1>7, <1>8, <1>9, <1>10, <1>11 DEF ListingSound
  <1>13. QED  BY <1>2, <1>4, <1>12, ListingNow DEF MethodSound, StageSound, MergeSound, PostSound

-----------------------------------------------------------------------------
(* Steps. *)

LEMMA WorldStep ==
    ASSUME GitHubSound, gh' \in [Pulls -> Pr], Recalls, Fault \/ NoFault,
           UNCHANGED <<ghMoves, methods>>, posted' \in 0..2,
           \A n \in Pulls : ~gh'[n].branch => gh'[n].state = "merged"
    PROVE  WorldForm' /\ WorldSound'
  <1>1. WorldForm /\ WorldSound
    BY DEF GitHubSound
  <1>2. ghFaults' \in 0..MaxGhFaults
    BY <1>1, FaultsGrow
  <1>3. held' \subseteq HumanHolds(gh') /\ ready' \subseteq IsReady(gh')
    BY <1>1, HistoriesSound
  <1>4. WorldForm'
    BY <1>1, <1>2 DEF WorldForm
  <1>5. WorldSound'
    BY <1>3 DEF WorldSound
  <1>6. QED  BY <1>4, <1>5

LEMMA QuietStep ==
    ASSUME GitHubSound, UNCHANGED gh, Recalls, Quiet, Fault \/ NoFault
    PROVE  WorldForm' /\ WorldSound'
  <1>1. gh' \in [Pulls -> Pr] /\ posted' \in 0..2 /\ UNCHANGED <<ghMoves, methods>>
    BY DEF GitHubSound, WorldForm, Quiet
  <1>2. \A n \in Pulls : ~gh'[n].branch => gh'[n].state = "merged"
    BY DEF GitHubSound, WorldSound
  <1>3. QED  BY <1>1, <1>2, WorldStep

LEMMA CalmStep ==
    ASSUME GitHubSound, UNCHANGED gh, Recalls, Quiet, Fault \/ NoFault, Calm, MethodSound'
    PROVE  GitHubSound'
  BY QuietStep, CalmSound DEF GitHubSound, Calm

LEMMA CallForm ==
    ASSUME GitHubSound, NEW name, NEW n, NEW at, Call(name, n, at),
           \/ name = "repair" /\ n = 0 /\ at = "list"
           \/ name = "merge" /\ n \in Pulls /\ at = "enable"
           \/ name = "post" /\ n \in Pulls /\ at \in {"inline", "plain"}
    PROVE  GitHubSound'
  <1>1. /\ WorldForm /\ WorldSound /\ ghFaults \in Nat /\ ghFaults' = ghFaults /\ gh' = gh
        /\ answer' = Untold /\ posted' = 0 /\ methods' \in 0..MaxMethods /\ n \in Nat
        /\ held' = HumanHolds(gh) /\ ready' = IsReady(gh) /\ ghMoves' = ghMoves
    BY GitHubAssumption DEF GitHubSound, WorldForm, Call
  <1>2. WorldForm'
    BY <1>1 DEF WorldForm
  <1>3. WorldSound'
    BY <1>1 DEF WorldSound
  <1>4. PICK m : m = method'
    OBVIOUS
  <1>5. m = [NoMethod EXCEPT !.name = name, !.pr = n, !.at = at, !.before = ghFaults]
    BY <1>4 DEF Call
  <1>6. /\ m \in Methods /\ m.name = name /\ m.pr = n /\ m.at = at /\ m.before = ghFaults
        /\ m.todo = {} /\ m.single = {} /\ DOMAIN m.threads = {}
    <2>1. NoMethod \in Methods /\ NoMethod.todo = {} /\ NoMethod.single = {} /\ DOMAIN NoMethod.threads = {}
      BY Constants_ DEF NoMethod
    <2>2. QED  BY <1>1, <1>5, <2>1 DEF Methods
  <1>7. StageSound(m) /\ ListingSound(m, held', ready', ghFaults') /\ MergeSound(m, gh')
    BY <1>6 DEF StageSound, ListingSound, MergeSound
  <1>8. PostSound(m, posted', ghFaults')
    BY <1>1, <1>6 DEF PostSound
  <1>9. MethodSound'
    BY <1>1, <1>4, <1>6, <1>7, <1>8 DEF MethodSound
  <1>10. QED  BY <1>1, <1>2, <1>3, <1>9, CalmSound DEF GitHubSound

(* A listing that returns. *)
LEMMA ListingReturns ==
    ASSUME GitHubSound, UNCHANGED gh, Recalls, Quiet, Fault \/ NoFault,
           NEW t \in Told, t.name = "repair", t.how = "", Returns(t),
           t.ok => \/ Cardinality(t.prs) = RepairLimit
                   \/ Few(held' \ t.prs, ghFaults' - method.before),
           ready' \cap t.prs = {}
    PROVE  GitHubSound'
  <1>1. WorldForm /\ MethodSound
    BY DEF GitHubSound
  <1>2. /\ MethodSound' /\ answer' \in Told
        /\ answer'.name = "repair" /\ answer'.ok = t.ok /\ answer'.how = ""
        /\ answer'.prs = t.prs /\ answer'.faults = ghFaults' - method.before
    BY <1>1, ReturnIs
  <1>3. HumanHeldBack'
    BY <1>2 DEF HumanHeldBack, Few
  <1>4. ApprovedLeftAlone' /\ FindingLands'
    BY <1>2 DEF ApprovedLeftAlone, FindingLands
  <1>5. AnswerSound'
    BY <1>2, <1>3, <1>4 DEF AnswerSound
  <1>6. QED  BY <1>2, <1>5, QuietStep DEF GitHubSound

LEMMA ListSound == ASSUME GitHubSound, list_open_prs PROVE GitHubSound'
  <1>1. /\ UNCHANGED gh /\ Recalls /\ Quiet /\ (Fault \/ NoFault)
        /\ WorldForm /\ WorldSound /\ method.at = "list" /\ gh' \in [Pulls -> Pr] /\ gh' = gh
    <2>1. UNCHANGED gh /\ Quiet /\ (Fault \/ NoFault) /\ method.at = "list"
      BY DEF list_open_prs
    <2>2. \/ Remembers
          \/ \E prs \in SUBSET GhOpen :
                held' = held \cap prs \cap HumanHolds(gh) /\ ready' = ready \cap IsReady(gh)
      BY DEF list_open_prs, Firsts
    <2>3. Recalls
      BY <2>1, <2>2, RemembersIs DEF Recalls
    <2>4. QED  BY <2>1, <2>3 DEF GitHubSound, WorldForm
  <1>2. /\ held' \subseteq HumanHolds(gh) /\ ready' \subseteq IsReady(gh)
    BY <1>1, HistoriesSound
  <1>3. /\ method \in Methods /\ method.name = "repair" /\ method.before <= ghFaults /\ method.before \in Nat
        /\ method.single = {} /\ DOMAIN method.threads = {}
    BY <1>1 DEF GitHubSound, MethodSound, StageSound, ListingSound, Methods
  <1>4. ghFaults' \in Nat /\ ghFaults <= ghFaults' /\ ghFaults \in Nat /\ posted' = posted
    BY <1>1, FaultsGrow DEF Quiet
  <1>5. PICK gone \in Nat : gone = ghFaults' - method.before
    BY <1>3, <1>4
  <1>6. CASE held' = {} /\ Returns([Untold EXCEPT !.name = "repair", !.ok = TRUE])
    <2>1. PICK t : t = [Untold EXCEPT !.name = "repair", !.ok = TRUE]
      OBVIOUS
    <2>2. t \in Told /\ t.name = "repair" /\ t.how = "" /\ t.prs = {}
      BY <2>1 DEF Untold, Told
    <2>3. held' \ t.prs = {}
      BY <1>6
    <2>4. Few(held' \ t.prs, ghFaults' - method.before)
      BY <1>5, <2>3, NoneIsFew
    <2>5. Returns(t) /\ ready' \cap t.prs = {}
      BY <1>6, <2>1, <2>2
    <2>6. QED  BY <1>1, <2>2, <2>4, <2>5, ListingReturns
  <1>7. ASSUME NEW prs \in SUBSET GhOpen, held' \subseteq prs,
               Goes([method EXCEPT !.at = "threads", !.todo = prs, !.listed = [n \in prs |-> gh[n]]])
        PROVE  GitHubSound'
    <2>1. PICK f : f = [n \in prs |-> gh[n]]
      OBVIOUS
    <2>2. prs \in SUBSET Pulls /\ f \in [prs -> Pr]
      BY <1>1, <2>1 DEF GhOpen
    <2>3. f \in UNION {[S -> Pr] : S \in SUBSET Pulls}
      BY <2>2
    <2>4. PICK m : m = method'
      OBVIOUS
    <2>5. m = [method EXCEPT !.at = "threads", !.todo = prs, !.listed = f] /\ Calm
      BY <1>7, <2>1, <2>4 DEF Goes
    <2>6. /\ m \in Methods /\ m.at = "threads" /\ m.name = "repair" /\ m.todo = prs
          /\ m.single = {} /\ DOMAIN m.threads = {} /\ m.listed = f /\ m.before = method.before
      BY <1>3, <2>2, <2>3, <2>5 DEF Methods
    <2>7. Few(Unseen(m, held'), ghFaults' - m.before)
      <3>1. Unseen(m, held') = {}
        BY <2>6 DEF Unseen
      <3>2. QED  BY <1>5, <2>6, <3>1, NoneIsFew
    <2>8. DOMAIN m.listed = prs /\ held' \subseteq prs
      BY <1>7, <2>2, <2>6
    <2>9. \A n \in ready' \cap DOMAIN m.listed : m.listed[n].label = "none" /\ m.listed[n].merge = "clean"
      <3>1. \A n \in IsReady(gh) : gh[n].label = "none" /\ gh[n].merge = "clean"
        BY DEF IsReady, is_approved_mergeable
      <3>2. \A n \in DOMAIN m.listed : m.listed[n] = gh[n]
        BY <2>1, <2>6, <2>8
      <3>3. QED  BY <1>2, <3>1, <3>2
    <2>10. ListingSound(m, held', ready', ghFaults')
      BY <2>6, <2>7, <2>8, <2>9 DEF ListingSound
    <2>11. StageSound(m) /\ MergeSound(m, gh') /\ PostSound(m, posted', ghFaults')
      BY <2>6 DEF StageSound, MergeSound, PostSound
    <2>12. method'.before <= ghFaults'
      BY <1>3, <1>4, <2>4, <2>6
    <2>13. MethodSound'
      BY <2>4, <2>6, <2>10, <2>11, <2>12 DEF MethodSound
    <2>14. QED  BY <1>1, <2>5, <2>13, CalmStep
  <1>8. CASE Returns([Untold EXCEPT !.name = "repair"])
    <2>1. PICK t : t = [Untold EXCEPT !.name = "repair"]
      OBVIOUS
    <2>2. t \in Told /\ t.name = "repair" /\ t.how = "" /\ t.prs = {} /\ ~t.ok
      BY <2>1 DEF Untold, Told
    <2>3. Returns(t) /\ ready' \cap t.prs = {}
      BY <1>8, <2>1, <2>2
    <2>4. QED  BY <1>1, <2>2, <2>3, ListingReturns
  <1>9. CASE Fault /\ Returns([Untold EXCEPT !.name = "repair"])
    BY <1>8, <1>9
  <1>10. ASSUME NEW prs \in Firsts(GhOpen, ListedMost), held' = held \cap prs \cap HumanHolds(gh),
                IF prs = {} THEN Returns([Untold EXCEPT !.name = "repair", !.ok = TRUE])
                ELSE Goes([method EXCEPT !.at = "threads", !.todo = prs, !.listed = [n \in prs |-> gh[n]]])
         PROVE  GitHubSound'
    <2>1. prs \in SUBSET GhOpen /\ held' \subseteq prs
      BY <1>10 DEF Firsts
    <2>2. CASE prs = {}
      BY <1>6, <1>10, <2>1, <2>2
    <2>3. CASE prs # {}
      BY <1>7, <1>10, <2>1, <2>3
    <2>4. QED  BY <2>2, <2>3
  <1>11. QED  BY <1>9, <1>10 DEF list_open_prs

(* A batch that is read, or that fails: then its pull requests are read one   *)
(* by one, and that fault has cost nobody.                                    *)
LEMMA ChunkSound == ASSUME GitHubSound, _review_threads_chunk PROVE GitHubSound'
  <1>1. /\ UNCHANGED gh /\ Recalls /\ Quiet /\ UNCHANGED posted /\ WorldForm
        /\ method.at = "threads" /\ method.single = {} /\ gh' \in [Pulls -> Pr]
    BY RemembersIs DEF _review_threads_chunk, Quiet, GitHubSound, WorldForm
  <1>2. PICK chunk \in SUBSET method.todo :
            LET m == [method EXCEPT !.todo = @ \ chunk]
            IN \/ NoFault /\ Goes(With(m, chunk))
               \/ Fault /\ Goes(ChunkFails(m, chunk))
    BY DEF _review_threads_chunk, Firsts
  <1>3. PICK m : m = [method EXCEPT !.todo = @ \ chunk]
    OBVIOUS
  <1>4. method \in Methods /\ method.name = "repair"
    BY <1>1, ListingNow
  <1>5. /\ Continues(m) /\ m.threads = method.threads /\ m.single = {} /\ m.todo = method.todo \ chunk
        /\ m.at = "threads" /\ chunk \in SUBSET Pulls
    BY <1>1, <1>3, <1>4 DEF Continues, Methods
  <1>6. CASE NoFault /\ Goes(With(m, chunk))
    <2>1. m.todo \cup m.single \cup chunk = method.todo \cup method.single
      BY <1>1, <1>5
    <2>2. Calm /\ method' = With(m, chunk)
      BY <1>6 DEF Goes
    <2>3. MethodSound'
      BY <1>1, <1>5, <1>6, <2>1, <2>2, ReadSound
    <2>4. QED  BY <1>1, <1>6, <2>2, <2>3, CalmStep
  <1>7. CASE Fault /\ Goes(ChunkFails(m, chunk))
    <2>1. PICK f : f = method'
      OBVIOUS
    <2>2. f = [m EXCEPT !.single = chunk] /\ Calm
      BY <1>7, <2>1 DEF Goes, ChunkFails
    <2>3. /\ f \in Methods /\ f.name = "repair" /\ f.at = "threads" /\ f.before = method.before
          /\ f.todo = method.todo \ chunk /\ f.single = chunk
          /\ f.listed = method.listed /\ f.threads = method.threads
      BY <1>1, <1>4, <1>5, <2>2 DEF Continues, Methods
    <2>4. /\ held' \subseteq held /\ ready' \subseteq ready /\ held \subseteq Pulls
      BY <1>1, HistoriesSound DEF GitHubSound
    <2>5. ghFaults' = ghFaults + 1
      BY <1>7 DEF Fault
    <2>6. PICK faults \in Nat : faults = ghFaults - method.before
      BY <1>1, ListingNow
    <2>7. Few(Unseen(f, held'), ghFaults' - f.before)
      <3>1. Unseen(f, held') \subseteq Unseen(method, held) /\ Unseen(method, held) \subseteq Pulls
        BY <2>3, <2>4 DEF Unseen
      <3>2. Few(Unseen(f, held'), faults)
        BY <1>1, <2>6, <3>1, ListingNow, FewerIsFew
      <3>3. Unseen(f, held') \in SUBSET Pulls /\ faults + 1 \in Nat /\ faults <= faults + 1
        BY <2>6, <3>1
      <3>4. Few(Unseen(f, held'), faults + 1)
        BY <2>6, <3>2, <3>3, MoreFaultsIsFew
      <3>5. ghFaults' - f.before = faults + 1
        BY <1>1, <2>3, <2>5, <2>6, ListingNow
      <3>6. QED  BY <3>4, <3>5
    <2>8. DOMAIN f.listed = f.todo \cup f.single \cup DOMAIN f.threads /\ held' \subseteq DOMAIN f.listed
      BY <1>1, <2>3, <2>4, ListingNow
    <2>9. /\ \A n \in ready' \cap DOMAIN f.listed : f.listed[n].label = "none" /\ f.listed[n].merge = "clean"
          /\ \A n \in ready' \cap DOMAIN f.threads : "human" \notin f.threads[n]
      BY <1>1, <2>3, <2>4, ListingNow
    <2>10. f.before < ghFaults' /\ f.before <= ghFaults'
      BY <1>1, <2>3, <2>5, ListingNow
    <2>11. ListingSound(f, held', ready', ghFaults')
      BY <2>3, <2>7, <2>8, <2>9, <2>10 DEF ListingSound
    <2>12. StageSound(f) /\ MergeSound(f, gh') /\ PostSound(f, posted', ghFaults')
      BY <2>3 DEF StageSound, MergeSound, PostSound
    <2>13. MethodSound'
      BY <2>1, <2>3, <2>10, <2>11, <2>12 DEF MethodSound
    <2>14. QED  BY <1>1, <1>7, <2>2, <2>13, CalmStep
  <1>8. QED  BY <1>2, <1>3, <1>6, <1>7

LEMMA ThreadsSound == ASSUME GitHubSound, review_threads PROVE GitHubSound'
  <1>1. /\ UNCHANGED gh /\ Recalls /\ Quiet /\ UNCHANGED posted /\ method.at = "threads"
    BY RemembersIs DEF review_threads, Quiet
  <1>2. PICK n \in method.single :
            LET m == [method EXCEPT !.single = @ \ {n}]
            IN \/ NoFault /\ Goes(With(m, {n}))
               \/ Fault /\ Goes(Without(m, {n}))
    BY DEF review_threads
  <1>3. PICK m : m = [method EXCEPT !.single = @ \ {n}]
    OBVIOUS
  <1>4. method \in Methods
    BY <1>1, ListingNow
  <1>5. /\ Continues(m) /\ m.threads = method.threads /\ m.single = method.single \ {n}
        /\ m.todo = method.todo /\ {n} \in SUBSET Pulls
    BY <1>1, <1>2, <1>3, <1>4 DEF Continues, Methods
  <1>6. CASE NoFault /\ Goes(With(m, {n}))
    <2>1. m.todo \cup m.single \cup {n} = method.todo \cup method.single /\ (m.single # {} => method.single # {})
      BY <1>2, <1>5
    <2>2. Calm /\ method' = With(m, {n})
      BY <1>6 DEF Goes
    <2>3. MethodSound'
      BY <1>1, <1>5, <1>6, <2>1, <2>2, ReadSound
    <2>4. QED  BY <1>1, <1>6, <2>2, <2>3, CalmStep
  <1>7. CASE Fault /\ Goes(Without(m, {n}))
    <2>1. Calm /\ method' = Without(m, {n})
      BY <1>7 DEF Goes
    <2>2. MethodSound'
      BY <1>1, <1>2, <1>5, <1>7, <2>1, MissedSound
    <2>3. QED  BY <1>1, <1>7, <2>1, <2>2, CalmStep
  <1>8. QED  BY <1>2, <1>3, <1>6, <1>7

(* Who is held back and seen so is to be repaired; who was approved is not.   *)
LEMMA RepairsAre ==
    ASSUME GitHubSound, method.at = "threads", method.single = {}, method.todo = {}
    PROVE  /\ Repairs(method) \in SUBSET Pulls
           /\ held \ Repairs(method) \subseteq Unseen(method, held)
           /\ ready \cap Repairs(method) = {}
  <1>1. /\ DOMAIN method.listed = DOMAIN method.threads /\ DOMAIN method.listed \in SUBSET Pulls
        /\ held \subseteq DOMAIN method.listed
        /\ \A n \in ready \cap DOMAIN method.listed :
              /\ method.listed[n].label = "none" /\ method.listed[n].merge = "clean"
              /\ "human" \notin method.threads[n]
    BY ListingNow
  <1>2. ASSUME NEW n \in held, n \notin Unseen(method, held)
        PROVE  n \in Repairs(method)
    <2>1. n \in DOMAIN method.listed /\ "human" \in method.threads[n]
      BY <1>1, <1>2 DEF Unseen
    <2>2. ~is_approved_mergeable(method.listed[n], method.threads[n])
      BY <2>1 DEF is_approved_mergeable, human_unresolved_threads
    <2>3. "unresolved_review_threads" \in Reasons(method.listed[n], method.threads[n])
      BY <2>1, <2>2 DEF Reasons
    <2>4. QED  BY <2>1, <2>3 DEF Repairs
  <1>3. ASSUME NEW n \in ready \cap DOMAIN method.listed
        PROVE  n \notin Repairs(method)
    <2>1. is_approved_mergeable(method.listed[n], method.threads[n])
      BY <1>1 DEF is_approved_mergeable, human_unresolved_threads
    <2>2. Reasons(method.listed[n], method.threads[n]) = {}
      BY <1>1, <2>1 DEF Reasons
    <2>3. QED  BY <2>2 DEF Repairs
  <1>4. Repairs(method) \subseteq DOMAIN method.listed
    BY DEF Repairs
  <1>5. QED  BY <1>1, <1>2, <1>3, <1>4

LEMMA RepairSound == ASSUME GitHubSound, prs_requiring_repair PROVE GitHubSound'
  <1>1. /\ UNCHANGED gh /\ Recalls /\ Quiet /\ (Fault \/ NoFault) /\ ghFaults' = ghFaults
        /\ method.at = "threads" /\ method.single = {} /\ method.todo = {} /\ RepairLimit \in Nat
        /\ WorldForm /\ WorldSound /\ gh' \in [Pulls -> Pr]
    BY GitHubAssumption, RemembersIs DEF prs_requiring_repair, NoFault, GitHubSound, WorldForm
  <1>2. PICK prs \in Firsts(Repairs(method), RepairLimit) :
            Returns([Untold EXCEPT !.name = "repair", !.ok = TRUE, !.skips = Skips(method), !.prs = prs])
    BY DEF prs_requiring_repair
  <1>3. PICK t : t = [Untold EXCEPT !.name = "repair", !.ok = TRUE, !.skips = Skips(method), !.prs = prs]
    OBVIOUS
  <1>4. /\ Repairs(method) \in SUBSET Pulls /\ prs \in SUBSET Repairs(method)
        /\ held \ Repairs(method) \subseteq Unseen(method, held) /\ ready \cap Repairs(method) = {}
    BY <1>1, <1>2, RepairsAre DEF Firsts
  <1>5. Skips(method) \in SUBSET Pulls
    BY <1>1, ListingNow DEF Skips
  <1>6. t \in Told /\ t.name = "repair" /\ t.how = "" /\ t.prs = prs
    BY <1>3, <1>4, <1>5 DEF Untold, Told
  <1>7. /\ held' \subseteq held /\ ready' \subseteq ready /\ held \subseteq Pulls
    BY <1>1, HistoriesSound
  <1>8. \/ Cardinality(prs) = RepairLimit
        \/ Few(held' \ prs, ghFaults' - method.before)
    <2>1. CASE Cardinality(Repairs(method)) < RepairLimit
      <3>1. prs = Repairs(method)
        BY <1>2, <1>4, <2>1, CardIs DEF Firsts
      <3>2. held' \ prs \subseteq Unseen(method, held) /\ Unseen(method, held) \in SUBSET Pulls
        BY <1>4, <1>7, <3>1 DEF Unseen
      <3>3. Few(Unseen(method, held), ghFaults - method.before) /\ ghFaults - method.before \in Nat
        BY <1>1, ListingNow
      <3>4. Few(held' \ prs, ghFaults - method.before)
        BY <3>2, <3>3, FewerIsFew
      <3>5. QED  BY <1>1, <3>4
    <2>2. CASE ~(Cardinality(Repairs(method)) < RepairLimit)
      BY <1>2, <2>2 DEF Firsts
    <2>3. QED  BY <2>1, <2>2
  <1>9. ready' \cap t.prs = {}
    BY <1>4, <1>6, <1>7
  <1>10. Returns(t)
    BY <1>2, <1>3
  <1>11. QED  BY <1>1, <1>6, <1>8, <1>9, <1>10, ListingReturns

-----------------------------------------------------------------------------
(* ensure_pr_merged. *)

(* A step of it that returns or goes on: it says "squash" of what is merged,  *)
(* and comes to the branch only then.                                         *)
LEMMA MergeStep ==
    ASSUME GitHubSound, method.at \in {"enable", "merge", "head", "delete"},
           gh' \in [Pulls -> Pr], Recalls, Quiet, Fault \/ NoFault,
           \A n \in Pulls : ~gh'[n].branch => gh'[n].state = "merged",
           NEW ok \in BOOLEAN, NEW how \in {"", "auto", "squash", "none"}, NEW at \in {"merge", "head", "delete"},
           \/ Returns(Merged(method.pr, ok, how)) /\ (how = "squash" => ok /\ gh'[method.pr].state = "merged")
           \/ GoesOn(at) /\ (at \in {"head", "delete"} => gh'[method.pr].state = "merged")
    PROVE  GitHubSound'
  <1>1. /\ WorldForm /\ MethodSound /\ posted' \in 0..2 /\ UNCHANGED <<ghMoves, methods>>
    BY DEF GitHubSound, WorldForm, Quiet
  <1>2. /\ method \in Methods /\ method.name = "merge" /\ method.pr \in Pulls /\ method.pr \in Nat
        /\ method.before <= ghFaults /\ method.before \in Nat
    BY <1>1 DEF MethodSound, StageSound, Methods
  <1>3. WorldForm' /\ WorldSound'
    BY <1>1, WorldStep
  <1>4. CASE Returns(Merged(method.pr, ok, how)) /\ (how = "squash" => ok /\ gh'[method.pr].state = "merged")
    <2>1. PICK t : t = Merged(method.pr, ok, how)
      OBVIOUS
    <2>2. t \in Told /\ t.name = "merge" /\ t.pr = method.pr /\ t.ok = ok /\ t.how = how /\ t.prs = {}
      BY <1>2, <2>1 DEF Merged, Untold, Told
    <2>3. /\ MethodSound' /\ answer' \in Told /\ answer'.name = "merge"
          /\ answer'.pr = method.pr /\ answer'.ok = ok /\ answer'.how = how /\ answer'.prs = {}
      BY <1>1, <1>4, <2>1, <2>2, ReturnIs
    <2>4. HumanHeldBack' /\ ApprovedLeftAlone' /\ FindingLands'
      BY <2>3 DEF HumanHeldBack, ApprovedLeftAlone, FindingLands
    <2>5. AnswerSound'
      BY <1>2, <1>4, <2>3, <2>4 DEF AnswerSound
    <2>6. QED  BY <1>3, <2>3, <2>5 DEF GitHubSound
  <1>5. CASE GoesOn(at) /\ (at \in {"head", "delete"} => gh'[method.pr].state = "merged")
    <2>1. PICK m : m = method'
      OBVIOUS
    <2>2. m = [method EXCEPT !.at = at] /\ Calm
      BY <1>5, <2>1 DEF GoesOn, Goes
    <2>3. m \in Methods /\ m.name = "merge" /\ m.pr = method.pr /\ m.at = at /\ m.before = method.before
      BY <1>2, <2>2 DEF Methods
    <2>4. MergeSound(m, gh') /\ StageSound(m)
      BY <1>2, <1>5, <2>3 DEF MergeSound, StageSound
    <2>5. ListingSound(m, held', ready', ghFaults') /\ PostSound(m, posted', ghFaults')
      BY <2>3 DEF ListingSound, PostSound
    <2>6. m.before <= ghFaults'
      BY <1>1, <2>3, FaultsSince
    <2>7. MethodSound'
      BY <2>1, <2>3, <2>4, <2>5, <2>6 DEF MethodSound
    <2>8. AnswerSound'
      BY <2>2, CalmSound DEF Calm
    <2>9. QED  BY <1>3, <2>7, <2>8 DEF GitHubSound
  <1>6. QED  BY <1>4, <1>5

(* GitHub with one pull request changed. *)
LEMMA ChangeIs ==
    ASSUME GitHubSound, NEW n \in Pulls, NEW r \in Pr, gh' = [gh EXCEPT ![n] = r],
           ~r.branch => r.state = "merged", gh[n].state = "merged" => r.state = "merged"
    PROVE  /\ gh' \in [Pulls -> Pr] /\ gh'[n] = r
           /\ \A k \in Pulls : ~gh'[k].branch => gh'[k].state = "merged"
           /\ \A k \in Pulls : gh[k].state = "merged" => gh'[k].state = "merged"
  <1>1. gh \in [Pulls -> Pr] /\ \A k \in Pulls : ~gh[k].branch => gh[k].state = "merged"
    BY DEF GitHubSound, WorldForm, WorldSound
  <1>2. gh'[n] = r /\ \A k \in Pulls : k # n => gh'[k] = gh[k]
    BY <1>1
  <1>3. gh' \in [Pulls -> Pr]
    BY <1>1
  <1>4. QED  BY <1>1, <1>2, <1>3

LEMMA MergePr ==
    ASSUME GitHubSound, method.at \in {"enable", "merge", "head", "delete"}
    PROVE  /\ method.pr \in Pulls /\ gh[method.pr] \in Pr /\ gh \in [Pulls -> Pr]
           /\ (~gh[method.pr].branch => gh[method.pr].state = "merged")
           /\ \A n \in Pulls : ~gh[n].branch => gh[n].state = "merged"
           /\ (method.at \in {"head", "delete"} => gh[method.pr].state = "merged")
  BY DEF GitHubSound, WorldForm, WorldSound, MethodSound, StageSound, MergeSound

LEMMA EnableSound == ASSUME GitHubSound, enable_pr_auto_merge PROVE GitHubSound'
  <1>1. method.at = "enable" /\ Recalls /\ Quiet
    BY RemembersIs DEF enable_pr_auto_merge
  <1>2. PICK r : r = [gh[method.pr] EXCEPT !.armed = TRUE]
    OBVIOUS
  <1>3. r \in Pr /\ r.branch = gh[method.pr].branch /\ r.state = gh[method.pr].state
    BY <1>1, <1>2, MergePr DEF Pr
  <1>4. CASE UNCHANGED gh /\ NoFault /\ GoesOn("merge")
    <2>1. gh' \in [Pulls -> Pr] /\ \A n \in Pulls : ~gh'[n].branch => gh'[n].state = "merged"
      BY <1>1, <1>4, MergePr
    <2>2. QED  BY <1>1, <1>4, <2>1, MergeStep
  <1>5. CASE /\ gh' = [gh EXCEPT ![method.pr].armed = TRUE]
             /\ \/ NoFault /\ Returns(Merged(method.pr, TRUE, "auto"))
                \/ Fault /\ GoesOn("merge")
    <2>1. gh' = [gh EXCEPT ![method.pr] = r]
      BY <1>2, <1>5
    <2>2. gh' \in [Pulls -> Pr] /\ \A n \in Pulls : ~gh'[n].branch => gh'[n].state = "merged"
      BY <1>1, <1>3, <2>1, MergePr, ChangeIs
    <2>3. CASE NoFault /\ Returns(Merged(method.pr, TRUE, "auto"))
      BY <1>1, <2>2, <2>3, MergeStep
    <2>4. CASE Fault /\ GoesOn("merge")
      BY <1>1, <2>2, <2>4, MergeStep
    <2>5. QED  BY <1>5, <2>3, <2>4
  <1>6. QED  BY <1>4, <1>5 DEF enable_pr_auto_merge

LEMMA PullMerged == ASSUME GitHubSound, merge_pull_request PROVE GitHubSound'
  <1>1. method.at = "merge" /\ Recalls /\ Quiet
    BY RemembersIs DEF merge_pull_request
  <1>2. PICK r : r = [gh[method.pr] EXCEPT !.state = "merged", !.armed = FALSE]
    OBVIOUS
  <1>3. r \in Pr /\ r.state = "merged"
    BY <1>1, <1>2, MergePr DEF Pr
  <1>4. CASE UNCHANGED gh /\ (NoFault \/ Fault) /\ AfterRefusal(method.pr)
    <2>1. gh' \in [Pulls -> Pr] /\ \A n \in Pulls : ~gh'[n].branch => gh'[n].state = "merged"
      BY <1>1, <1>4, MergePr
    <2>2. Returns(Merged(method.pr, FALSE, "none"))
      BY <1>4 DEF AfterRefusal
    <2>3. QED  BY <1>1, <1>4, <2>1, <2>2, MergeStep
  <1>5. CASE /\ gh' = [gh EXCEPT ![method.pr].state = "merged", ![method.pr].armed = FALSE]
             /\ \/ NoFault /\ GoesOn("head")
                \/ Fault /\ AfterRefusal(method.pr)
    <2>1. gh' = [gh EXCEPT ![method.pr] = r]
      BY <1>1, <1>2, <1>5, MergePr
    <2>2. /\ gh' \in [Pulls -> Pr] /\ \A n \in Pulls : ~gh'[n].branch => gh'[n].state = "merged"
          /\ gh'[method.pr].state = "merged"
      BY <1>1, <1>3, <2>1, MergePr, ChangeIs
    <2>3. CASE NoFault /\ GoesOn("head")
      BY <1>1, <2>2, <2>3, MergeStep
    <2>4. CASE Fault /\ AfterRefusal(method.pr)
      <3>1. Returns(Merged(method.pr, FALSE, "none"))
        BY <2>4 DEF AfterRefusal
      <3>2. QED  BY <1>1, <2>2, <2>4, <3>1, MergeStep
    <2>5. QED  BY <1>5, <2>3, <2>4
  <1>6. QED  BY <1>4, <1>5 DEF merge_pull_request

LEMMA HeadSound == ASSUME GitHubSound, ReadHead PROVE GitHubSound'
  <1>1. method.at = "head" /\ Recalls /\ Quiet /\ UNCHANGED gh /\ (Fault \/ NoFault)
    BY RemembersIs DEF ReadHead
  <1>2. /\ gh' \in [Pulls -> Pr] /\ \A n \in Pulls : ~gh'[n].branch => gh'[n].state = "merged"
        /\ gh'[method.pr].state = "merged"
    BY <1>1, MergePr
  <1>3. CASE GoesOn("delete")
    BY <1>1, <1>2, <1>3, MergeStep
  <1>4. CASE Returns(Merged(method.pr, TRUE, "squash"))
    BY <1>1, <1>2, <1>4, MergeStep
  <1>5. QED  BY <1>3, <1>4 DEF ReadHead

LEMMA DeleteSound == ASSUME GitHubSound, delete_branch PROVE GitHubSound'
  <1>1. /\ method.at = "delete" /\ Recalls /\ Quiet /\ (Fault \/ NoFault)
        /\ Returns(Merged(method.pr, TRUE, "squash"))
    BY RemembersIs DEF delete_branch
  <1>2. gh[method.pr].state = "merged"
    BY <1>1, MergePr
  <1>3. /\ gh' \in [Pulls -> Pr] /\ \A n \in Pulls : ~gh'[n].branch => gh'[n].state = "merged"
        /\ gh'[method.pr].state = "merged"
    <2>1. CASE UNCHANGED gh
      BY <1>1, <2>1, MergePr
    <2>2. CASE gh' = Unbranched(method.pr)
      <3>1. PICK r : r = [gh[method.pr] EXCEPT !.branch = FALSE]
        OBVIOUS
      <3>2. r \in Pr /\ r.state = "merged"
        BY <1>1, <1>2, <3>1, MergePr DEF Pr
      <3>3. gh' = [gh EXCEPT ![method.pr] = r]
        <4>1. gh[method.pr] \in Pr /\ gh \in [Pulls -> Pr] /\ method.pr \in Pulls
          BY <1>1, MergePr
        <4>2. PICK n \in Pulls : n = method.pr
          BY <4>1
        <4>3. r = [gh[n] EXCEPT !.branch = FALSE, !.state = IF @ = "open" THEN "closed" ELSE @]
          BY <1>2, <3>1, <4>1, <4>2 DEF Pr
        <4>4. gh' = [gh EXCEPT ![n] = [gh[n] EXCEPT !.branch = FALSE, !.state = IF @ = "open" THEN "closed" ELSE @]]
          BY <2>2, <4>1, <4>2 DEF Unbranched, Pr
        <4>5. QED  BY <4>2, <4>3, <4>4
      <3>4. QED  BY <1>1, <3>2, <3>3, MergePr, ChangeIs
    <2>3. QED  BY <2>1, <2>2 DEF delete_branch
  <1>4. QED  BY <1>1, <1>3, MergeStep

-----------------------------------------------------------------------------
(* post_review_comment. *)

(* A step of it: it returns what is true of the finding, or goes on to post   *)
(* it without its line.                                                       *)
LEMMA PostStep ==
    ASSUME GitHubSound, method.at \in {"inline", "plain"}, UNCHANGED <<gh, ghMoves, methods>>, Recalls,
           Fault \/ NoFault, posted' \in 0..2, NEW ok \in BOOLEAN,
           \/ /\ Returns(Posted(method.pr, ok))
              /\ ok => posted' >= 1
              /\ ghFaults' = method.before => ok /\ posted' = 1
           \/ GoesOn("plain") /\ posted' <= 1 /\ (ghFaults' = method.before => posted' = 0)
    PROVE  GitHubSound'
  <1>1. /\ WorldForm /\ MethodSound /\ gh' \in [Pulls -> Pr]
        /\ \A n \in Pulls : ~gh'[n].branch => gh'[n].state = "merged"
    BY DEF GitHubSound, WorldForm, WorldSound
  <1>2. /\ method \in Methods /\ method.name = "post" /\ method.pr \in Pulls /\ method.pr \in Nat
        /\ method.before <= ghFaults /\ method.before \in Nat
    BY <1>1 DEF MethodSound, StageSound, Methods
  <1>3. WorldForm' /\ WorldSound'
    BY <1>1, WorldStep
  <1>4. CASE /\ Returns(Posted(method.pr, ok))
             /\ ok => posted' >= 1
             /\ ghFaults' = method.before => ok /\ posted' = 1
    <2>1. PICK t : t = Posted(method.pr, ok)
      OBVIOUS
    <2>2. t \in Told /\ t.name = "post" /\ t.ok = ok /\ t.how = "" /\ t.prs = {}
      BY <1>2, <2>1 DEF Posted, Untold, Told
    <2>3. /\ MethodSound' /\ answer' \in Told /\ answer'.name = "post"
          /\ answer'.ok = ok /\ answer'.how = "" /\ answer'.prs = {}
          /\ answer'.faults = ghFaults' - method.before
      BY <1>1, <1>4, <2>1, <2>2, ReturnIs
    <2>4. answer'.faults = 0 => ghFaults' = method.before
      <3>1. PICK a \in Nat, b \in Nat : a = ghFaults' /\ b = method.before
        BY <1>1, <1>2, FaultsGrow
      <3>2. a - b = 0 => a = b
        BY <3>1
      <3>3. QED  BY <2>3, <3>1, <3>2
    <2>5. FindingLands'
      BY <1>4, <2>3, <2>4 DEF FindingLands
    <2>6. HumanHeldBack' /\ ApprovedLeftAlone'
      BY <2>3 DEF HumanHeldBack, ApprovedLeftAlone
    <2>7. AnswerSound'
      BY <2>3, <2>5, <2>6 DEF AnswerSound
    <2>8. QED  BY <1>3, <2>3, <2>7 DEF GitHubSound
  <1>5. CASE GoesOn("plain") /\ posted' <= 1 /\ (ghFaults' = method.before => posted' = 0)
    <2>1. PICK m : m = method'
      OBVIOUS
    <2>2. m = [method EXCEPT !.at = "plain"] /\ Calm
      BY <1>5, <2>1 DEF GoesOn, Goes
    <2>3. m \in Methods /\ m.name = "post" /\ m.pr = method.pr /\ m.at = "plain" /\ m.before = method.before
      BY <1>2, <2>2 DEF Methods
    <2>4. MergeSound(m, gh') /\ StageSound(m) /\ ListingSound(m, held', ready', ghFaults')
      BY <1>2, <2>3 DEF MergeSound, StageSound, ListingSound
    <2>5. PostSound(m, posted', ghFaults')
      BY <1>5, <2>3 DEF PostSound
    <2>6. m.before <= ghFaults'
      BY <1>1, <2>3, FaultsSince
    <2>7. MethodSound'
      BY <2>1, <2>3, <2>4, <2>5, <2>6 DEF MethodSound
    <2>8. AnswerSound'
      BY <2>2, CalmSound DEF Calm
    <2>9. QED  BY <1>3, <2>7, <2>8 DEF GitHubSound
  <1>6. QED  BY <1>4, <1>5

LEMMA PostNow ==
    ASSUME GitHubSound
    PROVE  /\ method.before \in Nat /\ ghFaults \in Nat /\ method.before <= ghFaults /\ posted \in 0..2
           /\ method.at = "inline" => posted = 0
           /\ method.at = "plain" => posted <= 1 /\ (ghFaults = method.before => posted = 0)
  <1>1. /\ method \in Methods /\ method.before <= ghFaults /\ PostSound(method, posted, ghFaults)
        /\ ghFaults \in Nat /\ posted \in 0..2
    BY GitHubAssumption DEF GitHubSound, MethodSound, WorldForm
  <1>2. method.before \in Nat
    BY <1>1 DEF Methods
  <1>3. QED  BY <1>1, <1>2 DEF PostSound

LEMMA InlineSound == ASSUME GitHubSound, PostInline PROVE GitHubSound'
  <1>1. method.at = "inline" /\ UNCHANGED <<gh, ghMoves, methods>> /\ Recalls
    BY RemembersIs DEF PostInline
  <1>2. posted = 0 /\ method.before \in Nat /\ ghFaults \in Nat /\ method.before <= ghFaults
    BY <1>1, PostNow
  <1>3. CASE posted' = posted + 1 /\ NoFault /\ Returns(Posted(method.pr, TRUE))
    <2>1. posted' \in 0..2 /\ posted' >= 1 /\ (ghFaults' = method.before => posted' = 1)
      BY <1>2, <1>3
    <2>2. QED  BY <1>1, <1>3, <2>1, PostStep
  <1>4. CASE posted' = posted + 1 /\ Fault /\ InlineFails(method.pr)
    <2>1. posted' = 1 /\ posted' \in 0..2 /\ ghFaults' # method.before
      BY <1>2, <1>4 DEF Fault
    <2>2. GoesOn("plain") /\ posted' <= 1
      BY <1>4, <2>1 DEF InlineFails
    <2>3. QED  BY <1>1, <1>4, <2>1, <2>2, PostStep
  <1>5. CASE UNCHANGED posted /\ (NoFault \/ Fault) /\ InlineFails(method.pr)
    <2>1. posted' = 0 /\ posted' \in 0..2
      BY <1>2, <1>5
    <2>2. GoesOn("plain") /\ posted' <= 1
      BY <1>5, <2>1 DEF InlineFails
    <2>3. QED  BY <1>1, <1>5, <2>1, <2>2, PostStep
  <1>6. QED  BY <1>3, <1>4, <1>5 DEF PostInline

LEMMA PlainSound == ASSUME GitHubSound, PostPlain PROVE GitHubSound'
  <1>1. method.at = "plain" /\ UNCHANGED <<gh, ghMoves, methods>> /\ Recalls
    BY RemembersIs DEF PostPlain
  <1>2. /\ posted \in 0..2 /\ posted <= 1 /\ (ghFaults = method.before => posted = 0)
        /\ method.before \in Nat /\ ghFaults \in Nat /\ method.before <= ghFaults
    BY <1>1, PostNow
  <1>3. CASE posted' = posted + 1 /\ NoFault /\ Returns(Posted(method.pr, TRUE))
    <2>1. posted' \in 0..2 /\ posted' >= 1 /\ (ghFaults' = method.before => posted' = 1)
      BY <1>2, <1>3 DEF NoFault
    <2>2. QED  BY <1>1, <1>3, <2>1, PostStep
  <1>4. CASE (posted' = posted + 1 \/ UNCHANGED posted) /\ Fault /\ Returns(Posted(method.pr, FALSE))
    <2>1. posted' \in 0..2 /\ ghFaults' # method.before
      BY <1>2, <1>4 DEF Fault
    <2>2. QED  BY <1>1, <1>4, <2>1, PostStep
  <1>5. QED  BY <1>3, <1>4 DEF PostPlain

-----------------------------------------------------------------------------
(* What GitHub and people do keeps what is merged merged, and branches.       *)
LEMMA MovesSound == ASSUME GitHubSound, GitHubMoves PROVE GitHubSound'
  <1>1. /\ Recalls /\ UNCHANGED <<method, answer, posted, ghFaults, methods>>
        /\ ghMoves' = ghMoves + 1 /\ ghMoves < MaxGhMoves
    BY RemembersIs DEF GitHubMoves
  <1>2. /\ WorldForm /\ WorldSound /\ gh \in [Pulls -> Pr]
        /\ \A n \in Pulls : ~gh[n].branch => gh[n].state = "merged"
    BY DEF GitHubSound, WorldForm, WorldSound
  <1>3. PICK n \in GhOpen :
          \/ gh' = [gh EXCEPT ![n].state = "merged", ![n].armed = FALSE]
          \/ \E s \in {"clean", "dirty"} : gh' = [gh EXCEPT ![n].merge = s]
          \/ \E t \in SUBSET {"critic", "human"} : gh' = [gh EXCEPT ![n].threads = t]
          \/ \E b \in {"none", "critic:blocking"} : gh' = [gh EXCEPT ![n].label = b]
          \/ gh' = [gh EXCEPT ![n].state = "closed", ![n].armed = FALSE]
    BY DEF GitHubMoves
  <1>4. n \in Pulls /\ gh[n] \in Pr /\ gh[n].state = "open" /\ gh[n].branch
    BY <1>2, <1>3 DEF GhOpen
  <1>5. \E r \in Pr : r.branch /\ gh' = [gh EXCEPT ![n] = r]
    <2>1. CASE gh' = [gh EXCEPT ![n].state = "merged", ![n].armed = FALSE]
      <3>1. PICK r : r = [gh[n] EXCEPT !.state = "merged", !.armed = FALSE]
        OBVIOUS
      <3>2. r \in Pr /\ r.branch
        BY <1>4, <3>1 DEF Pr
      <3>3. gh' = [gh EXCEPT ![n] = r]
        BY <1>2, <1>4, <2>1, <3>1
      <3>4. QED  BY <3>2, <3>3
    <2>2. CASE gh' = [gh EXCEPT ![n].state = "closed", ![n].armed = FALSE]
      <3>1. PICK r : r = [gh[n] EXCEPT !.state = "closed", !.armed = FALSE]
        OBVIOUS
      <3>2. r \in Pr /\ r.branch
        BY <1>4, <3>1 DEF Pr
      <3>3. gh' = [gh EXCEPT ![n] = r]
        BY <1>2, <1>4, <2>2, <3>1
      <3>4. QED  BY <3>2, <3>3
    <2>3. ASSUME NEW s \in {"clean", "dirty"}, gh' = [gh EXCEPT ![n].merge = s]
          PROVE  \E r \in Pr : r.branch /\ gh' = [gh EXCEPT ![n] = r]
      <3>1. PICK r : r = [gh[n] EXCEPT !.merge = s]
        OBVIOUS
      <3>2. r \in Pr /\ r.branch /\ gh' = [gh EXCEPT ![n] = r]
        BY <1>4, <2>3, <3>1 DEF Pr
      <3>3. QED  BY <3>2
    <2>4. ASSUME NEW t \in SUBSET {"critic", "human"}, gh' = [gh EXCEPT ![n].threads = t]
          PROVE  \E r \in Pr : r.branch /\ gh' = [gh EXCEPT ![n] = r]
      <3>1. PICK r : r = [gh[n] EXCEPT !.threads = t]
        OBVIOUS
      <3>2. r \in Pr /\ r.branch /\ gh' = [gh EXCEPT ![n] = r]
        BY <1>4, <2>4, <3>1 DEF Pr
      <3>3. QED  BY <3>2
    <2>5. ASSUME NEW b \in {"none", "critic:blocking"}, gh' = [gh EXCEPT ![n].label = b]
          PROVE  \E r \in Pr : r.branch /\ gh' = [gh EXCEPT ![n] = r]
      <3>1. PICK r : r = [gh[n] EXCEPT !.label = b]
        OBVIOUS
      <3>2. r \in Pr /\ r.branch /\ gh' = [gh EXCEPT ![n] = r]
        BY <1>4, <2>5, <3>1 DEF Pr
      <3>3. QED  BY <3>2
    <2>6. QED  BY <1>3, <2>1, <2>2, <2>3, <2>4, <2>5
  <1>6. PICK r \in Pr : r.branch /\ gh' = [gh EXCEPT ![n] = r]
    BY <1>5
  <1>7. /\ gh' \in [Pulls -> Pr]
        /\ \A k \in Pulls : ~gh'[k].branch => gh'[k].state = "merged"
        /\ \A k \in Pulls : gh[k].state = "merged" => gh'[k].state = "merged"
    BY <1>4, <1>6, ChangeIs
  <1>8. /\ held' \subseteq HumanHolds(gh') /\ ready' \subseteq IsReady(gh')
        /\ held' \subseteq held /\ ready' \subseteq ready /\ held \subseteq Pulls
    BY <1>1, <1>2, <1>7, HistoriesSound
  <1>9. ghMoves' \in 0..MaxGhMoves
    BY <1>1, <1>2, GitHubAssumption DEF WorldForm
  <1>10. WorldForm' /\ WorldSound'
    BY <1>1, <1>2, <1>7, <1>8, <1>9 DEF WorldForm, WorldSound
  <1>11. MethodSound'
    BY <1>1, <1>7, <1>8, MethodKept
  <1>12. AnswerSound'
    BY <1>1, <1>7, <1>8, AnswerKept
  <1>13. QED  BY <1>10, <1>11, <1>12 DEF GitHubSound

LEMMA StillSound == ASSUME GitHubSound, UNCHANGED githubVars PROVE GitHubSound'
  <1>1. /\ WorldForm /\ WorldSound /\ held \subseteq Pulls
        /\ UNCHANGED <<gh, method, answer, held, ready, posted, ghFaults, ghMoves, methods>>
    BY DEF GitHubSound, WorldSound, HumanHolds, githubVars
  <1>2. WorldForm' /\ WorldSound'
    BY <1>1 DEF WorldForm, WorldSound
  <1>3. \A n \in Pulls : gh[n].state = "merged" => gh'[n].state = "merged"
    BY <1>1
  <1>4. MethodSound'
    BY <1>1, <1>3, MethodKept
  <1>5. AnswerSound'
    BY <1>1, <1>3, AnswerKept
  <1>6. QED  BY <1>2, <1>4, <1>5 DEF GitHubSound

LEMMA BegunSound == ASSUME GitHubInit PROVE GitHubSound
  <1>1. /\ gh \in [Pulls -> Pr] /\ \A n \in Pulls : ~gh[n].branch => gh[n].state = "merged"
        /\ method = NoMethod /\ answer = Untold /\ held = {} /\ ready = {} /\ posted = 0
        /\ ghFaults = 0 /\ ghMoves = 0 /\ methods = 0
    BY GitHubAssumption DEF GitHubInit
  <1>2. WorldForm /\ WorldSound
    BY <1>1, GitHubAssumption DEF WorldForm, WorldSound
  <1>3. method \in Methods /\ method.at = "" /\ method.before = 0
    BY <1>1, Constants_
  <1>4. MethodSound
    <2>1. method.before <= ghFaults
      <3>1. method.before = 0
        BY <1>3
      <3>2. ghFaults = 0
        BY <1>1
      <3>3. QED  BY <3>1, <3>2
    <2>2. StageSound(method) /\ MergeSound(method, gh) /\ PostSound(method, posted, ghFaults)
      BY <1>1, <1>3 DEF StageSound, MergeSound, PostSound
    <2>3. ListingSound(method, held, ready, ghFaults)
      BY <1>3 DEF ListingSound
    <2>4. QED  BY <1>3, <2>1, <2>2, <2>3 DEF MethodSound
  <1>5. AnswerSound
    BY <1>1, Constants_ DEF AnswerSound, HumanHeldBack, ApprovedLeftAlone, FindingLands
  <1>6. QED  BY <1>2, <1>4, <1>5 DEF GitHubSound

LEMMA StepsSound == ASSUME GitHubSound, [GitHubNext]_githubVars PROVE GitHubSound'
  <1>1. CASE Call("repair", 0, "list")
    BY <1>1, CallForm
  <1>2. CASE \E n \in Pulls : \/ Call("merge", n, "enable")
                             \/ \E at \in {"inline", "plain"} : Call("post", n, at)
    <2>1. ASSUME NEW n \in Pulls, Call("merge", n, "enable")
          PROVE  GitHubSound'
      BY <2>1, CallForm
    <2>2. ASSUME NEW n \in Pulls, NEW at \in {"inline", "plain"}, Call("post", n, at)
          PROVE  GitHubSound'
      BY <2>2, CallForm
    <2>3. QED  BY <1>2, <2>1, <2>2
  <1>3. CASE list_open_prs  BY <1>3, ListSound
  <1>4. CASE _review_threads_chunk  BY <1>4, ChunkSound
  <1>5. CASE review_threads  BY <1>5, ThreadsSound
  <1>6. CASE prs_requiring_repair  BY <1>6, RepairSound
  <1>7. CASE enable_pr_auto_merge  BY <1>7, EnableSound
  <1>8. CASE merge_pull_request  BY <1>8, PullMerged
  <1>9. CASE ReadHead  BY <1>9, HeadSound
  <1>10. CASE delete_branch  BY <1>10, DeleteSound
  <1>11. CASE PostInline  BY <1>11, InlineSound
  <1>12. CASE PostPlain  BY <1>12, PlainSound
  <1>13. CASE GitHubMoves  BY <1>13, MovesSound
  <1>14. CASE UNCHANGED githubVars  BY <1>14, StillSound
  <1>15. QED
    BY <1>1, <1>2, <1>3, <1>4, <1>5, <1>6, <1>7, <1>8, <1>9, <1>10, <1>11, <1>12, <1>13, <1>14
    DEF GitHubNext

LEMMA SoundIsInv == GitHubSound => GitHubInv
  <1> SUFFICES ASSUME GitHubSound PROVE GitHubInv
    OBVIOUS
  <1>1. GitHubTypeOK
    BY DEF GitHubSound, WorldForm, WorldSound, MethodSound, StageSound, AnswerSound,
           GitHubTypeOK, HumanHolds, IsReady
  <1>2. MergedIsTrue
    BY DEF GitHubSound, WorldSound, AnswerSound, MergedIsTrue
  <1>3. QED  BY <1>1, <1>2 DEF GitHubSound, AnswerSound, GitHubInv

(* What the client's methods return is true of GitHub, whichever of their     *)
(* calls fail or lose their answer and whatever GitHub and people do          *)
(* meanwhile, for any repository, batch and limit (gh_client.py, gh_issues.py). *)
THEOREM CallsAreTrue == GitHubSpec => []GitHubInv
  <1>1. GitHubInit => GitHubSound
    BY BegunSound
  <1>2. GitHubSound /\ [GitHubNext]_githubVars => GitHubSound'
    BY StepsSound
  <1>3. QED  BY <1>1, <1>2, SoundIsInv, PTL DEF GitHubSpec

-----------------------------------------------------------------------------
(* The questions: the sleeps are cut at the deadline, nothing said before the *)
(* question is its answer, and an answer in time is found, one poll late for  *)
(* each call that failed.                                                     *)

(* How late after an answer the next poll may be. *)
Grace == poll_interval_s * (askMishaps + 1)

LEMMA GraceBounds ==
    ASSUME askMishaps \in Nat
    PROVE  /\ Grace \in Nat /\ poll_interval_s \in Nat /\ poll_interval_s <= Grace
           /\ askMishaps' = askMishaps + 1 => Grace' = Grace + poll_interval_s
           /\ askMishaps' = askMishaps => Grace' = Grace
  <1>1. poll_interval_s \in Nat
    BY AskAssumption
  <1>2. \A p, n \in Nat : /\ p * (n + 1) = p * n + p /\ p * n \in Nat /\ p * n >= 0
                         /\ p * ((n + 1) + 1) = p * (n + 1) + p
    OBVIOUS
  <1>3. QED  BY <1>1, <1>2 DEF Grace

(* The comments that a poll reads, those of them that may answer a call, and  *)
(* those that were given since it began: none else if the loop's clock is not *)
(* behind.                                                                    *)
Visible(cs) == 1..Smaller(Len(cs), PageSize)
Replies(a, cs) == {k \in Visible(cs) : cs[k].at > a.started /\ cs[k].option \in Options}
Prompt(a, cs) == {k \in Replies(a, cs) : cs[k].at >= a.began}

Asking == [pc : {"idle", "wait", "answered", "timeout"}, q : Nat, began : Nat, started : Int,
         deadline : Nat, wake : Nat, answer : Nat]

(* A call a, when the comments are cs and the time is now: a worker that      *)
(* waits is to poll by its deadline, within a poll interval, and no more than *)
(* `grace` after a reply it may read; one that gave up had none in time.  Its  *)
(* clock is ahead of GitHub's by `ahead`.                                     *)
CallSound(a, cs, now, grace, ahead) ==
    /\ a \in Asking /\ a.answer \in 0..Len(cs)
    /\ a.pc = "wait" =>
          /\ a.started = a.began + ahead
          /\ now <= a.wake /\ a.wake <= a.deadline /\ a.wake <= now + poll_interval_s
          /\ \A k \in Prompt(a, cs) : a.wake <= cs[k].at + grace
    /\ a.pc = "answered" =>
          /\ a.answer \in 1..Len(cs)
          /\ cs[a.answer].at > a.began + ahead /\ cs[a.answer].option \in Options
    /\ a.pc = "timeout" =>
          /\ a.deadline <= now
          /\ \A k \in Prompt(a, cs) : a.deadline <= cs[k].at + grace

CommentsSound(cs, n, now) ==
    /\ cs \in Seq([at : 0..MaxNow, option : Options \cup {"none"}, meant : 0..n])
    /\ \A k \in 1..Len(cs) : cs[k].at <= now

CountersSound ==
    /\ clock \in 0..MaxNow /\ skew \in Skews
    /\ asks \in 0..MaxAsks /\ says \in 0..MaxSays /\ askMishaps \in 0..MaxMishaps

AskSound ==
    /\ CountersSound
    /\ CommentsSound(comments, asks, clock)
    /\ asking = [w \in Askers |-> asking[w]]
    /\ \A w \in Askers : CallSound(asking[w], comments, clock, Grace, skew)

LEMMA VisibleIs ==
    ASSUME NEW S, NEW cs \in Seq(S)
    PROVE  /\ Len(cs) \in Nat /\ Visible(cs) \subseteq 1..Len(cs)
           /\ Visible(cs) = {k \in 1..Len(cs) : k <= PageSize}
  BY AskAssumption DEF Visible, Smaller

-----------------------------------------------------------------------------
(* What is said and what fails does not harm a call. *)

(* A comment more, of now: no call that is open has to be late for it.        *)
LEMMA CommentKeeps ==
    ASSUME NEW now \in Nat, NEW S, NEW cs \in Seq(S), NEW c \in S, c.at = now, NEW grace \in Nat,
           poll_interval_s \in Nat, poll_interval_s <= grace,
           \A k \in 1..Len(cs) : cs[k].at \in Nat,
           NEW ahead, NEW a, CallSound(a, cs, now, grace, ahead)
    PROVE  CallSound(a, Append(cs, c), now, grace, ahead)
  <1>1. PICK ds : ds = Append(cs, c)
    OBVIOUS
  <1>2. /\ ds \in Seq(S) /\ Len(ds) = Len(cs) + 1 /\ ds[Len(cs) + 1] = c
        /\ \A k \in 1..Len(cs) : ds[k] = cs[k]
    BY <1>1, AppendProperties
  <1>3. Len(cs) \in Nat
    BY LenProperties
  <1>4. \A k \in Visible(ds) : k \in Visible(cs) \/ k = Len(cs) + 1
    <2>1. /\ Visible(cs) = {k \in 1..Len(cs) : k <= PageSize}
          /\ Visible(ds) = {k \in 1..Len(ds) : k <= PageSize}
      BY <1>2, VisibleIs
    <2>2. QED  BY <1>2, <1>3, <2>1
  <1>5. \A k \in Visible(cs) : ds[k] = cs[k]
    BY <1>2, VisibleIs
  <1>6. ASSUME NEW k \in Prompt(a, ds) PROVE k \in Prompt(a, cs) \/ (k = Len(cs) + 1 /\ ds[k].at = now)
    BY <1>2, <1>4, <1>5, <1>6 DEF Prompt, Replies
  <1>7. \A k \in Prompt(a, cs) : ds[k] = cs[k]
    BY <1>5 DEF Prompt, Replies
  <1>8. a.pc = "wait" => \A k \in Prompt(a, ds) : a.wake <= ds[k].at + grace
    <2> SUFFICES ASSUME a.pc = "wait", NEW k \in Prompt(a, ds) PROVE a.wake <= ds[k].at + grace
      OBVIOUS
    <2>1. a.wake <= now + poll_interval_s /\ a.wake \in Nat
      BY DEF CallSound, Asking
    <2>2. CASE k \in Prompt(a, cs)
      BY <1>7, <2>2 DEF CallSound
    <2>3. CASE ds[k].at = now
      BY <2>1, <2>3
    <2>4. QED  BY <1>6, <2>2, <2>3
  <1>9. a.pc = "timeout" => \A k \in Prompt(a, ds) : a.deadline <= ds[k].at + grace
    <2> SUFFICES ASSUME a.pc = "timeout", NEW k \in Prompt(a, ds)
                 PROVE  a.deadline <= ds[k].at + grace
      OBVIOUS
    <2>1. a.deadline <= now /\ a.deadline \in Nat
      BY DEF CallSound, Asking
    <2>2. CASE k \in Prompt(a, cs)
      BY <1>7, <2>2 DEF CallSound
    <2>3. CASE ds[k].at = now
      BY <2>1, <2>3
    <2>4. QED  BY <1>6, <2>2, <2>3
  <1>10. a.pc = "answered" => /\ a.answer \in 1..Len(ds)
                             /\ ds[a.answer].at > a.began + ahead /\ ds[a.answer].option \in Options
    BY <1>2, <1>3 DEF CallSound
  <1>11. a \in Asking /\ a.answer \in 0..Len(ds)
    BY <1>2, <1>3 DEF CallSound
  <1>12. QED  BY <1>1, <1>8, <1>9, <1>10, <1>11 DEF CallSound

(* A call that failed gives all the others that much more time. *)
LEMMA GraceKeeps ==
    ASSUME NEW S, NEW cs \in Seq(S), \A k \in 1..Len(cs) : cs[k].at \in Nat,
           NEW now, NEW g \in Nat, NEW h \in Nat, g <= h, NEW ahead, NEW a, CallSound(a, cs, now, g, ahead)
    PROVE  CallSound(a, cs, now, h, ahead)
  <1>1. \A k \in Prompt(a, cs) : cs[k].at \in Nat
    BY VisibleIs DEF Prompt, Replies
  <1>2. a.wake \in Nat /\ a.deadline \in Nat
    BY DEF CallSound, Asking
  <1>3. a.pc = "wait" => \A k \in Prompt(a, cs) : a.wake <= cs[k].at + h
    <2>1. ASSUME a.pc = "wait", NEW k \in Prompt(a, cs) PROVE a.wake <= cs[k].at + h
      <3>1. a.wake <= cs[k].at + g
        BY <2>1 DEF CallSound
      <3>2. QED  BY <1>1, <1>2, <3>1
    <2>2. QED  BY <2>1
  <1>4. a.pc = "timeout" => \A k \in Prompt(a, cs) : a.deadline <= cs[k].at + h
    <2>1. ASSUME a.pc = "timeout", NEW k \in Prompt(a, cs) PROVE a.deadline <= cs[k].at + h
      <3>1. a.deadline <= cs[k].at + g
        BY <2>1 DEF CallSound
      <3>2. QED  BY <1>1, <1>2, <3>1
    <2>2. QED  BY <2>1
  <1>5. QED  BY <1>3, <1>4 DEF CallSound

-----------------------------------------------------------------------------
(* The steps. *)

LEMMA AskTypes ==
    ASSUME AskSound
    PROVE  /\ Comment = [at : 0..MaxNow, option : Options \cup {"none"}, meant : 0..asks]
           /\ comments \in Seq(Comment) /\ Len(comments) \in Nat
           /\ \A k \in 1..Len(comments) : comments[k].at \in Nat /\ comments[k].at <= clock
           /\ clock \in Nat /\ skew \in Int /\ asks \in Nat /\ says \in Nat /\ askMishaps \in Nat
           /\ MaxNow \in Nat /\ timeout_s \in Nat /\ poll_interval_s \in Nat \ {0}
           /\ Grace \in Nat /\ poll_interval_s <= Grace
  <1>1. comments \in Seq(Comment) /\ Len(comments) \in Nat
    BY LenProperties DEF AskSound, CommentsSound, Comment
  <1>2. \A k \in 1..Len(comments) : comments[k].at \in Nat
    <2>1. \A k \in 1..Len(comments) : comments[k] \in Comment
      BY <1>1, ElementOfSeq
    <2>2. QED  BY <2>1, AskAssumption DEF Comment
  <1>3. /\ clock \in Nat /\ skew \in Int /\ asks \in Nat /\ says \in Nat /\ askMishaps \in Nat
        /\ MaxNow \in Nat /\ timeout_s \in Nat /\ poll_interval_s \in Nat \ {0}
    BY AskAssumption DEF AskSound, CountersSound
  <1>4. Grace \in Nat /\ poll_interval_s <= Grace
    BY <1>3, GraceBounds
  <1>5. QED  BY <1>1, <1>2, <1>3, <1>4 DEF AskSound, CommentsSound, Comment

(* Every set of naturals has a least element. *)
LEMMA LeastIs ==
    ASSUME NEW S, S \subseteq Nat, S # {}
    PROVE  \E x \in S : \A y \in S : x <= y
  <1> DEFINE R == {ss \in Nat \X Nat : ss[1] < ss[2]}
  <1>1. IsWellFoundedOn(R, Nat)
    BY NatLessThanWellFounded DEF OpToRel
  <1>2. \A x, y \in Nat : x < y => <<x, y>> \in R
    OBVIOUS
  <1> HIDE DEF R
  <1>3. PICK x \in S : \A y \in S : ~(<<y, x>> \in R)
    BY <1>1, WFMin
  <1>4. ASSUME NEW y \in S PROVE x <= y
    <2>1. x \in Nat /\ y \in Nat
      OBVIOUS
    <2>2. ~(y < x)
      BY <1>2, <1>3, <2>1
    <2>3. QED  BY <2>1, <2>2
  <1>5. QED  BY <1>4

(* match_answer finds a reply if the page has one. *)
LEMMA MatchIs ==
    ASSUME NEW S, comments \in Seq(S), NEW w \in Askers
    PROVE  IF match_answer(w) = 0 THEN Replies(asking[w], comments) = {}
           ELSE match_answer(w) \in Replies(asking[w], comments)
  <1>1. PICK n : n = Smaller(Len(comments), PageSize)
    OBVIOUS
  <1>2. Len(comments) \in Nat /\ n \in 0..Len(comments) /\ Visible(comments) = 1..n
    BY <1>1, AskAssumption, LenProperties DEF Smaller, Visible
  <1>3. /\ Len(issue_comments) = n
        /\ \A k \in 1..n : issue_comments[k] = comments[k]
    <2>1. PICK page : page = SubSeq(comments, 1, n)
      OBVIOUS
    <2>2. Len(page) = n /\ \A k \in 1..n : page[k] = comments[k]
      <3>1. CASE n = 0
        BY <2>1, <3>1, SubSeqEmpty, EmptySeq
      <3>2. CASE n # 0
        BY <1>2, <2>1, <3>2, SubSeqProperties
      <3>3. QED  BY <3>1, <3>2
    <2>3. QED  BY <1>1, <2>1, <2>2 DEF issue_comments
  <1>4. Answers(w) = Replies(asking[w], comments)
    BY <1>2, <1>3 DEF Answers, Replies
  <1>5. Answers(w) \subseteq Nat \ {0}
    BY <1>2, <1>3 DEF Answers
  <1>6. CASE Answers(w) = {}
    BY <1>4, <1>6 DEF match_answer
  <1>7. CASE Answers(w) # {}
    <2>1. \E k \in Answers(w) : \A j \in Answers(w) : k <= j
      BY <1>5, <1>7, LeastIs
    <2>2. match_answer(w) = CHOOSE k \in Answers(w) : \A j \in Answers(w) : k <= j
      BY <1>7 DEF match_answer
    <2>3. match_answer(w) \in Answers(w)
      BY <2>1, <2>2
    <2>4. QED  BY <1>4, <1>5, <2>3
  <1>8. QED  BY <1>6, <1>7

(* A step that changes the call of one worker, says at most one thing, now,   *)
(* and fails at most once more.                                               *)
LEMMA CallTurn ==
    ASSUME AskSound, NEW w \in Askers, NEW a, asking' = [asking EXCEPT ![w] = a],
           CallSound(a, comments', clock, Grace', skew),
           UNCHANGED <<clock, skew, says>>, asks' \in asks..MaxAsks,
           \/ UNCHANGED comments
           \/ \E c \in Comment' : c.at = clock /\ comments' = Append(comments, c),
           \/ UNCHANGED askMishaps
           \/ askMishaps < MaxMishaps /\ askMishaps' = askMishaps + 1
    PROVE  AskSound'
  <1>0. MaxMishaps \in Nat
    BY AskAssumption
  <1>1. CountersSound'
    BY <1>0, AskAssumption DEF AskSound, CountersSound
  <1>2. Grace' \in Nat /\ Grace <= Grace'
    <2>1. Grace \in Nat /\ askMishaps \in Nat /\ poll_interval_s \in Nat
      BY AskTypes
    <2>2. Grace' = Grace \/ Grace' = Grace + poll_interval_s
      BY <2>1, GraceBounds
    <2>3. QED  BY <2>1, <2>2
  <1>3. Comment \subseteq Comment'
    <2>1. asks \in Nat /\ MaxAsks \in Nat
      BY AskTypes, AskAssumption
    <2>2. 0..asks \subseteq 0..asks'
      BY <2>1
    <2>3. QED  BY <2>2 DEF Comment
  <1>4. comments \in Seq(Comment')
    BY <1>3, AskTypes, SeqMonotonic
  <1>5. CommentsSound(comments', asks', clock)
    <2>1. comments' \in Seq(Comment')
      BY <1>4, AppendProperties
    <2>2. \A k \in 1..Len(comments') : comments'[k].at <= clock
      <3>1. CASE UNCHANGED comments
        BY <3>1, AskTypes
      <3>2. ASSUME NEW c \in Comment', c.at = clock, comments' = Append(comments, c)
            PROVE  \A k \in 1..Len(comments') : comments'[k].at <= clock
        <4>1. PICK n, ds : n = Len(comments) /\ ds = Append(comments, c)
          OBVIOUS
        <4>2. n \in Nat /\ Len(ds) = n + 1 /\ ds[n + 1] = c /\ \A k \in 1..n : ds[k] = comments[k]
          BY <1>4, <4>1, AskTypes, AppendProperties
        <4>3. \A k \in 1..n : ds[k].at <= clock
          BY <4>1, <4>2, AskTypes
        <4>4. ds[n + 1].at <= clock
          BY <3>2, <4>2, AskTypes
        <4>5. \A k \in 1..Len(ds) : ds[k].at <= clock
          BY <4>2, <4>3, <4>4
        <4>6. QED  BY <3>2, <4>1, <4>5
      <3>3. QED  BY <3>1, <3>2
    <2>3. QED  BY <2>1, <2>2 DEF CommentsSound, Comment
  <1>6. ASSUME NEW v \in Askers PROVE CallSound(asking[v], comments', clock, Grace', skew)
    <2>1. CallSound(asking[v], comments, clock, Grace, skew)
      BY DEF AskSound
    <2>2. CallSound(asking[v], comments, clock, Grace', skew)
      BY <1>2, <2>1, AskTypes, GraceKeeps
    <2>3. CASE UNCHANGED comments
      BY <2>2, <2>3
    <2>4. ASSUME NEW c \in Comment', c.at = clock, comments' = Append(comments, c)
          PROVE  CallSound(asking[v], comments', clock, Grace', skew)
      <3>1. poll_interval_s \in Nat /\ poll_interval_s <= Grace'
        BY <1>2, AskTypes
      <3>2. QED  BY <1>2, <1>4, <2>2, <2>4, <3>1, AskTypes, CommentKeeps
    <2>5. QED  BY <2>3, <2>4
  <1>7. /\ asking' = [v \in Askers |-> asking'[v]]
        /\ \A v \in Askers : CallSound(asking'[v], comments', clock, Grace', skew)
    <2>1. asking' = [v \in Askers |-> IF v = w THEN a ELSE asking[v]]
      BY DEF AskSound
    <2>2. QED  BY <1>6, <2>1
  <1>8. QED  BY <1>1, <1>5, <1>7 DEF AskSound

(* A call begins without a reply: every comment is from before it. *)
LEMMA AskKeeps ==
    ASSUME AskSound, NEW w \in Askers, Ask(w)
    PROVE  AskSound'
  <1>1. PICK a : a = Begun(asks + 1)
    OBVIOUS
  <1>2. /\ asking' = [asking EXCEPT ![w] = a] /\ UNCHANGED <<clock, skew, says>>
        /\ asks' = asks + 1 /\ asks < MaxAsks
    BY <1>1 DEF Ask
  <1>3. \/ UNCHANGED comments
        \/ \E c \in Comment' : c.at = clock /\ comments' = Append(comments, c)
    <2>1. [at |-> clock, option |-> "none", meant |-> 0] \in Comment'
      BY <1>2, AskTypes DEF Comment, AskSound, CountersSound
    <2>2. QED  BY <2>1 DEF Ask
  <1>4. \/ UNCHANGED askMishaps
        \/ askMishaps < MaxMishaps /\ askMishaps' = askMishaps + 1
    BY DEF Ask
  <1>5. /\ a \in Asking /\ a.pc = "wait" /\ a.answer = 0 /\ a.began = clock
        /\ a.started = clock + skew /\ a.deadline = clock + timeout_s /\ a.wake = clock
    <2>1. PICK started, deadline : started = clock + skew /\ deadline = clock + timeout_s
      OBVIOUS
    <2>2. started \in Int /\ deadline \in Nat
      BY <2>1, AskTypes
    <2>3. a = [pc |-> "wait", q |-> asks + 1, began |-> clock, started |-> started,
               deadline |-> deadline, wake |-> clock, answer |-> 0]
      BY <1>1, <2>1 DEF Begun, NoAsk
    <2>4. clock \in Nat /\ asks + 1 \in Nat /\ 0 \in Nat
      BY AskTypes
    <2>5. a \in Asking
      BY <2>2, <2>3, <2>4 DEF Asking
    <2>6. QED  BY <2>1, <2>3, <2>5
  <1>6. CommentsSound(comments', asks + 1, clock) => CallSound(a, comments', clock, Grace', skew)
    <2> SUFFICES ASSUME CommentsSound(comments', asks + 1, clock)
                 PROVE  CallSound(a, comments', clock, Grace', skew)
      OBVIOUS
    <2>1. PICK cs : cs = comments'
      OBVIOUS
    <2>2. cs \in Seq([at : 0..MaxNow, option : Options \cup {"none"}, meant : 0..asks + 1])
      BY <2>1 DEF CommentsSound
    <2>3. Len(cs) \in Nat /\ Visible(cs) \subseteq 1..Len(cs)
      BY <2>2, VisibleIs
    <2>4. \A k \in 1..Len(cs) : cs[k].at <= clock /\ cs[k].at \in Nat
      <3>1. \A k \in 1..Len(cs) :
               cs[k] \in [at : 0..MaxNow, option : Options \cup {"none"}, meant : 0..asks + 1]
        BY <2>2, ElementOfSeq
      <3>2. QED  BY <2>1, <3>1 DEF CommentsSound
    <2>5. \A k \in Prompt(a, cs) : a.wake <= cs[k].at + Grace'
      <3>0. clock \in Nat /\ Grace' \in Nat
        BY <1>4, AskTypes, GraceBounds
      <3>1. \A k \in Prompt(a, cs) : cs[k].at >= clock /\ cs[k].at \in Nat
        BY <1>5, <2>3, <2>4 DEF Prompt, Replies
      <3>2. QED  BY <1>5, <3>0, <3>1
    <2>6. clock \in Nat /\ skew \in Int /\ timeout_s \in Nat /\ poll_interval_s \in Nat
      BY AskTypes
    <2>7. QED  BY <1>5, <2>1, <2>3, <2>5, <2>6 DEF CallSound
  <1>7. CommentsSound(comments', asks + 1, clock)
    <2>1. Comment \subseteq Comment' /\ Comment' = [at : 0..MaxNow, option : Options \cup {"none"}, meant : 0..asks + 1]
      <3>1. Comment' = [at : 0..MaxNow, option : Options \cup {"none"}, meant : 0..asks + 1]
        BY <1>2 DEF Comment
      <3>2. asks \in Nat /\ Comment = [at : 0..MaxNow, option : Options \cup {"none"}, meant : 0..asks]
        BY AskTypes
      <3>3. 0..asks \subseteq 0..asks + 1
        BY <3>2
      <3>4. QED  BY <3>1, <3>2, <3>3
    <2>2. comments \in Seq(Comment')
      BY <2>1, AskTypes, SeqMonotonic
    <2>3. CASE UNCHANGED comments
      BY <2>1, <2>2, <2>3, AskTypes DEF CommentsSound
    <2>4. ASSUME NEW c \in Comment', c.at = clock, comments' = Append(comments, c)
          PROVE  CommentsSound(comments', asks + 1, clock)
      <3>1. PICK n, ds : n = Len(comments) /\ ds = Append(comments, c)
        OBVIOUS
      <3>2. /\ ds \in Seq(Comment') /\ n \in Nat /\ Len(ds) = n + 1 /\ ds[n + 1] = c
            /\ \A k \in 1..n : ds[k] = comments[k]
        BY <2>2, <3>1, AskTypes, AppendProperties
      <3>3. \A k \in 1..n : ds[k].at <= clock
        BY <3>1, <3>2, AskTypes
      <3>4. ds[n + 1].at <= clock
        BY <2>4, <3>2, AskTypes
      <3>5. \A k \in 1..Len(ds) : ds[k].at <= clock
        BY <3>2, <3>3, <3>4
      <3>6. QED  BY <2>1, <2>4, <3>1, <3>2, <3>5 DEF CommentsSound
    <2>5. QED  BY <1>3, <2>3, <2>4
  <1>8. asks' \in asks..MaxAsks
    BY <1>2, AskAssumption, AskTypes
  <1>9. QED  BY <1>2, <1>3, <1>4, <1>6, <1>7, <1>8, CallTurn

(* What a poll makes of a call: k is the reply it read, 0 if it read none. *)
Polled(a, k) ==
    IF clock >= a.deadline THEN [a EXCEPT !.pc = "timeout"]
    ELSE IF k # 0 THEN [a EXCEPT !.pc = "answered", !.answer = k]
    ELSE [a EXCEPT !.wake = NextPoll(a)]

(* It is sound if k is a reply, or there is none, or there is a call more     *)
(* that failed and the deadline is not reached.                               *)
LEMMA PollSound ==
    ASSUME AskSound, NEW w \in Askers, Due(w), NEW k \in Nat, NEW grace \in Nat,
           LET R == Replies(asking[w], comments)
           IN  \/ k \in R /\ grace = Grace
               \/ k = 0 /\ R = {} /\ grace = Grace
               \/ k = 0 /\ clock < asking[w].deadline /\ grace = Grace + poll_interval_s
    PROVE  CallSound(Polled(asking[w], k), comments, clock, grace, skew)
  <1>1. PICK a : a = asking[w]
    OBVIOUS
  <1>2. /\ a \in Asking /\ a.pc = "wait" /\ a.wake <= clock
        /\ CallSound(a, comments, clock, Grace, skew)
    BY <1>1 DEF AskSound, Due, Waits, CallSound
  <1>3. /\ a.started = a.began + skew /\ a.wake = clock /\ clock <= a.deadline
        /\ a.wake \in Nat /\ a.deadline \in Nat /\ a.began \in Nat /\ a.started \in Int
        /\ a.answer \in 0..Len(comments)
        /\ \A j \in Prompt(a, comments) : clock <= comments[j].at + Grace
    <2>1. /\ a.wake \in Nat /\ a.deadline \in Nat /\ a.began \in Nat /\ a.started \in Int
          /\ a.answer \in 0..Len(comments)
      BY <1>2 DEF CallSound, Asking
    <2>2. /\ a.started = a.began + skew /\ clock <= a.wake /\ a.wake <= a.deadline
          /\ \A j \in Prompt(a, comments) : a.wake <= comments[j].at + Grace
      BY <1>2 DEF CallSound
    <2>3. a.wake = clock
      BY <1>2, <2>1, <2>2, AskTypes
    <2>4. QED  BY <2>1, <2>2, <2>3
  <1>4. /\ clock \in Nat /\ poll_interval_s \in Nat \ {0} /\ Grace \in Nat /\ Len(comments) \in Nat
        /\ Visible(comments) \subseteq 1..Len(comments)
        /\ \A j \in 1..Len(comments) : comments[j].at \in Nat
    BY AskTypes, VisibleIs
  <1>5. PICK b : b = Polled(a, k)
    OBVIOUS
  <1>6. CASE clock >= a.deadline
    <2>1. /\ b \in Asking /\ b.pc = "timeout" /\ b.deadline = a.deadline /\ b.started = a.started /\ b.began = a.began
          /\ b.answer = a.answer
      BY <1>2, <1>5, <1>6 DEF Polled, Asking
    <2>2. grace = Grace
      BY <1>1, <1>3, <1>4, <1>6
    <2>3. Prompt(b, comments) = Prompt(a, comments)
      BY <2>1 DEF Prompt, Replies
    <2>4. b.deadline = clock
      BY <1>3, <1>4, <1>6, <2>1
    <2>5. QED  BY <1>1, <1>3, <1>5, <2>1, <2>2, <2>3, <2>4 DEF CallSound
  <1>7. CASE clock < a.deadline /\ k # 0
    <2>1. k \in Replies(a, comments)
      BY <1>1, <1>7
    <2>2. /\ k \in 1..Len(comments) /\ comments[k].at > a.started /\ comments[k].option \in Options
      BY <1>4, <2>1 DEF Replies
    <2>3. /\ b \in Asking /\ b.pc = "answered" /\ b.answer = k /\ b.began = a.began
      <3>1. b = [a EXCEPT !.pc = "answered", !.answer = k]
        BY <1>3, <1>4, <1>5, <1>7 DEF Polled
      <3>2. QED  BY <1>2, <3>1 DEF Asking
    <2>4. comments[k].at > a.began + skew
      BY <1>3, <1>4, <2>2
    <2>5. QED  BY <1>1, <1>4, <1>5, <2>2, <2>3, <2>4 DEF CallSound
  <1>8. CASE clock < a.deadline /\ k = 0
    <2>1. PICK wake : wake = NextPoll(a)
      OBVIOUS
    <2>2. wake \in Nat /\ clock <= wake /\ wake <= a.deadline /\ wake <= clock + poll_interval_s
      BY <1>3, <1>4, <1>8, <2>1 DEF NextPoll, Smaller
    <2>3. /\ b \in Asking /\ b.pc = "wait" /\ b.wake = wake /\ b.deadline = a.deadline
          /\ b.began = a.began /\ b.started = a.started /\ b.answer = a.answer
      <3>1. b = [a EXCEPT !.wake = wake]
        BY <1>3, <1>4, <1>5, <1>8, <2>1 DEF Polled
      <3>2. QED  BY <1>2, <2>2, <3>1 DEF Asking
    <2>4. Prompt(b, comments) = Prompt(a, comments)
      BY <2>3 DEF Prompt, Replies
    <2>5. ASSUME NEW j \in Prompt(a, comments) PROVE wake <= comments[j].at + grace
      <3>1. k \notin Replies(a, comments)
        BY <1>4, <1>8 DEF Replies
      <3>2. grace = Grace + poll_interval_s
        BY <1>1, <2>5, <3>1 DEF Prompt
      <3>3. clock <= comments[j].at + Grace /\ comments[j].at \in Nat
        BY <1>3, <1>4 DEF Prompt, Replies
      <3>4. PICK spoken \in Nat : spoken = comments[j].at
        BY <3>3
      <3>5. clock <= spoken + Grace
        BY <3>3, <3>4
      <3>6. PICK p \in Nat, most \in Nat : p = poll_interval_s /\ most = Grace
        BY <1>4
      <3>7. wake <= clock + p /\ clock <= spoken + most /\ grace = most + p
        BY <2>2, <3>2, <3>5, <3>6
      <3>8. wake <= spoken + grace
        BY <1>4, <2>2, <3>4, <3>6, <3>7
      <3>9. QED  BY <3>4, <3>8
    <2>6. QED  BY <1>1, <1>3, <1>5, <2>2, <2>3, <2>4, <2>5 DEF CallSound
  <1>9. QED  BY <1>3, <1>4, <1>6, <1>7, <1>8

LEMMA PollKeeps ==
    ASSUME AskSound, NEW w \in Askers, Poll(w)
    PROVE  AskSound'
  <1>1. Due(w) /\ UNCHANGED <<clock, skew, comments, asks, says>>
    BY DEF Poll
  <1>2. comments \in Seq(Comment) /\ asks \in asks..MaxAsks
    BY AskTypes DEF AskSound, CountersSound
  <1>3. CASE Turn(w, match_answer(w)) /\ UNCHANGED askMishaps
    <2>1. PICK k : k = match_answer(w)
      OBVIOUS
    <2>2. IF k = 0 THEN Replies(asking[w], comments) = {} ELSE k \in Replies(asking[w], comments)
      BY <1>2, <2>1, MatchIs
    <2>3. k \in Nat
      BY <1>2, <2>2, VisibleIs DEF Replies
    <2>4. Grace' = Grace /\ Grace \in Nat
      BY <1>3, AskTypes, GraceBounds
    <2>5. CallSound(Polled(asking[w], k), comments, clock, Grace, skew)
      BY <1>1, <2>2, <2>3, <2>4, PollSound
    <2>6. asking' = [asking EXCEPT ![w] = Polled(asking[w], k)]
      BY <1>3, <2>1 DEF Turn, Polled
    <2>7. CallSound(Polled(asking[w], k), comments', clock, Grace', skew)
      BY <1>1, <2>4, <2>5
    <2>8. QED  BY <1>1, <1>2, <1>3, <2>6, <2>7, CallTurn
  <1>4. CASE /\ askMishaps < MaxMishaps /\ askMishaps' = askMishaps + 1
             /\ clock < asking[w].deadline /\ Turn(w, 0)
    <2>1. Grace' = Grace + poll_interval_s /\ Grace' \in Nat
      BY <1>4, AskTypes, GraceBounds
    <2>2. CallSound(Polled(asking[w], 0), comments, clock, Grace', skew)
      BY <1>1, <1>4, <2>1, PollSound
    <2>3. asking' = [asking EXCEPT ![w] = Polled(asking[w], 0)]
      BY <1>4 DEF Turn, Polled
    <2>4. CallSound(Polled(asking[w], 0), comments', clock, Grace', skew)
      BY <1>1, <2>2
    <2>5. QED  BY <1>1, <1>2, <1>4, <2>3, <2>4, CallTurn
  <1>5. QED  BY <1>3, <1>4 DEF Poll

(* A worker that never asked is in no call. *)
LEMMA NoAskSound ==
    ASSUME NEW cs, Len(cs) \in Nat, NEW now, NEW grace, NEW ahead
    PROVE  CallSound(NoAsk, cs, now, grace, ahead)
  BY DEF CallSound, NoAsk, Asking

LEMMA KilledKeeps ==
    ASSUME AskSound, NEW w \in Askers, AskerKilled(w)
    PROVE  AskSound'
  <1>1. /\ asking' = [asking EXCEPT ![w] = NoAsk]
        /\ UNCHANGED <<clock, skew, comments, asks, says>>
        /\ askMishaps < MaxMishaps /\ askMishaps' = askMishaps + 1
    BY DEF AskerKilled
  <1>2. CallSound(NoAsk, comments', clock, Grace', skew)
    BY <1>1, AskTypes, NoAskSound
  <1>3. asks' \in asks..MaxAsks
    BY <1>1, AskTypes DEF AskSound, CountersSound
  <1>4. QED  BY <1>1, <1>2, <1>3, CallTurn

LEMMA SaysKeeps ==
    ASSUME AskSound, Says
    PROVE  AskSound'
  <1>1. PICK c \in Comment : c.at = clock /\ comments' = Append(comments, c)
    <2>1. \A o \in Options \cup {"none"}, q \in 0..asks :
             [at |-> clock, option |-> o, meant |-> q] \in Comment
      BY DEF Comment, AskSound, CountersSound
    <2>2. 0 \in 0..asks /\ 1..asks \subseteq 0..asks
      BY AskTypes
    <2>3. QED  BY <2>1, <2>2 DEF Says
  <1>2. PICK n, ds : n = Len(comments) /\ ds = Append(comments, c)
    OBVIOUS
  <1>3. /\ ds \in Seq(Comment) /\ n \in Nat /\ Len(ds) = n + 1 /\ ds[n + 1] = c
        /\ \A k \in 1..n : ds[k] = comments[k]
    BY <1>2, AskTypes, AppendProperties
  <1>4. CommentsSound(ds, asks, clock)
    <2>0. clock \in Nat /\ \A k \in 1..Len(comments) : comments[k].at <= clock
      BY AskTypes
    <2>1. \A k \in 1..n : ds[k].at <= clock
      BY <1>2, <1>3, <2>0
    <2>2. ds[n + 1].at <= clock
      BY <1>1, <1>3, <2>0
    <2>3. \A k \in 1..Len(ds) : ds[k].at <= clock
      <3>1. \A k \in 1..(n + 1) : k \in 1..n \/ k = n + 1
        BY <1>3
      <3>2. QED  BY <1>3, <2>1, <2>2, <3>1
    <2>4. QED  BY <1>3, <2>3 DEF CommentsSound, Comment
  <1>5. ASSUME NEW v \in Askers PROVE CallSound(asking[v], ds, clock, Grace, skew)
    <2>1. CallSound(asking[v], comments, clock, Grace, skew)
      BY DEF AskSound
    <2>2. poll_interval_s \in Nat
      BY AskTypes
    <2>3. QED  BY <1>1, <1>2, <2>1, <2>2, AskTypes, CommentKeeps
  <1>6. Grace' = Grace
    BY DEF Says, Grace
  <1>7. CountersSound'
    <2>1. says \in 0..MaxSays /\ MaxSays \in Nat
      BY AskAssumption DEF AskSound, CountersSound
    <2>2. says < MaxSays /\ says' = says + 1 /\ UNCHANGED <<clock, skew, asking, asks, askMishaps>>
      BY DEF Says
    <2>3. says' \in 0..MaxSays
      BY <2>1, <2>2
    <2>4. QED  BY <2>2, <2>3 DEF AskSound, CountersSound
  <1>8. QED  BY <1>1, <1>2, <1>4, <1>5, <1>6, <1>7 DEF Says, AskSound

(* The clock goes on when nobody has to poll. *)
LEMMA SecondKeeps ==
    ASSUME AskSound, Second
    PROVE  AskSound'
  <1>1. PICK then : then = clock + 1
    OBVIOUS
  <1>2. clock' = then /\ then \in 0..MaxNow /\ UNCHANGED <<skew, comments, asking, asks, says, askMishaps>>
    BY <1>1, AskTypes DEF Second
  <1>3. CommentsSound(comments, asks, then)
    <2>0. clock \in Nat /\ \A k \in 1..Len(comments) : comments[k].at \in Nat /\ comments[k].at <= clock
      BY AskTypes
    <2>1. \A k \in 1..Len(comments) : comments[k].at <= then
      BY <1>1, <2>0
    <2>2. QED  BY <2>1 DEF AskSound, CommentsSound
  <1>4. ASSUME NEW v \in Askers PROVE CallSound(asking[v], comments, then, Grace, skew)
    <2>1. PICK a : a = asking[v]
      OBVIOUS
    <2>2. CallSound(a, comments, clock, Grace, skew) /\ a \in Asking
      BY <2>1 DEF AskSound, CallSound
    <2>3. a.pc = "wait" => clock < a.wake
      <3>1. a.wake \in Nat /\ clock \in Nat
        BY <2>2, AskTypes DEF Asking
      <3>2. a.pc = "wait" => ~(a.wake <= clock)
        BY <2>1 DEF Second, Due, Waits
      <3>3. QED  BY <3>1, <3>2
    <2>4. a.wake \in Nat /\ a.deadline \in Nat /\ clock \in Nat /\ poll_interval_s \in Nat
      BY <2>2, AskTypes DEF Asking
    <2>5. QED  BY <1>1, <2>1, <2>2, <2>3, <2>4 DEF CallSound
  <1>5. Grace' = Grace
    BY <1>2 DEF Grace
  <1>6. CountersSound'
    BY <1>2 DEF AskSound, CountersSound
  <1>7. QED  BY <1>2, <1>3, <1>4, <1>5, <1>6 DEF AskSound

LEMMA InitSound ==
    ASSUME AskInit
    PROVE  AskSound
  <1>1. CountersSound
    BY AskAssumption DEF AskInit, CountersSound
  <1>2. CommentsSound(comments, asks, clock)
    BY DEF AskInit, CommentsSound
  <1>3. Len(comments) \in Nat
    BY DEF AskInit
  <1>4. QED  BY <1>1, <1>2, <1>3, NoAskSound DEF AskInit, AskSound

(* What is sound is what is promised. *)
LEMMA SoundIs ==
    ASSUME AskSound
    PROVE  AskInv
  <1>0. /\ Grace \in Nat /\ clock \in Nat /\ comments \in Seq(Comment)
        /\ \A k \in 1..Len(comments) : comments[k].at \in Nat
    BY AskTypes
  <1>1. \A w \in Askers : asking[w] \in Asking /\ CallSound(asking[w], comments, clock, Grace, skew)
    BY DEF AskSound, CallSound
  <1>2. AskTypeOK
    BY <1>0, <1>1 DEF AskTypeOK, AskSound, CountersSound, CallSound, Asking
  <1>3. NoOvershoot
    <2>1. ASSUME NEW w \in Askers, Waits(w) PROVE clock <= asking[w].deadline
      <3>1. PICK a : a = asking[w]
        OBVIOUS
      <3>2. a.wake \in Nat /\ a.deadline \in Nat /\ clock \in Nat
        BY <1>0, <1>1, <3>1 DEF Asking
      <3>3. clock <= a.wake /\ a.wake <= a.deadline
        BY <1>1, <2>1, <3>1 DEF Waits, CallSound
      <3>4. QED  BY <3>1, <3>2, <3>3
    <2>2. QED  BY <2>1 DEF NoOvershoot
  <1>4. StaleAnswerIgnored
    <2> SUFFICES ASSUME NEW w \in Askers, asking[w].pc = "answered"
                 PROVE  /\ comments[asking[w].answer].at + Behind > asking[w].began
                        /\ comments[asking[w].answer].option \in Options
      BY DEF StaleAnswerIgnored
    <2>1. PICK k, at, began : k = asking[w].answer /\ at = comments[k].at /\ began = asking[w].began
      OBVIOUS
    <2>2. /\ k \in 1..Len(comments) /\ comments[k].option \in Options
          /\ at > began + skew
      BY <1>1, <2>1 DEF CallSound
    <2>3. at \in Nat /\ began \in Nat /\ skew \in Int
      BY <1>0, <1>1, <2>1, <2>2, AskTypes DEF Asking
    <2>4. at + Behind > began
      BY <2>2, <2>3 DEF Behind
    <2>5. QED  BY <2>1, <2>2, <2>4
  <1>5. PromptAnswerFound
    <2> SUFFICES ASSUME NEW w \in Askers, asking[w].pc = "timeout",
                        NEW k \in Visible(comments), comments[k].option \in Options,
                        comments[k].at > asking[w].started, comments[k].at >= asking[w].began
                 PROVE  ~(comments[k].at + Grace < asking[w].deadline)
      BY DEF PromptAnswerFound, Visible, Grace
    <2>1. k \in Prompt(asking[w], comments)
      BY DEF Prompt, Replies
    <2>2. asking[w].deadline <= comments[k].at + Grace
      BY <1>1, <2>1 DEF CallSound
    <2>3. comments[k].at \in Nat /\ asking[w].deadline \in Nat /\ Grace \in Nat
      BY <1>0, <1>1, VisibleIs DEF Asking
    <2>4. PICK at, deadline, grace :
             at = comments[k].at /\ deadline = asking[w].deadline /\ grace = Grace
      OBVIOUS
    <2>5. at \in Nat /\ deadline \in Nat /\ grace \in Nat /\ deadline <= at + grace
      BY <2>2, <2>3, <2>4
    <2>6. ~(at + grace < deadline)
      BY <2>5
    <2>7. QED  BY <2>4, <2>6
  <1>6. QED  BY <1>2, <1>3, <1>4, <1>5 DEF AskInv

(* The operator is asked as ask() and match_answer promise: no sleep goes     *)
(* past the deadline, a comment answers a question only if it is later or     *)
(* earlier by less than the loop's clock is behind, and a worker gives up     *)
(* only if there was no answer in time, whatever the number of workers, of    *)
(* calls that fail and of comments of others.                                 *)
THEOREM AskIsSound == AskSpec => []AskInv
  <1>1. AskInit => AskSound
    BY InitSound
  <1>2. AskSound /\ [AskNext]_askVars => AskSound'
    <2> SUFFICES ASSUME AskSound, [AskNext]_askVars PROVE AskSound'
      OBVIOUS
    <2>1. CASE UNCHANGED askVars
      BY <2>1 DEF askVars, AskSound, CountersSound, Grace
    <2>2. CASE AskNext
      BY <2>2, AskKeeps, PollKeeps, KilledKeeps, SaysKeeps, SecondKeeps DEF AskNext
    <2>3. QED  BY <2>1, <2>2
  <1>3. QED  BY <1>1, <1>2, SoundIs, PTL DEF AskSpec

-----------------------------------------------------------------------------
(* The audit of the code.                                                   *)

(* An order of a finite set: a sequence that has each of its members once.  *)
LEMMA OrderOf ==
    ASSUME NEW S, IsFiniteSet(S), NEW s \in SetToSeqs(S)
    PROVE  /\ s \in Seq(S) /\ Len(s) \in Nat /\ DOMAIN s = 1..Len(s)
           /\ ToSet(s) = S
           /\ \A i, j \in 1..Len(s) : s[i] = s[j] => i = j
<1>1. PICK n : n = Cardinality(S)
  OBVIOUS
<1>2. n \in Nat
  BY <1>1, FS_CardinalityType
<1>3. s \in [1..n -> S] /\ \A i, j \in 1..n : i # j => s[i] # s[j]
  BY <1>1 DEF SetToSeqs
<1>4. s \in Seq(S) /\ Len(s) = n /\ DOMAIN s = 1..n
  BY <1>2, <1>3
<1>5. s \in Injection(1..n, S)
  BY <1>3, <1>4 DEF Injection, IsInjective
<1>6. IsFiniteSet(1..n) /\ Cardinality(1..n) = n
  BY <1>2, FS_Interval
<1>7. s \in Surjection(1..n, S)
  BY <1>1, <1>5, <1>6, FS_Injection
<1>8. ToSet(s) = S
  BY <1>3, <1>4, <1>7 DEF Surjection, ToSet
<1> QED BY <1>2, <1>3, <1>4, <1>8

(* What is left of an order after its head.                                 *)
LEMMA TailOfOrder ==
    ASSUME NEW S, NEW s \in Seq(S), s # <<>>, \A i, j \in 1..Len(s) : s[i] = s[j] => i = j
    PROVE  /\ Head(s) \in S /\ Tail(s) \in Seq(S)
           /\ \A i, j \in 1..Len(Tail(s)) : Tail(s)[i] = Tail(s)[j] => i = j
           /\ ToSet(s) = ToSet(Tail(s)) \cup {Head(s)}
           /\ Head(s) \notin ToSet(Tail(s))
<1>1. PICK n : n = Len(s)
  OBVIOUS
<1>2. n \in Nat /\ n # 0 /\ DOMAIN s = 1..n /\ Head(s) = s[1]
  BY <1>1
<1>3. /\ Head(s) \in S /\ Tail(s) \in Seq(S)
      /\ Len(Tail(s)) = n - 1 /\ \A i \in 1..(n - 1) : Tail(s)[i] = s[i + 1]
  BY <1>1, HeadTailProperties
<1>4. DOMAIN Tail(s) = 1..(n - 1)
  BY <1>3
<1>5. \A i, j \in 1..(n - 1) : Tail(s)[i] = Tail(s)[j] => i = j
  <2> SUFFICES ASSUME NEW i \in 1..(n - 1), NEW j \in 1..(n - 1), Tail(s)[i] = Tail(s)[j] PROVE i = j
    OBVIOUS
  <2>1. s[i + 1] = s[j + 1] /\ i + 1 \in 1..n /\ j + 1 \in 1..n
    BY <1>2, <1>3
  <2>2. i + 1 = j + 1
    BY <1>1, <2>1
  <2> QED BY <2>2
<1>6. \A x : x \in ToSet(s) <=> x \in ToSet(Tail(s)) \cup {Head(s)}
  <2>1. ASSUME NEW k \in 1..n PROVE s[k] \in ToSet(Tail(s)) \cup {Head(s)}
    <3>1. CASE k = 1
      BY <1>2, <3>1
    <3>2. CASE k # 1
      <4>1. k - 1 \in 1..(n - 1) /\ Tail(s)[k - 1] = s[k]
        BY <1>2, <1>3, <2>1, <3>2
      <4> QED BY <1>4, <4>1 DEF ToSet
    <3> QED BY <3>1, <3>2
  <2>2. ASSUME NEW k \in 1..(n - 1) PROVE Tail(s)[k] \in ToSet(s)
    <3>1. k + 1 \in 1..n /\ Tail(s)[k] = s[k + 1]
      BY <1>2, <1>3, <2>2
    <3> QED BY <1>2, <3>1 DEF ToSet
  <2>3. Head(s) \in ToSet(s)
    BY <1>2 DEF ToSet
  <2>4. ASSUME NEW x \in ToSet(s) PROVE x \in ToSet(Tail(s)) \cup {Head(s)}
    BY <1>2, <2>1, <2>4 DEF ToSet
  <2>5. ASSUME NEW x \in ToSet(Tail(s)) PROVE x \in ToSet(s)
    BY <1>4, <2>2, <2>5 DEF ToSet
  <2> QED BY <2>3, <2>4, <2>5
<1>7. Head(s) \notin ToSet(Tail(s))
  <2> SUFFICES ASSUME NEW k \in 1..(n - 1), Tail(s)[k] = Head(s) PROVE FALSE
    BY <1>4 DEF ToSet
  <2>1. s[k + 1] = s[1] /\ k + 1 \in 1..n /\ 1 \in 1..n
    BY <1>2, <1>3
  <2> QED BY <1>1, <2>1
<1> QED BY <1>3, <1>5, <1>6, <1>7

-----------------------------------------------------------------------------
(* What a pass was told, what it has left, and what is on file.             *)

TicketRecord == [probe : ToSet(Probes), target : {u.target : u \in Units},
                 open : BOOLEAN, found : BOOLEAN, blind : BOOLEAN]

\* The report names a unit once, and only units of probes that did not crash.
ToldSound ==
    /\ \A v \in told.units : /\ v.unit \in Units /\ v.unit.probe \in ToSet(Probes)
                             /\ v.unit.probe \notin told.crashed /\ v.severity \in {1, 2}
    /\ \A v, w \in told.units : v.unit = w.unit => v = w

\* What is left is of the report, each once; the list of a probe is of tickets.
LeftSound ==
    /\ pass.left \in Seq(Units) /\ ToSet(pass.left) \subseteq {v.unit : v \in told.units}
    /\ \A j, k \in 1..Len(pass.left) : pass.left[j] = pass.left[k] => j = k
    /\ pass.blind \in BOOLEAN
    /\ \A t \in pass.existing :
          \E n \in 1..Len(tickets) : tickets[n].probe = pass.probe /\ tickets[n].target = t

\* What is on file for the probe at hand was listed, or filed in this pass for
\* a unit that is no longer left.
SeenSound ==
    ~pass.blind =>
        \A n \in 1..Len(tickets) :
            tickets[n].open /\ tickets[n].probe = pass.probe =>
                \/ tickets[n].target \in pass.existing
                \/ \E v \in Units : v \notin ToSet(pass.left) /\ v.target = tickets[n].target

OnFileIn(u) == \E n \in 1..Len(tickets) : tickets[n].probe = u.probe /\ tickets[n].target = u.target

\* Of what the pass has behind it, only its failures have no ticket.
Missed == {v \in told.units : v.unit \notin ToSet(pass.left) /\ ~OnFileIn(v.unit)}
PassedSound == pass.phase = "file" => Cardinality(Missed) <= auditFaults

PassIsRecord(p) ==
    p \in [phase : {p.phase}, left : {p.left}, probe : {p.probe}, existing : {p.existing}, blind : {p.blind}]

AuditSound ==
    /\ tickets \in Seq(TicketRecord)
    /\ auditFaults \in 0..MaxAuditFaults
    /\ PassIsRecord(pass) /\ pass.phase \in {"idle", "file"}
    /\ pass.phase = "idle" => pass = NoPass
    /\ ToldSound /\ LeftSound /\ SeenSound /\ PassedSound
    /\ OneTicketPerTarget

LEMMA EmptyOrder ==
    /\ <<>> \in Seq(Units) /\ ToSet(<<>>) = {}
    /\ \A j, k \in 1..Len(<<>>) : <<>>[j] = <<>>[k] => j = k
BY EmptySeq DEF ToSet

LEMMA AuditFaultKeeps ==
    ASSUME auditFaults \in 0..MaxAuditFaults, AuditFault
    PROVE  auditFaults' \in 0..MaxAuditFaults /\ auditFaults' = auditFaults + 1
BY AuditAssumption DEF AuditFault

(* The misses are among the units.                                          *)
LEMMA ToldFinite == ASSUME ToldSound PROVE IsFiniteSet(told.units)
<1>1. PICK f : f = [v \in told.units |-> v.unit]
  OBVIOUS
<1>2. f \in Injection(told.units, Units)
  BY <1>1 DEF ToldSound, Injection, IsInjective
<1> QED BY <1>2, AuditAssumption, FS_Injection

LEMMA MissedFinite == ASSUME ToldSound PROVE IsFiniteSet(Missed) /\ Cardinality(Missed) \in Nat
<1>1. Missed \in SUBSET told.units
  BY DEF Missed
<1> QED BY <1>1, ToldFinite, FS_Subset, FS_CardinalityType

THEOREM AuditInitSound == ASSUME AuditInit PROVE AuditSound
<1> USE DEF AuditInit
<1>1. tickets \in Seq(TicketRecord) /\ Len(tickets) = 0 /\ told.units = {}
  OBVIOUS
<1>2. auditFaults \in 0..MaxAuditFaults
  BY AuditAssumption
<1>3. pass.phase = "idle" /\ pass.left = <<>> /\ pass.blind = FALSE /\ pass.existing = {} /\ pass = NoPass
  BY DEF NoPass
<1>4. ToldSound
  BY <1>1 DEF ToldSound
<1>5. LeftSound
  <2>1. pass.left \in Seq(Units) /\ ToSet(pass.left) = {}
    BY <1>3, EmptyOrder
  <2>2. \A j, k \in 1..Len(pass.left) : pass.left[j] = pass.left[k] => j = k
    BY <1>3
  <2> QED BY <1>3, <2>1, <2>2 DEF LeftSound
<1>6. SeenSound
  BY <1>1 DEF SeenSound
<1>7. OneTicketPerTarget
  BY DEF OneTicketPerTarget
<1>8. PassIsRecord(pass)
  BY DEF PassIsRecord, NoPass
<1> QED BY <1>1, <1>2, <1>3, <1>4, <1>5, <1>6, <1>7, <1>8 DEF AuditSound, PassedSound

-----------------------------------------------------------------------------
(* Each step.                                                               *)

\* The records are what the steps make of them.
TicketOf(u, blind) ==
    [probe |-> u.probe, target |-> u.target, open |-> TRUE, found |-> TRUE, blind |-> blind]

LEMMA ReportKeeps == ASSUME AuditSound, NEW filing \in BOOLEAN, Report(filing) PROVE AuditSound'
<1>1. tickets \in Seq(TicketRecord) /\ tickets' = tickets /\ auditFaults \in 0..MaxAuditFaults
      /\ OneTicketPerTarget
  BY DEF AuditSound, Report
<1>2. PICK crashed \in SUBSET ToSet(Probes) :
        /\ IF crashed = {} THEN UNCHANGED auditFaults ELSE AuditFault
        /\ told' = [units |-> {[unit |-> u, severity |-> Severity(u)] : u \in audit(crashed)},
                    crashed |-> crashed]
        /\ IF filing /\ audit(crashed) # {}
           THEN \E left \in by_probe(audit(crashed)) :
                  pass' = [NoPass EXCEPT !.phase = "file", !.left = left]
           ELSE pass' = NoPass
  BY DEF Report
<1>3. auditFaults' \in 0..MaxAuditFaults
  BY <1>1, <1>2, AuditFaultKeeps
<1>4. \A u \in audit(crashed) : /\ u \in Units /\ u.probe \in ToSet(Probes)
                                /\ u.probe \notin crashed /\ Severity(u) \in {1, 2}
  BY DEF audit, scan, Severity
<1>5. \A v \in told'.units : \E u \in audit(crashed) : v = [unit |-> u, severity |-> Severity(u)]
  BY <1>2
<1>6. {v.unit : v \in told'.units} = audit(crashed)
  <2>1. ASSUME NEW u \in audit(crashed) PROVE \E v \in told'.units : v.unit = u
    <3>1. [unit |-> u, severity |-> Severity(u)] \in told'.units
      BY <1>2
    <3> QED BY <3>1
  <2>2. ASSUME NEW v \in told'.units PROVE v.unit \in audit(crashed)
    BY <1>5, <2>2
  <2> QED BY <2>1, <2>2
<1>14. ToldSound'
  <2>1. told'.crashed = crashed
    BY <1>2
  <2>2. ASSUME NEW v \in told'.units
        PROVE  /\ v.unit \in Units /\ v.unit.probe \in ToSet(Probes)
               /\ v.unit.probe \notin told'.crashed /\ v.severity \in {1, 2}
    BY <1>4, <1>5, <2>1, <2>2
  <2>3. ASSUME NEW v \in told'.units, NEW w \in told'.units, v.unit = w.unit PROVE v = w
    BY <1>5, <2>3
  <2> QED BY <2>2, <2>3 DEF ToldSound
<1>7. IsFiniteSet(audit(crashed))
  BY <1>4, AuditAssumption, FS_Subset
<1>8. OneTicketPerTarget'
  BY <1>1 DEF OneTicketPerTarget
<1>9. /\ pass'.blind = FALSE /\ pass'.existing = {} /\ pass'.probe = "none"
      /\ pass'.phase \in {"idle", "file"}
      /\ pass'.phase = "idle" => pass' = NoPass
      /\ pass'.left \in Seq(Units) /\ ToSet(pass'.left) \subseteq audit(crashed) /\ PassIsRecord(pass')
      /\ \A j, k \in 1..Len(pass'.left) : pass'.left[j] = pass'.left[k] => j = k
      /\ pass'.phase = "file" => ToSet(pass'.left) = audit(crashed)
  <2>1. CASE ~(filing /\ audit(crashed) # {})
    <3>1. pass' = NoPass
      BY <1>2, <2>1
    <3>2. pass'.left = <<>> /\ pass'.phase = "idle" /\ pass'.blind = FALSE /\ pass'.existing = {}
          /\ pass'.probe = "none" /\ PassIsRecord(pass')
      BY <3>1 DEF NoPass, PassIsRecord
    <3>3. pass'.left \in Seq(Units) /\ ToSet(pass'.left) = {}
      BY <3>2, EmptyOrder
    <3>4. \A j, k \in 1..Len(pass'.left) : pass'.left[j] = pass'.left[k] => j = k
      BY <3>2
    <3> QED BY <3>1, <3>2, <3>3, <3>4
  <2>2. CASE filing /\ audit(crashed) # {}
    <3>1. PICK left \in by_probe(audit(crashed)) : pass' = [NoPass EXCEPT !.phase = "file", !.left = left]
      BY <1>2, <2>2
    <3>2. left \in SetToSeqs(audit(crashed))
      BY DEF by_probe
    <3>3. /\ left \in Seq(audit(crashed)) /\ ToSet(left) = audit(crashed)
          /\ \A j, k \in 1..Len(left) : left[j] = left[k] => j = k
      BY <1>7, <3>2, OrderOf
    <3>4. left \in Seq(Units)
      BY <1>4, <3>3, SeqMonotonic
    <3>5. pass' = [phase |-> "file", left |-> left, probe |-> "none", existing |-> {}, blind |-> FALSE]
      BY <3>1 DEF NoPass
    <3>6. PassIsRecord(pass')
      BY <3>5 DEF PassIsRecord
    <3> QED BY <3>3, <3>4, <3>5, <3>6
  <2> QED BY <2>1, <2>2
<1>10. LeftSound'
  BY <1>6, <1>9 DEF LeftSound
<1>11. SeenSound'
  <2> SUFFICES ASSUME NEW n \in 1..Len(tickets), tickets[n].probe = "none" PROVE FALSE
    BY <1>1, <1>9 DEF SeenSound
  <2>1. tickets[n] \in TicketRecord
    BY <1>1, ElementOfSeq
  <2> QED BY <2>1, AuditAssumption DEF TicketRecord
<1>12. PassedSound'
  <2>1. pass'.phase = "file" => Missed' = {}
    BY <1>6, <1>9 DEF Missed
  <2>2. Cardinality({}) = 0
    BY FS_EmptySet
  <2>3. 0 <= auditFaults'
    BY <1>3, AuditAssumption
  <2> QED BY <2>1, <2>2, <2>3 DEF PassedSound
<1>13. tickets' \in Seq(TicketRecord)
  BY <1>1
<1> QED BY <1>3, <1>14, <1>1, <1>8, <1>9, <1>10, <1>11, <1>12, <1>13 DEF AuditSound

(* Tickets only change in what does not say what they are for.              *)
LEMMA MissedShrinks ==
    ASSUME ToldSound, UNCHANGED told, ToldSound', PassedSound, pass.phase = "file",
           auditFaults \in Nat, auditFaults' \in Nat, auditFaults <= auditFaults',
           \A v \in told.units : v.unit \notin ToSet(pass'.left) /\ ~OnFileIn(v.unit)'
                                   => v.unit \notin ToSet(pass.left) /\ ~OnFileIn(v.unit)
    PROVE  PassedSound'
<1>1. Missed' \in SUBSET Missed
  BY DEF Missed
<1>2. IsFiniteSet(Missed) /\ Cardinality(Missed) \in Nat
  BY MissedFinite
<1>3. Cardinality(Missed') <= Cardinality(Missed) /\ Cardinality(Missed') \in Nat
  BY <1>1, <1>2, FS_Subset, FS_CardinalityType
<1> QED BY <1>2, <1>3 DEF PassedSound

LEMMA ExistingKeeps == ASSUME AuditSound, _existing_targets_for_probe PROVE AuditSound'
<1> DEFINE probe == Head(pass.left).probe
           open == {n \in DOMAIN tickets : tickets[n].open /\ tickets[n].probe = probe}
           found == {n \in Listed(probe) : tickets[n].found}
<1> USE DEF AuditSound
<1>1. /\ pass.phase = "file" /\ pass.left # <<>>
      /\ tickets' = tickets /\ told' = told
  BY DEF _existing_targets_for_probe
<1>2. auditFaults' \in 0..MaxAuditFaults /\ auditFaults \in Nat /\ auditFaults' \in Nat /\ auditFaults <= auditFaults'
  BY AuditFaultKeeps, AuditAssumption DEF _existing_targets_for_probe
<1>3. ToldSound'
  BY <1>1 DEF ToldSound
<1>4. OneTicketPerTarget'
  BY <1>1 DEF OneTicketPerTarget
<1>5. PICK ns \in SUBSET open, blind \in BOOLEAN :
        /\ blind \/ ns = open
        /\ pass' = [pass EXCEPT !.probe = probe, !.blind = blind, !.existing = {tickets[n].target : n \in ns}]
  <2>1. found \subseteq open
    BY DEF Listed
  <2>2. CASE pass' = [pass EXCEPT !.probe = probe, !.blind = (found # open),
                                  !.existing = {tickets[n].target : n \in found}]
    BY <2>1, <2>2
  <2>3. CASE pass' = [pass EXCEPT !.probe = probe, !.blind = TRUE,
                                  !.existing = {tickets[n].target : n \in {}}]
    BY <2>3
  <2> QED BY <2>2, <2>3 DEF _existing_targets_for_probe
<1>6. /\ PassIsRecord(pass') /\ pass'.phase = "file" /\ pass'.left = pass.left
      /\ pass'.probe = probe /\ pass'.blind = blind /\ pass'.existing = {tickets[n].target : n \in ns}
  <2> HIDE DEF probe, AuditSound
  <2>1. PassIsRecord(pass)
    BY DEF AuditSound
  <2>2. PICK existing : existing = {tickets[n].target : n \in ns}
    OBVIOUS
  <2>3. pass' = [pass EXCEPT !.probe = probe, !.blind = blind, !.existing = existing]
    BY <1>5, <2>2
  <2>4. pass' \in [phase : {"file"}, left : {pass.left}, probe : {probe}, existing : {existing}, blind : {blind}]
    BY <1>1, <2>1, <2>3 DEF PassIsRecord
  <2> QED BY <2>2, <2>4 DEF PassIsRecord
<1>7. DOMAIN tickets = 1..Len(tickets)
  OBVIOUS
<1> HIDE DEF probe, open, found
<1>8. \A n \in ns : n \in 1..Len(tickets) /\ tickets[n].probe = probe
  BY <1>7 DEF open
<1>9. LeftSound'
  BY <1>1, <1>6, <1>8 DEF LeftSound
<1>10. SeenSound'
  <2> SUFFICES ASSUME ~blind, NEW n \in 1..Len(tickets), tickets[n].open, tickets[n].probe = probe
               PROVE  tickets[n].target \in pass'.existing
    BY <1>1, <1>6 DEF SeenSound
  <2>1. n \in ns
    BY <1>5, <1>7 DEF open
  <2> QED BY <1>6, <2>1
<1>11. PassedSound'
  BY <1>1, <1>2, <1>3, <1>6, MissedShrinks DEF OnFileIn
<1>12. tickets' \in Seq(TicketRecord) /\ PassIsRecord(pass') /\ pass'.phase = "file"
  BY <1>1, <1>6 DEF PassIsRecord
<1> QED BY <1>2, <1>3, <1>4, <1>9, <1>10, <1>11, <1>12

(* A ticket more, and what it is for no longer left.                        *)
LEMMA FiledKeeps ==
    ASSUME AuditSound, pass.phase = "file", pass.left # <<>>, Head(pass.left).probe = pass.probe,
           Head(pass.left).target \notin pass.existing,
           tickets' = Append(tickets, TicketOf(Head(pass.left), pass.blind))
    PROVE  /\ tickets' \in Seq(TicketRecord) /\ Len(tickets') = Len(tickets) + 1
           /\ Len(tickets) \in Nat
           /\ \A n \in 1..Len(tickets) : tickets'[n] = tickets[n]
           /\ tickets'[Len(tickets) + 1] = TicketOf(Head(pass.left), pass.blind)
           /\ OneTicketPerTarget'
<1> DEFINE u == Head(pass.left)
           new == TicketOf(u, pass.blind)
<1>1. u \in Units /\ u \in ToSet(pass.left) /\ u.probe \in ToSet(Probes)
  <2>1. u \in ToSet(pass.left)
    BY TailOfOrder DEF AuditSound, LeftSound
  <2>2. PICK v \in told.units : v.unit = u
    BY <2>1 DEF AuditSound, LeftSound
  <2> QED BY <2>1, <2>2 DEF AuditSound, ToldSound
<1>2. new \in TicketRecord
  BY <1>1 DEF TicketOf, TicketRecord, AuditSound, LeftSound
<1>3. tickets \in Seq(TicketRecord)
  BY DEF AuditSound
<1>4. /\ tickets' \in Seq(TicketRecord) /\ Len(tickets') = Len(tickets) + 1
      /\ Len(tickets) \in Nat /\ DOMAIN tickets = 1..Len(tickets) /\ DOMAIN tickets' = 1..(Len(tickets) + 1)
      /\ \A n \in 1..Len(tickets) : tickets'[n] = tickets[n]
      /\ tickets'[Len(tickets) + 1] = new
  <2> HIDE DEF new
  <2>1. tickets' = Append(tickets, new)
    BY DEF new
  <2> QED BY <1>2, <1>3, <2>1, AppendProperties, LenProperties
<1>5. new.open = TRUE /\ new.probe = u.probe /\ new.target = u.target /\ new.blind = pass.blind
  BY DEF TicketOf
<1> HIDE DEF u, new
<1>6. OneTicketPerTarget'
  <2> SUFFICES ASSUME NEW m \in 1..(Len(tickets) + 1), NEW n \in 1..(Len(tickets) + 1), m < n,
                      tickets'[m].open, tickets'[n].open, ~tickets'[n].blind,
                      tickets'[m].probe = tickets'[n].probe, tickets'[m].target = tickets'[n].target
               PROVE  \E a, b \in Units : a # b /\ a.target = tickets'[n].target /\ b.target = a.target
    BY <1>4 DEF OneTicketPerTarget
  <2>1. m \in 1..Len(tickets) /\ tickets'[m] = tickets[m]
    BY <1>4
  <2>2. CASE n \in 1..Len(tickets)
    BY <1>4, <2>1, <2>2 DEF AuditSound, OneTicketPerTarget
  <2>3. CASE n = Len(tickets) + 1
    <3>1. tickets[m].open /\ tickets[m].probe = pass.probe /\ tickets[m].target = u.target /\ ~pass.blind
      BY <1>4, <1>5, <2>1, <2>3 DEF u
    <3>2. tickets[m].target \notin pass.existing
      BY <3>1 DEF u
    <3>3. PICK v \in Units : v \notin ToSet(pass.left) /\ v.target = tickets[m].target
      BY <2>1, <3>1, <3>2 DEF AuditSound, SeenSound
    <3>4. v # u /\ u \in Units /\ u.target = tickets'[n].target /\ v.target = u.target
      BY <1>1, <1>4, <1>5, <2>3, <3>1, <3>3
    <3> QED BY <3>4
  <2> QED BY <1>4, <2>2, <2>3
<1> QED BY <1>4, <1>6 DEF u, new

LEMMA FileKeeps == ASSUME AuditSound, file_violations PROVE AuditSound'
<1>0. PICK u : u = Head(pass.left)
  OBVIOUS
<1>1. /\ pass.phase = "file" /\ pass.left # <<>> /\ u.probe = pass.probe /\ told' = told
      /\ pass' = [pass EXCEPT !.left = Tail(pass.left)]
  BY <1>0 DEF file_violations, AfterFailure
<1>2. /\ auditFaults' \in 0..MaxAuditFaults /\ auditFaults \in Nat /\ auditFaults' \in Nat
      /\ auditFaults' = auditFaults \/ auditFaults' = auditFaults + 1
  BY AuditFaultKeeps, AuditAssumption DEF file_violations, AuditSound
<1>3. /\ PassIsRecord(pass') /\ pass'.phase = "file" /\ pass'.left = Tail(pass.left)
      /\ pass'.probe = pass.probe /\ pass'.blind = pass.blind /\ pass'.existing = pass.existing
  <2>1. PassIsRecord(pass)
    BY DEF AuditSound
  <2>2. pass' \in [phase : {"file"}, left : {Tail(pass.left)}, probe : {pass.probe},
                   existing : {pass.existing}, blind : {pass.blind}]
    BY <1>1, <2>1 DEF PassIsRecord
  <2> QED BY <2>2 DEF PassIsRecord
<1>4. /\ u \in Units /\ Tail(pass.left) \in Seq(Units)
      /\ \A i, j \in 1..Len(Tail(pass.left)) : Tail(pass.left)[i] = Tail(pass.left)[j] => i = j
      /\ ToSet(pass.left) = ToSet(Tail(pass.left)) \cup {u} /\ u \notin ToSet(Tail(pass.left))
  <2>1. pass.left \in Seq(Units) /\ \A i, j \in 1..Len(pass.left) : pass.left[i] = pass.left[j] => i = j
    BY DEF AuditSound, LeftSound
  <2> QED BY <1>0, <1>1, <2>1, TailOfOrder
<1>5. ToldSound'
  BY <1>1 DEF ToldSound, AuditSound
<1>6. \/ tickets' = tickets /\ u.target \in pass.existing
      \/ tickets' = tickets /\ auditFaults' = auditFaults + 1
      \/ tickets' = Append(tickets, TicketOf(u, pass.blind)) /\ u.target \notin pass.existing
  BY <1>0 DEF file_violations, OnFile, Ticket, TicketOf, AuditFault
<1>7. /\ tickets' \in Seq(TicketRecord) /\ Len(tickets) \in Nat
      /\ \A n \in 1..Len(tickets) : n \in 1..Len(tickets') /\ tickets'[n] = tickets[n]
      /\ OneTicketPerTarget'
      /\ \A n \in 1..Len(tickets') : n \in 1..Len(tickets) \/ tickets'[n] = TicketOf(u, pass.blind)
      /\ tickets' # tickets => \E n \in 1..Len(tickets') : tickets'[n] = TicketOf(u, pass.blind)
  <2>1. CASE tickets' = tickets
    <3>1. OneTicketPerTarget'
      BY <2>1 DEF OneTicketPerTarget, AuditSound
    <3> QED BY <2>1, <3>1 DEF AuditSound
  <2>2. CASE tickets' = Append(tickets, TicketOf(u, pass.blind)) /\ u.target \notin pass.existing
    <3>1. /\ tickets' \in Seq(TicketRecord) /\ Len(tickets') = Len(tickets) + 1
          /\ Len(tickets) \in Nat
          /\ \A n \in 1..Len(tickets) : tickets'[n] = tickets[n]
          /\ tickets'[Len(tickets) + 1] = TicketOf(u, pass.blind)
          /\ OneTicketPerTarget'
      BY <1>0, <1>1, <2>2, FiledKeeps
    <3>2. \A n \in 1..Len(tickets') : n \in 1..Len(tickets) \/ n = Len(tickets) + 1
      BY <3>1
    <3>3. \A n \in 1..Len(tickets) : n \in 1..Len(tickets')
      BY <3>1
    <3>4. Len(tickets) + 1 \in 1..Len(tickets')
      BY <3>1
    <3> QED BY <3>1, <3>2, <3>3, <3>4
  <2> QED BY <1>6, <2>1, <2>2
<1>8. LeftSound'
  <2>1. ToSet(Tail(pass.left)) \subseteq {v.unit : v \in told'.units}
    BY <1>1, <1>4 DEF AuditSound, LeftSound
  <2>2. ASSUME NEW t \in pass.existing
        PROVE  \E n \in 1..Len(tickets') : tickets'[n].probe = pass.probe /\ tickets'[n].target = t
    <3>1. PICK n \in 1..Len(tickets) : tickets[n].probe = pass.probe /\ tickets[n].target = t
      BY <2>2 DEF AuditSound, LeftSound
    <3> QED BY <1>7, <3>1
  <2>3. pass.blind \in BOOLEAN
    BY DEF AuditSound, LeftSound
  <2> QED BY <1>3, <1>4, <2>1, <2>2, <2>3 DEF LeftSound
<1>9. SeenSound'
  <2> SUFFICES ASSUME ~pass.blind, NEW n \in 1..Len(tickets'), tickets'[n].open, tickets'[n].probe = pass.probe
               PROVE  \/ tickets'[n].target \in pass.existing
                      \/ \E v \in Units : v \notin ToSet(Tail(pass.left)) /\ v.target = tickets'[n].target
    BY <1>3 DEF SeenSound
  <2>1. CASE n \in 1..Len(tickets)
    <3>1. \/ tickets[n].target \in pass.existing
          \/ \E v \in Units : v \notin ToSet(pass.left) /\ v.target = tickets[n].target
      BY <1>7, <2>1 DEF AuditSound, SeenSound
    <3> QED BY <1>4, <1>7, <2>1, <3>1
  <2>2. CASE tickets'[n] = TicketOf(u, pass.blind)
    BY <1>4, <2>2 DEF TicketOf
  <2> QED BY <1>7, <2>1, <2>2
<1>10. Len(tickets) \in Nat /\ \A w \in Units : OnFileIn(w) => OnFileIn(w)'
  BY <1>7 DEF OnFileIn
<1>11. OnFileIn(u)' \/ auditFaults' = auditFaults + 1
  <2>1. CASE tickets' = tickets /\ u.target \in pass.existing
    <3>1. PICK n \in 1..Len(tickets) : tickets[n].probe = pass.probe /\ tickets[n].target = u.target
      BY <2>1 DEF AuditSound, LeftSound
    <3> QED BY <1>1, <2>1, <3>1 DEF OnFileIn
  <2>2. CASE tickets' # tickets
    <3>1. PICK n \in 1..Len(tickets') : tickets'[n] = TicketOf(u, pass.blind)
      BY <1>7, <2>2
    <3> QED BY <3>1 DEF OnFileIn, TicketOf
  <2> QED BY <1>6, <2>1, <2>2
<1>12. PassedSound'
  <2>1. \A v \in told.units : v.unit \in Units
    BY DEF AuditSound, ToldSound
  <2>2. Missed' \subseteq Missed \cup {v \in told.units : v.unit = u /\ ~OnFileIn(u)'}
    BY <1>1, <1>3, <1>4, <1>10, <2>1 DEF Missed
  <2>3. IsFiniteSet(Missed) /\ Cardinality(Missed) \in Nat /\ Cardinality(Missed) <= auditFaults
    BY <1>1, MissedFinite DEF AuditSound, PassedSound
  <2>4. IsFiniteSet(Missed') /\ Cardinality(Missed') \in Nat
    <3>1. Missed' \in SUBSET told.units
      BY <1>1 DEF Missed
    <3> QED BY <3>1, ToldFinite, FS_Subset, FS_CardinalityType DEF AuditSound
  <2>5. CASE OnFileIn(u)'
    <3>1. Missed' \in SUBSET Missed
      BY <2>2, <2>5
    <3>2. Cardinality(Missed') <= Cardinality(Missed)
      BY <2>3, <3>1, FS_Subset
    <3> QED BY <1>2, <2>3, <2>4, <3>2 DEF PassedSound
  <2>6. CASE auditFaults' = auditFaults + 1
    <3>1. PICK w \in told.units : w.unit = u
      BY <1>4 DEF AuditSound, LeftSound
    <3>2. Missed' \in SUBSET (Missed \cup {w})
      BY <2>2, <3>1 DEF AuditSound, ToldSound
    <3>3. /\ IsFiniteSet(Missed \cup {w})
          /\ \/ Cardinality(Missed \cup {w}) = Cardinality(Missed)
             \/ Cardinality(Missed \cup {w}) = Cardinality(Missed) + 1
      BY <2>3, FS_AddElement
    <3>4. Cardinality(Missed') <= Cardinality(Missed \cup {w})
      BY <3>2, <3>3, FS_Subset
    <3> QED BY <1>2, <2>3, <2>4, <2>6, <3>3, <3>4 DEF PassedSound
  <2> QED BY <1>11, <2>5, <2>6
<1>13. PassIsRecord(pass') /\ pass'.phase = "file"
  BY <1>3 DEF PassIsRecord
<1> QED BY <1>2, <1>5, <1>7, <1>8, <1>9, <1>12, <1>13 DEF AuditSound

LEMMA FiledEndKeeps == ASSUME AuditSound, Filed_ PROVE AuditSound'
<1>1. pass' = NoPass /\ tickets' = tickets /\ told' = told /\ auditFaults' = auditFaults
  BY DEF Filed_
<1>2. /\ PassIsRecord(pass') /\ pass'.phase = "idle" /\ pass'.left = <<>>
      /\ pass'.probe = "none" /\ pass'.existing = {} /\ pass'.blind = FALSE
  BY <1>1 DEF NoPass, PassIsRecord
<1>3. LeftSound'
  <2>1. pass'.left \in Seq(Units) /\ ToSet(pass'.left) = {}
    BY <1>2, EmptyOrder
  <2>2. \A j, k \in 1..Len(pass'.left) : pass'.left[j] = pass'.left[k] => j = k
    BY <1>2
  <2> QED BY <1>2, <2>1, <2>2 DEF LeftSound
<1>4. SeenSound'
  <2> SUFFICES ASSUME NEW n \in 1..Len(tickets), tickets[n].probe = "none" PROVE FALSE
    BY <1>1, <1>2 DEF SeenSound
  <2>1. tickets[n] \in TicketRecord
    BY ElementOfSeq DEF AuditSound
  <2> QED BY <2>1, AuditAssumption DEF TicketRecord
<1>5. ToldSound' /\ PassedSound' /\ OneTicketPerTarget'
  BY <1>1, <1>2 DEF AuditSound, ToldSound, PassedSound, OneTicketPerTarget
<1> QED BY <1>1, <1>2, <1>3, <1>4, <1>5 DEF AuditSound

LEMMA TouchKeeps == ASSUME AuditSound, Touch PROVE AuditSound'
<1>1. pass' = pass /\ told' = told /\ auditFaults' = auditFaults /\ tickets \in Seq(TicketRecord)
  BY DEF Touch, AuditSound
<1>2. /\ tickets' \in Seq(TicketRecord) /\ Len(tickets') = Len(tickets)
      /\ \A n \in 1..Len(tickets) : /\ tickets'[n].probe = tickets[n].probe
                                    /\ tickets'[n].target = tickets[n].target
                                    /\ tickets'[n].blind = tickets[n].blind
                                    /\ tickets'[n].open => tickets[n].open
  <2>1. CASE tickets' = tickets
    BY <1>1, <2>1
  <2>2. CASE \E n \in DOMAIN tickets :
               tickets' \in {[tickets EXCEPT ![n].open = FALSE], [tickets EXCEPT ![n].found = FALSE]}
    <3>1. PICK n \in DOMAIN tickets :
            tickets' \in {[tickets EXCEPT ![n].open = FALSE], [tickets EXCEPT ![n].found = FALSE]}
      BY <2>2
    <3>2. n \in 1..Len(tickets) /\ tickets[n] \in TicketRecord
      BY <1>1, ElementOfSeq, LenProperties
    <3>3. PICK t \in {[tickets[n] EXCEPT !.open = FALSE], [tickets[n] EXCEPT !.found = FALSE]} :
            tickets' = [tickets EXCEPT ![n] = t]
      BY <3>1
    <3>4. /\ t \in TicketRecord /\ t.probe = tickets[n].probe /\ t.target = tickets[n].target
          /\ t.blind = tickets[n].blind
          /\ t.open => tickets[n].open
      BY <3>2, <3>3 DEF TicketRecord
    <3>5. /\ tickets' \in Seq(TicketRecord) /\ Len(tickets') = Len(tickets)
          /\ \A j \in 1..Len(tickets) : tickets'[j] = IF j = n THEN t ELSE tickets[j]
      BY <1>1, <3>2, <3>3, <3>4, ExceptSeq
    <3>6. ASSUME NEW j \in 1..Len(tickets)
          PROVE  /\ tickets'[j].probe = tickets[j].probe /\ tickets'[j].target = tickets[j].target
                 /\ tickets'[j].blind = tickets[j].blind
                 /\ tickets'[j].open => tickets[j].open
      <4>1. CASE j = n
        BY <3>4, <3>5, <4>1
      <4>2. CASE j # n
        BY <3>5, <4>2
      <4> QED BY <4>1, <4>2
    <3> QED BY <3>5, <3>6
  <2> QED BY <2>1, <2>2 DEF Touch
<1>3. DOMAIN tickets = 1..Len(tickets) /\ DOMAIN tickets' = 1..Len(tickets)
  BY <1>1, <1>2, LenProperties
<1>4. LeftSound'
  <2>1. LeftSound
    BY DEF AuditSound
  <2>2. ASSUME NEW t \in pass.existing
        PROVE  \E n \in 1..Len(tickets') : tickets'[n].probe = pass.probe /\ tickets'[n].target = t
    <3>1. PICK n \in 1..Len(tickets) : tickets[n].probe = pass.probe /\ tickets[n].target = t
      BY <2>1, <2>2 DEF LeftSound
    <3> QED BY <1>2, <3>1
  <2> QED BY <1>1, <2>1, <2>2 DEF LeftSound
<1>5. SeenSound'
  BY <1>1, <1>2 DEF AuditSound, SeenSound
<1>6. OneTicketPerTarget'
  BY <1>2, <1>3 DEF AuditSound, OneTicketPerTarget
<1>7. ToldSound' /\ PassedSound'
  <2>1. ToldSound' /\ Missed' = Missed
    BY <1>1, <1>2 DEF AuditSound, ToldSound, Missed, OnFileIn
  <2> QED BY <1>1, <2>1 DEF AuditSound, PassedSound
<1> QED BY <1>1, <1>2, <1>4, <1>5, <1>6, <1>7 DEF AuditSound

LEMMA AuditStep == ASSUME AuditSound, [AuditNext]_auditVars PROVE AuditSound'
<1>1. CASE UNCHANGED auditVars
  <2> USE <1>1 DEF auditVars
  <2>1. UNCHANGED <<ToldSound, LeftSound, SeenSound, PassedSound, OneTicketPerTarget>>
    BY DEF ToldSound, LeftSound, SeenSound, PassedSound, Missed, OnFileIn, OneTicketPerTarget
  <2> QED BY <2>1 DEF AuditSound
<1>2. CASE \E filing \in BOOLEAN : Report(filing)
  BY <1>2, ReportKeeps
<1> QED BY <1>1, <1>2, ExistingKeeps, FileKeeps, FiledEndKeeps, TouchKeeps DEF AuditNext

LEMMA AuditSoundIsSafe == ASSUME AuditSound PROVE AuditTypeOK /\ OneTicketPerTarget
BY DEF AuditSound, AuditTypeOK, ToldSound, LeftSound

(* A report has the violations of every probe that did not crash.           *)
LEMMA ReportIsolates ==
    ASSUME AuditSound, [AuditNext]_auditVars, passes' # passes, NEW p \in ToSet(Probes) \ told'.crashed
    PROVE  scan(p) \subseteq {v.unit : v \in told'.units}
<1>1. AuditSound /\ \E filing \in BOOLEAN : Report(filing)
  BY DEF AuditNext, auditVars, _existing_targets_for_probe, file_violations, Filed_, Touch
<1>2. PICK filing \in BOOLEAN : Report(filing)
  BY <1>1
<1>3. PICK crashed \in SUBSET ToSet(Probes) :
        told' = [units |-> {[unit |-> u, severity |-> Severity(u)] : u \in audit(crashed)}, crashed |-> crashed]
  BY <1>2 DEF Report
<1>4. p \notin crashed
  BY <1>3
<1> SUFFICES ASSUME NEW u \in scan(p) PROVE \E v \in told'.units : v.unit = u
  OBVIOUS
<1>5. u \in audit(crashed)
  BY <1>4 DEF audit
<1>6. [unit |-> u, severity |-> Severity(u)] \in told'.units
  BY <1>3, <1>5
<1> QED BY <1>6

(* At the end of a pass nothing is left: what has no ticket is a miss.      *)
LEMMA EndAccounts ==
    ASSUME AuditSound, [AuditNext]_auditVars, pass.phase = "file", pass'.phase = "idle"
    PROVE  Cardinality({v \in told.units :
               ~\E n \in DOMAIN tickets' : /\ tickets'[n].probe = v.unit.probe
                                           /\ tickets'[n].target = v.unit.target}) <= auditFaults'
<1>1. Filed_
  <2>1. ASSUME _existing_targets_for_probe \/ file_violations PROVE FALSE
    <3>1. PassIsRecord(pass)
      BY DEF AuditSound
    <3>2. pass'.phase = pass.phase
      BY <2>1, <3>1 DEF PassIsRecord, _existing_targets_for_probe, file_violations, AfterFailure
    <3> QED BY <3>2
  <2> QED BY <2>1 DEF AuditNext, auditVars, Report, Touch
<1>2. pass.left = <<>> /\ tickets' = tickets /\ auditFaults' = auditFaults
  BY <1>1 DEF Filed_
<1>3. ToSet(pass.left) = {}
  BY <1>2, EmptyOrder
<1>4. DOMAIN tickets = 1..Len(tickets)
  BY LenProperties DEF AuditSound
<1>5. {v \in told.units : ~\E n \in DOMAIN tickets' : /\ tickets'[n].probe = v.unit.probe
                                                      /\ tickets'[n].target = v.unit.target} = Missed
  BY <1>2, <1>3, <1>4 DEF Missed, OnFileIn
<1>6. Cardinality(Missed) <= auditFaults
  BY DEF AuditSound, PassedSound
<1> QED BY <1>2, <1>5, <1>6

\* codebase_audit.py file_violations and tick_checks.py run_codebase_audit:
\* one ticket per target but for what a list missed, a probe that crashes
\* hides nothing of the others, and a pass leaves no more violations without a
\* ticket than calls failed.
THEOREM AuditIsSafe == AuditSpec => AuditSafe
<1>1. AuditInit => AuditSound
  BY AuditInitSound
<1>2. AuditSound /\ [AuditNext]_auditVars => AuditSound'
  BY AuditStep
<1>3. AuditSpec => []AuditSound
  BY <1>1, <1>2, PTL DEF AuditSpec
<1>4. AuditSound => AuditTypeOK /\ OneTicketPerTarget
  BY AuditSoundIsSafe
<1>5. AuditSound /\ [AuditNext]_auditVars =>
        [passes' # passes =>
           \A p \in ToSet(Probes) \ told'.crashed : scan(p) \subseteq {v.unit : v \in told'.units}]_auditVars
  BY ReportIsolates
<1>6. AuditSound /\ [AuditNext]_auditVars =>
        [pass.phase = "file" /\ pass'.phase = "idle" =>
           Cardinality({v \in told.units :
               ~\E n \in DOMAIN tickets' : /\ tickets'[n].probe = v.unit.probe
                                           /\ tickets'[n].target = v.unit.target})
           <= auditFaults']_auditVars
  BY EndAccounts
<1>7. AuditSpec => CrashIsIsolated
  BY <1>3, <1>5, PTL DEF AuditSpec, CrashIsIsolated
<1>8. AuditSpec => EachIsFiled
  BY <1>3, <1>6, PTL DEF AuditSpec, EachIsFiled
<1> QED BY <1>3, <1>4, <1>7, <1>8, PTL DEF AuditSafe

-----------------------------------------------------------------------------
(* The mirrored log.  Between a tick_done and the next tick_start only the    *)
(* events of that tick_done are appended, and none of them was there before:  *)
(* SettledSound says where in the log they begin, and that what ends the task *)
(* of each outcome is among them or is left to append.                        *)

(* A set of numbers has a least one. *)
LEMMA MinIs ==
    ASSUME NEW S, S \subseteq Nat, S # {}
    PROVE  \E k \in S : \A j \in S : k <= j
  <1> DEFINE R == {pair \in Nat \X Nat : pair[1] < pair[2]}
  <1>1. IsWellFoundedOn(R, Nat)
    BY NatLessThanWellFounded DEF OpToRel
  <1>2. \A j, k \in Nat : j < k => <<j, k>> \in R
    OBVIOUS
  <1> HIDE DEF R
  <1>3. PICK k \in S : \A j \in S : ~(<<j, k>> \in R)
    BY <1>1, WFMin
  <1>4. ASSUME NEW j \in S PROVE k <= j
    <2>1. j \in Nat /\ k \in Nat
      OBVIOUS
    <2>2. ~(j < k)
      BY <1>2, <1>3, <2>1
    <2>3. QED  BY <2>1, <2>2
  <1>5. QED  BY <1>4

(* What holds first, and at the next place with every place, holds at all. *)
LEMMA Upward ==
    ASSUME NEW lo \in Nat, NEW hi \in Nat, NEW S, lo \in S,
           \A n \in lo..hi : n # hi /\ n \in S => n + 1 \in S
    PROVE  \A n \in lo..hi : n \in S
  <1> DEFINE Bad == {n \in lo..hi : n \notin S}
  <1>1. SUFFICES ASSUME Bad # {} PROVE FALSE
    OBVIOUS
  <1>2. PICK n \in Bad : \A j \in Bad : n <= j
    <2>1. Bad \subseteq Nat
      OBVIOUS
    <2> HIDE DEF Bad
    <2>2. QED  BY <1>1, <2>1, MinIs
  <1>3. n \in lo..hi /\ n \notin S /\ n # lo
    BY <1>2
  <1>4. n - 1 \in lo..hi /\ n - 1 # hi /\ n - 1 + 1 = n /\ ~(n <= n - 1)
    BY <1>3
  <1>5. n - 1 \in S
    BY <1>2, <1>4
  <1>6. QED  BY <1>3, <1>4, <1>5

(* The value of g at each place is told by the one before. *)
Unfolded(g, F, b, lo, hi) == g[lo] = b /\ \A n \in lo..hi : n # lo => g[n] = F[n][g[n - 1]]

(* Such a function exists. *)
LEMMA Unfolds ==
    ASSUME NEW lo \in Nat, NEW hi \in Nat, lo <= hi, NEW X, NEW b \in X,
           NEW F \in [lo..hi -> [X -> X]]
    PROVE  \E g \in [lo..hi -> X] : Unfolded(g, F, b, lo, hi)
  <1> DEFINE Unfolding(g, m) == Unfolded(g, F, b, lo, m)
             S == {m \in lo..hi : \E g \in [lo..m -> X] : Unfolding(g, m)}
  <1>1. lo \in S
    <2> DEFINE g == [n \in lo..lo |-> b]
    <2>1. g \in [lo..lo -> X] /\ Unfolding(g, lo)
      BY DEF Unfolded
    <2> HIDE DEF g
    <2>2. lo \in lo..hi
      OBVIOUS
    <2>3. QED  BY <2>1, <2>2
  <1>2. ASSUME NEW m \in lo..hi, m # hi, m \in S PROVE m + 1 \in S
    <2>1. PICK g \in [lo..m -> X] : Unfolding(g, m)
      BY <1>2
    <2> DEFINE h == [n \in lo..(m + 1) |-> IF n = m + 1 THEN F[m + 1][g[m]] ELSE g[n]]
    <2>2. m \in Nat /\ m + 1 \in lo..hi /\ m \in lo..m /\ m + 1 \in lo..(m + 1)
      BY <1>2
    <2>3. F[m + 1][g[m]] \in X
      BY <2>2
    <2>4. \A n \in lo..(m + 1) : n # m + 1 => n \in lo..m
      BY <2>2
    <2>5. h \in [lo..(m + 1) -> X]
      BY <2>3, <2>4
    <2>6. \A n \in lo..(m + 1) : n # lo => n - 1 \in lo..m /\ h[n - 1] = g[n - 1]
      BY <2>2
    <2>7. h[lo] = b
      BY <2>1, <2>2 DEF Unfolded
    <2>8. ASSUME NEW n \in lo..(m + 1), n # lo PROVE h[n] = F[n][h[n - 1]]
      <3>1. CASE n = m + 1
        <4>1. h[n - 1] = g[m]
          BY <2>2, <2>6, <2>8, <3>1
        <4>2. QED  BY <3>1, <4>1
      <3>2. CASE n # m + 1
        <4>1. n \in lo..m /\ h[n] = g[n]
          BY <2>4, <3>2
        <4>2. g[n] = F[n][g[n - 1]]
          BY <2>1, <2>8, <4>1 DEF Unfolded
        <4>3. QED  BY <2>6, <2>8, <4>1, <4>2
      <3>3. QED  BY <3>1, <3>2
    <2> HIDE DEF h
    <2>9. Unfolding(h, m + 1)
      BY <2>7, <2>8 DEF Unfolded
    <2>10. QED  BY <2>2, <2>5, <2>9
  <1> HIDE DEF S
  <1>3. \A m \in lo..hi : m \in S
    BY <1>1, <1>2, Upward
  <1>4. hi \in lo..hi
    OBVIOUS
  <1>5. QED  BY <1>3, <1>4 DEF S

Texts == STRING \cup {"", "none", "unknown", "accepted", "refused", "failed", "merged", "timeout", "compensated",
                       "task.planned", "task.dispatched", "task.completed", "task.failed",
                       "task.compensated", "task.heartbeat", "tick.started", "tick.completed",
                       "pr.opened", "pr.merged", "merge.blocked", "critique.issued",
                       "worker.observation", "worktree.reaped", "loop.halted"}
Refs == {"session"} \cup Nat
Marks == Texts \cup Nat \cup (Texts \X Texts)
Mirrored == [kind : Texts, legacy : Texts, tick : Nat, issue : Issues \cup {0}, worker : Refs,
             pr : Texts, step : Marks, status : Texts]
Score == [planned : Nat, completed : Nat, terminal : Texts, critiques : Nat, accepted : Nat,
          first : Texts]
Boards == [cursor : Nat, tasks : [Issues -> Score]]

(* The fields of an event. *)
LEMMA MirroredFields ==
    ASSUME NEW e \in Mirrored
    PROVE  /\ e.kind \in Texts /\ e.legacy \in Texts /\ e.tick \in Nat /\ e.issue \in Issues \cup {0}
           /\ e.worker \in Refs /\ e.pr \in Texts /\ e.step \in Marks /\ e.status \in Texts
  BY DEF Mirrored

-----------------------------------------------------------------------------
(* The scorecard. *)

(* A completion has the last word. *)
LEMMA FoldIs ==
    ASSUME NEW s \in Score, NEW e \in Mirrored, NEW n \in Nat
    PROVE  /\ _fold(s, e, n) \in Score
           /\ e.kind = "task.completed" \/ s.terminal = "task.completed"
                => _fold(s, e, n).terminal = "task.completed"
  <1>1. CASE e.kind = "task.planned"
    <2>1. _fold(s, e, n) = [s EXCEPT !.planned = IF s.planned = 0 THEN n ELSE s.planned]
      BY <1>1 DEF _fold, Abandonment, TerminalKinds
    <2>2. QED  BY <1>1, <2>1 DEF Score
  <1>2. CASE e.kind = "task.completed"
    <2>1. _fold(s, e, n) = [s EXCEPT !.terminal = e.kind, !.completed = n]
      BY <1>2 DEF _fold, Abandonment, TerminalKinds
    <2> DEFINE x == [s EXCEPT !.terminal = "task.completed"]
    <2>2. x \in Score
      BY DEF Score, Texts
    <2>5. x.terminal = "task.completed"
      BY DEF Score
    <2>3. _fold(s, e, n) = [x EXCEPT !.completed = n]
      BY <1>2, <2>1
    <2> HIDE DEF x
    <2>4. QED  BY <2>2, <2>3, <2>5 DEF Score
  <1>3. CASE e.kind \in Abandonment
    <2>1. _fold(s, e, n) =
            [s EXCEPT !.terminal = IF s.terminal = "task.completed" THEN s.terminal ELSE e.kind]
      BY <1>3 DEF _fold, Abandonment, TerminalKinds
    <2>2. e.kind \in Texts /\ e.kind # "task.completed"
      BY <1>3, MirroredFields DEF Abandonment
    <2>3. QED  BY <2>1, <2>2 DEF Score
  <1>4. CASE e.kind = "critique.issued"
    <2>1. PICK a \in Nat, f \in Texts :
             _fold(s, e, n) = [s EXCEPT !.critiques = s.critiques + 1, !.accepted = a, !.first = f]
      <3> DEFINE a == IF e.legacy = "critic_verdict_merged" THEN s.accepted + 1 ELSE s.accepted
                 f == IF s.first # "unknown" THEN s.first
                      ELSE IF e.legacy = "critic_verdict_merged" THEN "accepted" ELSE "refused"
      <3> HIDE DEF a, f
      <3>1. a \in Nat /\ f \in Texts
        <4>1. s.accepted \in Nat /\ s.first \in Texts
          BY DEF Score
        <4>2. s.accepted + 1 \in Nat
          BY <4>1
        <4>3. a \in Nat
          BY <4>1, <4>2 DEF a
        <4>4. f \in Texts
          BY <4>1 DEF f, Texts
        <4>5. QED  BY <4>3, <4>4
      <3>2. _fold(s, e, n) = [s EXCEPT !.critiques = s.critiques + 1, !.accepted = a, !.first = f]
        BY <1>4 DEF _fold, Abandonment, TerminalKinds, a, f
      <3>3. QED  BY <3>1, <3>2
    <2> DEFINE x == [s EXCEPT !.critiques = s.critiques + 1]
               y == [x EXCEPT !.accepted = a]
    <2>2. x \in Score /\ x.terminal = s.terminal
      BY DEF Score
    <2> HIDE DEF x
    <2>3. y \in Score /\ y.terminal = s.terminal
      BY <2>2 DEF Score
    <2>4. _fold(s, e, n) = [y EXCEPT !.first = f]
      BY <2>1 DEF x
    <2> HIDE DEF y
    <2>5. _fold(s, e, n) \in Score /\ _fold(s, e, n).terminal = s.terminal
      BY <2>3, <2>4 DEF Score
    <2>6. QED  BY <1>4, <2>5
  <1>5. CASE e.kind \notin {"task.planned", "task.completed", "critique.issued"} \cup Abandonment
    <2>1. _fold(s, e, n) = s
      BY <1>5 DEF _fold, Abandonment, TerminalKinds
    <2>2. QED  BY <1>5, <2>1
  <1>6. QED  BY <1>1, <1>2, <1>3, <1>4, <1>5

Finished(score) == score.terminal = "task.completed"
Completes(e) == e.kind = "task.completed" /\ e.issue # 0

(* One event. *)
LEMMA ApplyIs ==
    ASSUME durable \in Seq(Mirrored), NEW b \in Boards, NEW n \in 1..Len(durable)
    PROVE  /\ apply(b, n) \in Boards
           /\ n <= b.cursor => apply(b, n) = b
           /\ n > b.cursor => apply(b, n).cursor = n
           /\ \A i \in Issues : Finished(b.tasks[i]) => Finished(apply(b, n).tasks[i])
           /\ n > b.cursor /\ Completes(durable[n]) => Finished(apply(b, n).tasks[durable[n].issue])
  <1> DEFINE e == durable[n]
  <1>1. e \in Mirrored /\ n \in Nat /\ e.issue \in Issues \cup {0}
    <2>1. e \in Mirrored
      BY ElementOfSeq
    <2>2. QED  BY <2>1, MirroredFields
  <1>2. b.cursor \in Nat /\ b.tasks \in [Issues -> Score]
    BY DEF Boards
  <1> HIDE DEF e
  <1>3. CASE n <= b.cursor
    <2>1. apply(b, n) = b
      BY <1>3 DEF apply
    <2>2. QED  BY <1>1, <1>2, <1>3, <2>1
  <1>4. CASE n > b.cursor /\ e.issue = 0
    <2>1. apply(b, n) = [cursor |-> n, tasks |-> b.tasks]
      BY <1>1, <1>2, <1>4 DEF apply, e
    <2>2. QED  BY <1>1, <1>2, <1>4, <2>1 DEF Boards, Completes, e
  <1>5. CASE n > b.cursor /\ e.issue # 0
    <2> DEFINE s == _fold(b.tasks[e.issue], e, n)
               u == [b.tasks EXCEPT ![e.issue] = s]
    <2>1. apply(b, n) = [cursor |-> n, tasks |-> u]
      BY <1>1, <1>2, <1>5 DEF apply, e
    <2>2. e.issue \in Issues
      BY <1>1, <1>5
    <2>3. b.tasks[e.issue] \in Score
      BY <1>2, <2>2
    <2>4. s \in Score /\ (e.kind = "task.completed" \/ Finished(b.tasks[e.issue]) => Finished(s))
      BY <1>1, <2>3, FoldIs DEF Finished
    <2> HIDE DEF s
    <2>5. u \in [Issues -> Score] /\ \A i \in Issues : u[i] = IF i = e.issue THEN s ELSE b.tasks[i]
      BY <1>2, <2>2, <2>4
    <2> HIDE DEF u
    <2>6. apply(b, n) \in Boards /\ apply(b, n).cursor = n /\ apply(b, n).tasks = u
      BY <1>1, <2>1, <2>5 DEF Boards
    <2>7. \A i \in Issues : Finished(b.tasks[i]) => Finished(u[i])
      BY <2>4, <2>5
    <2>8. Completes(e) => Finished(u[e.issue])
      BY <2>2, <2>4, <2>5 DEF Completes
    <2>9. ~(n <= b.cursor)
      BY <1>1, <1>2, <1>5
    <2>10. QED  BY <2>6, <2>7, <2>8, <2>9 DEF e
  <1>6. QED  BY <1>1, <1>2, <1>3, <1>4, <1>5

(* A replay is told event by event. *)
LEMMA ReplayIs ==
    ASSUME durable \in Seq(Mirrored), NEW b \in Boards, NEW from \in 0..Len(durable)
    PROVE  \E g \in [from..Len(durable) -> Boards] :
              /\ g[from] = b /\ Replay(b, from) = g[Len(durable)]
              /\ \A n \in from..Len(durable) : n # from => g[n] = apply(g[n - 1], n)
  <1> DEFINE len == Len(durable)
             Unfolding(g) == g = [n \in from..len |-> IF n = from THEN b ELSE apply(g[n - 1], n)]
             u == CHOOSE g : Unfolding(g)
             F == [n \in from..len |-> [x \in Boards |-> IF n = from THEN b ELSE apply(x, n)]]
  <1>1. len \in Nat /\ from \in Nat /\ from <= len
    OBVIOUS
  <1>2. \A n \in from..len : n # from => n \in 1..len /\ n - 1 \in from..len
    BY <1>1
  <1>3. \A n \in from..len, x \in Boards : n # from => apply(x, n) \in Boards
    BY <1>2, ApplyIs
  <1>4. F \in [from..len -> [Boards -> Boards]]
    BY <1>3
  <1>5. \A n \in from..len, x \in Boards : n # from => F[n][x] = apply(x, n)
    OBVIOUS
  <1>6. Replay(b, from) = u[len]
    BY DEF Replay
  <1> HIDE DEF F, len, u
  <1>7. PICK g \in [from..len -> Boards] : Unfolded(g, F, b, from, len)
    BY <1>1, <1>4, Unfolds
  <1>8. \A n \in from..len : g[n] = IF n = from THEN b ELSE apply(g[n - 1], n)
    BY <1>2, <1>5, <1>7 DEF Unfolded
  <1>9. Unfolding(g)
    BY <1>7, <1>8
  <1>10. Unfolding(u)
    BY <1>9 DEF u
  <1> DEFINE S == {n \in from..len : u[n] \in Boards}
  <1>11. \A n \in from..len : u[n] = IF n = from THEN b ELSE apply(u[n - 1], n)
    BY <1>10
  <1>12. from \in S
    BY <1>1, <1>11
  <1>13. \A n \in from..len : n # len /\ n \in S => n + 1 \in S
    <2>1. ASSUME NEW n \in from..len, n # len, n \in S PROVE n + 1 \in S
      <3>1. n + 1 \in from..len /\ n + 1 # from /\ n + 1 - 1 = n
        BY <1>1, <2>1
      <3>2. u[n + 1] = apply(u[n], n + 1)
        BY <1>11, <3>1
      <3>3. QED  BY <1>3, <2>1, <3>1, <3>2
    <2>2. QED  BY <2>1
  <1>14. \A n \in from..len : n \in S
    <2> HIDE DEF S
    <2>1. QED  BY <1>1, <1>12, <1>13, Upward
  <1>15. u \in [from..len -> Boards]
    BY <1>10, <1>14
  <1>16. u[from] = b /\ \A n \in from..len : n # from => u[n] = apply(u[n - 1], n)
    BY <1>1, <1>11
  <1>17. QED  BY <1>6, <1>15, <1>16 DEF len

-----------------------------------------------------------------------------
(* What becomes of a record. *)

RecordRead == [kind : Texts, ticked : BOOLEAN, by : Texts, issue : Issues \cup {0}, issues : Seq(Issues \cup {0}),
        status : Texts, pr : Texts, stage : Texts, old : Texts, new : Texts, verdict : Texts,
        attempt : Nat, outcomes : Seq([issue : Issues, status : Texts, pr : Texts])]

(* The issues of a record are among those that records name. *)
LEMMA SaidIs == Said \subseteq RecordRead
  <1>1. SUFFICES ASSUME NEW r \in Said PROVE r \in RecordRead
    OBVIOUS
  <1>2. r \in Records
    BY MirrorAssumption
  <1>3. \A n : n = r.issue \/ n \in ToSet(r.issues) \/ (\E k \in DOMAIN r.outcomes : n = r.outcomes[k].issue)
               => n \in Issues \cup {0}
    <2>1. \A n \in IssuesOf(r) : n \in Issues \cup {0}
      BY DEF Issues
    <2>2. \A n : n = r.issue \/ n \in ToSet(r.issues) \/ (\E k \in DOMAIN r.outcomes : n = r.outcomes[k].issue)
                 => n \in IssuesOf(r)
      BY DEF IssuesOf
    <2>3. QED  BY <2>1, <2>2
  <1>4. r.issue \in Issues \cup {0}
    BY <1>3
  <1>5. r.issues \in Seq(Issues \cup {0})
    <2> DEFINE s == r.issues
    <2>1. s \in Seq(Nat)
      BY <1>2 DEF Records
    <2>2. \A k \in DOMAIN s : s[k] \in Issues \cup {0}
      BY <1>3, <2>1 DEF ToSet
    <2> HIDE DEF s
    <2>3. Len(s) \in Nat /\ DOMAIN s = 1..Len(s) /\ s = [k \in 1..Len(s) |-> s[k]]
      BY <2>1
    <2>4. s \in Seq(Issues \cup {0})
      BY <2>2, <2>3, IsASeq
    <2>5. QED  BY <2>4 DEF s
  <1>6. r.outcomes \in Seq([issue : Issues, status : Texts, pr : Texts])
    <2> DEFINE s == r.outcomes
               O == [issue : Issues, status : Texts, pr : Texts]
               P == [issue : Nat \ {0}, status : STRING, pr : STRING]
    <2>1. s \in Seq(P)
      BY <1>2 DEF Records
    <2>2. \A k \in DOMAIN s : s[k] \in P
      <3> HIDE DEF P, s
      <3>1. QED  BY <2>1, ElementOfSeq
    <2>3. \A k \in DOMAIN s : s[k].issue \in Issues \cup {0}
      BY <1>3
    <2>4. STRING \subseteq Texts
      BY DEF Texts
    <2> HIDE DEF s
    <2>5. \A k \in DOMAIN s : s[k] \in O
      BY <2>2, <2>3, <2>4
    <2> HIDE DEF P, O
    <2>6. Len(s) \in Nat /\ DOMAIN s = 1..Len(s) /\ s = [k \in 1..Len(s) |-> s[k]]
      BY <2>1
    <2>7. s \in Seq(O)
      BY <2>5, <2>6, IsASeq
    <2>8. QED  BY <2>7 DEF s, O
  <1>7. STRING \subseteq Texts
    BY DEF Texts
  <1>8. QED  BY <1>2, <1>4, <1>5, <1>6, <1>7 DEF Records, RecordRead

(* An element of the mirror that is of the record. *)
Of_(r) == {s \in Mirrored : s.legacy = r.kind}

(* One event of a record. *)
LEMMA StepIs ==
    ASSUME tick \in Nat, said \in Nat, NEW kind \in Texts, NEW r \in RecordRead
    PROVE  /\ Step(kind, r) \in Of_(r)
           /\ Step(kind, r).kind = kind /\ Step(kind, r).issue = r.issue
           /\ Step(kind, r).pr = r.pr /\ Step(kind, r).status = r.status
           /\ r.ticked => Step(kind, r).tick = tick
  <1>1. _worker_ref(r) \in Refs
    <2>1. said + 1 \in Nat /\ 0 \in Nat
      OBVIOUS
    <2>2. QED  BY <2>1 DEF _worker_ref, Refs
  <1>2. "" \in Marks
    BY DEF Marks, Texts
  <1>3. /\ r.kind \in Texts /\ r.issue \in Issues \cup {0} /\ r.pr \in Texts /\ r.status \in Texts
    BY DEF RecordRead
  <1>4. (IF r.ticked THEN tick ELSE 0) \in Nat
    OBVIOUS
  <1>5. Step(kind, r) \in Mirrored
    BY <1>1, <1>2, <1>3, <1>4 DEF Step, Mirrored
  <1>6. QED  BY <1>5 DEF Step, Of_

(* What a variant of an event changes. *)
LEMMA VariantIs ==
    ASSUME NEW r, NEW s \in Of_(r), NEW mark \in Marks, NEW status \in Texts
    PROVE  /\ Anonymous(s) \in Of_(r) /\ Named(s, mark) \in Of_(r) /\ WithStatus(s, status) \in Of_(r)
           /\ [s EXCEPT !.issue = 0, !.pr = ""] \in Of_(r) /\ [s EXCEPT !.issue = 0] \in Of_(r)
  <1>1. s \in Mirrored /\ s.legacy = r.kind
    BY DEF Of_
  <1>2. 0 \in Refs /\ "" \in Texts /\ 0 \in Issues \cup {0}
    BY DEF Refs, Texts
  <1>3. Anonymous(s) \in Mirrored /\ Anonymous(s).legacy = r.kind
    BY <1>1, <1>2 DEF Anonymous, Mirrored
  <1>4. Named(s, mark) \in Mirrored /\ Named(s, mark).legacy = r.kind
    BY <1>1, <1>2 DEF Named, Mirrored
  <1>5. WithStatus(s, status) \in Mirrored /\ WithStatus(s, status).legacy = r.kind
    BY <1>1, <1>2 DEF WithStatus, Mirrored
  <1>6. [s EXCEPT !.issue = 0] \in Mirrored /\ [s EXCEPT !.issue = 0].legacy = r.kind
    BY <1>1, <1>2 DEF Mirrored
  <1> DEFINE u == [s EXCEPT !.issue = 0]
  <1>7. [s EXCEPT !.issue = 0, !.pr = ""] = [u EXCEPT !.pr = ""]
    OBVIOUS
  <1>8. u \in Mirrored /\ u.legacy = r.kind
    BY <1>6
  <1> HIDE DEF u
  <1>9. [u EXCEPT !.pr = ""] \in Mirrored /\ [u EXCEPT !.pr = ""].legacy = r.kind
    BY <1>2, <1>8 DEF Mirrored
  <1>10. QED  BY <1>3, <1>4, <1>5, <1>6, <1>7, <1>9 DEF Of_

(* What is written one after the other is in the whole. *)
LEMMA FlatIs ==
    ASSUME NEW S, NEW ss \in Seq(Seq(S))
    PROVE  /\ FlattenSeq(ss) \in Seq(S)
           /\ \A k \in DOMAIN ss : \A j \in DOMAIN ss[k] :
                 \E i \in DOMAIN FlattenSeq(ss) : FlattenSeq(ss)[i] = ss[k][j]
  <1>1. CASE Len(ss) = 0
    <2>1. FlattenSeq(ss) = ss /\ ss = <<>>
      BY <1>1, EmptySeq DEF FlattenSeq
    <2>2. <<>> \in Seq(S) /\ DOMAIN ss = {}
      BY <1>1
    <2>3. QED  BY <2>1, <2>2
  <1>2. CASE Len(ss) # 0
    <2> DEFINE len == Len(ss)
               Unfolding(g) == g = [i \in 1..len |-> IF i = 1 THEN ss[i] ELSE g[i - 1] \o ss[i]]
               u == CHOOSE g : Unfolding(g)
               F == [n \in 1..len |-> [x \in Seq(S) |-> x \o ss[n]]]
    <2>1. len \in Nat /\ 1 <= len /\ 1 \in Nat /\ DOMAIN ss = 1..len
      BY <1>2
    <2>2. FlattenSeq(ss) = u[len]
      BY <1>2 DEF FlattenSeq
    <2>3. \A n \in 1..len : ss[n] \in Seq(S)
      BY <2>1
    <2> HIDE DEF len, u
    <2>4. F \in [1..len -> [Seq(S) -> Seq(S)]]
      BY <2>3, ConcatProperties
    <2>5. \A n \in 1..len, x \in Seq(S) : F[n][x] = x \o ss[n]
      OBVIOUS
    <2>6. 1 \in 1..len /\ ss[1] \in Seq(S)
      BY <2>1, <2>3
    <2> HIDE DEF F
    <2>7. PICK g \in [1..len -> Seq(S)] : Unfolded(g, F, ss[1], 1, len)
      BY <2>1, <2>4, <2>6, Unfolds
    <2>8. \A n \in 1..len : n # 1 => n - 1 \in 1..len
      BY <2>1
    <2>9. \A n \in 1..len : g[n] = IF n = 1 THEN ss[n] ELSE g[n - 1] \o ss[n]
      BY <2>5, <2>7, <2>8 DEF Unfolded
    <2>10. Unfolding(u)
      <3>1. Unfolding(g)
        BY <2>7, <2>9
      <3>2. QED  BY <3>1 DEF u
    <2>11. \A n \in 1..len : u[n] = IF n = 1 THEN ss[n] ELSE u[n - 1] \o ss[n]
      BY <2>10
    <2> DEFINE Kept(n) == \A k \in 1..n : \A j \in DOMAIN ss[k] : \E i \in DOMAIN u[n] : u[n][i] = ss[k][j]
               B == {n \in 1..len : u[n] \in Seq(S) /\ Kept(n)}
    <2>12. 1 \in B
      <3>1. u[1] = ss[1] /\ \A k \in 1..1 : k = 1
        <4>1. u[1] = ss[1]
          BY <2>6, <2>11
        <4>2. \A k \in 1..1 : k = 1
          OBVIOUS
        <4>3. QED  BY <4>1, <4>2
      <3>2. \A k \in 1..1 : \A j \in DOMAIN ss[k] : j \in DOMAIN u[1] /\ u[1][j] = ss[k][j]
        BY <3>1
      <3>3. QED  BY <2>6, <3>1, <3>2
    <2>13. ASSUME NEW n \in 1..len, n # len, n \in B PROVE n + 1 \in B
      <3>1. n + 1 \in 1..len /\ n + 1 # 1 /\ n + 1 - 1 = n /\ \A k \in 1..(n + 1) : k \in 1..n \/ k = n + 1
        <4>1. PICK m \in Nat, l \in Nat : m = n /\ l = len /\ m \in 1..l /\ m # l
          BY <2>1, <2>13
        <4>2. m + 1 \in 1..l /\ m + 1 # 1 /\ m + 1 - 1 = m
          BY <4>1
        <4>3. \A k \in 1..(m + 1) : k \in 1..m \/ k = m + 1
          OBVIOUS
        <4>4. QED  BY <4>1, <4>2, <4>3
      <3>2. u[n + 1] = u[n] \o ss[n + 1]
        <4>1. PICK m \in 1..len : m = n + 1 /\ m # 1 /\ m - 1 = n
          BY <3>1
        <4>2. u[m] = u[m - 1] \o ss[m]
          BY <2>11, <4>1
        <4>3. QED  BY <4>1, <4>2
      <3>3. u[n] \in Seq(S) /\ ss[n + 1] \in Seq(S) /\ Kept(n)
        BY <2>3, <2>13, <3>1
      <3> DEFINE a == u[n]  c == ss[n + 1]  w == a \o c
      <3>4. /\ w \in Seq(S) /\ Len(a) \in Nat /\ Len(c) \in Nat /\ Len(w) = Len(a) + Len(c)
            /\ DOMAIN a = 1..Len(a) /\ DOMAIN c = 1..Len(c) /\ DOMAIN w = 1..Len(w)
            /\ \A i \in 1..(Len(a) + Len(c)) : w[i] = IF i <= Len(a) THEN a[i] ELSE c[i - Len(a)]
        <4>1. a \in Seq(S) /\ c \in Seq(S)
          BY <3>3
        <4> HIDE DEF a, c
        <4>2. w \in Seq(S) /\ Len(w) = Len(a) + Len(c)
          BY <4>1, ConcatProperties
        <4>3. Len(a) \in Nat /\ Len(c) \in Nat /\ DOMAIN a = 1..Len(a) /\ DOMAIN c = 1..Len(c)
          BY <4>1
        <4>4. \A i \in 1..(Len(a) + Len(c)) : w[i] = IF i <= Len(a) THEN a[i] ELSE c[i - Len(a)]
          BY <4>1, ConcatProperties
        <4> HIDE DEF w
        <4>5. DOMAIN w = 1..Len(w)
          BY <4>2
        <4>6. QED  BY <4>2, <4>3, <4>4, <4>5
      <3> HIDE DEF a, c, w
      <3>5. \A i \in DOMAIN a : i \in DOMAIN w /\ w[i] = a[i]
        <4>1. PICK x \in Nat, y \in Nat : x = Len(a) /\ y = Len(c)
          BY <3>4
        <4>2. \A i \in 1..x : i \in 1..(x + y) /\ i <= x
          OBVIOUS
        <4>3. QED  BY <3>4, <4>1, <4>2
      <3>6. \A j \in DOMAIN c : Len(a) + j \in DOMAIN w /\ w[Len(a) + j] = c[j]
        <4>1. ASSUME NEW j \in DOMAIN c PROVE Len(a) + j \in DOMAIN w /\ w[Len(a) + j] = c[j]
          <5>1. PICK x \in Nat, y \in Nat : x = Len(a) /\ y = Len(c)
            BY <3>4
          <5>2. j \in 1..y /\ x + j \in 1..(x + y) /\ ~(x + j <= x) /\ x + j - x = j
            <6>1. j \in 1..y
              BY <3>4, <5>1
            <6>2. QED  BY <5>1, <6>1
          <5>3. x + j \in 1..(Len(a) + Len(c)) /\ ~(x + j <= Len(a)) /\ x + j - Len(a) = j
            BY <5>1, <5>2
          <5>4. w[x + j] = c[j] /\ x + j \in DOMAIN w
            BY <3>4, <5>3
          <5>5. QED  BY <5>1, <5>4
        <4>2. QED  BY <4>1
      <3>7. u[n + 1] \in Seq(S) /\ u[n + 1] = w
        BY <3>2, <3>4 DEF a, c, w
      <3>8. ASSUME NEW k \in 1..(n + 1), NEW j \in DOMAIN ss[k] PROVE \E i \in DOMAIN u[n + 1] : u[n + 1][i] = ss[k][j]
        <4>1. CASE k \in 1..n
          <5>1. PICK i \in DOMAIN u[n] : u[n][i] = ss[k][j]
            BY <3>3, <4>1
          <5>2. QED  BY <3>5, <3>7, <5>1 DEF a
        <4>2. CASE k = n + 1
          BY <3>6, <3>7, <4>2 DEF c
        <4>3. QED  BY <3>1, <4>1, <4>2
      <3>9. Kept(n + 1)
        BY <3>8
      <3>10. QED  BY <3>1, <3>7, <3>9
    <2> HIDE DEF B
    <2>14. \A n \in 1..len : n \in B
      BY <2>1, <2>12, <2>13, Upward
    <2>15. len \in 1..len
      BY <2>1
    <2>16. u[len] \in Seq(S) /\ Kept(len)
      BY <2>14, <2>15 DEF B
    <2>17. QED  BY <2>1, <2>2, <2>16
  <1>3. QED  BY <1>1, <1>2

(* A sequence of one. *)
LEMMA OneIsASeq == ASSUME NEW S, NEW x \in S PROVE <<x>> \in Seq(S)
  OBVIOUS

(* A sequence of two parts. *)
LEMMA TwoAreOne == ASSUME NEW S, NEW a \in Seq(S), NEW c \in Seq(S) PROVE a \o c \in Seq(S)
  BY ConcatProperties

(* What the parts have, the whole has. *)
LEMMA PartsAreInTheWhole ==
    ASSUME NEW S, NEW a \in Seq(S), NEW c \in Seq(S)
    PROVE  /\ \A j \in DOMAIN a : \E i \in DOMAIN (a \o c) : (a \o c)[i] = a[j]
           /\ \A j \in DOMAIN c : \E i \in DOMAIN (a \o c) : (a \o c)[i] = c[j]
  <1> DEFINE w == a \o c
  <1>1. PICK x \in Nat, y \in Nat : x = Len(a) /\ y = Len(c)
    OBVIOUS
  <1>2. w \in Seq(S) /\ Len(w) = x + y /\ \A i \in 1..(x + y) : w[i] = IF i <= x THEN a[i] ELSE c[i - x]
    BY <1>1, ConcatProperties
  <1>3. DOMAIN w = 1..(x + y) /\ DOMAIN a = 1..x /\ DOMAIN c = 1..y
    BY <1>1, <1>2
  <1> HIDE DEF w
  <1>4. ASSUME NEW j \in 1..x PROVE j \in 1..(x + y) /\ w[j] = a[j]
    <2>1. j \in 1..(x + y) /\ j <= x
      OBVIOUS
    <2>2. QED  BY <1>2, <2>1
  <1>5. ASSUME NEW j \in 1..y PROVE x + j \in 1..(x + y) /\ w[x + j] = c[j]
    <2>1. x + j \in 1..(x + y) /\ ~(x + j <= x) /\ x + j - x = j
      OBVIOUS
    <2>2. PICK z \in 1..(x + y) : z = x + j /\ ~(z <= x) /\ z - x = j
      BY <2>1
    <2>3. w[z] = c[z - x]
      BY <1>2, <2>2
    <2>4. QED  BY <2>2, <2>3
  <1>6. QED  BY <1>3, <1>4, <1>5 DEF w

(* The record of one outcome of the tick. *)
LEMMA OfAnOutcome ==
    ASSUME NEW r \in RecordRead, NEW o \in [issue : Issues, status : Texts, pr : Texts]
    PROVE  /\ OfOutcome(r, o) \in RecordRead /\ OfOutcome(r, o).kind = r.kind
           /\ OfOutcome(r, o).ticked = r.ticked /\ OfOutcome(r, o).issue = o.issue
           /\ OfOutcome(r, o).status = o.status /\ OfOutcome(r, o).pr = o.pr
  <1> DEFINE a == [r EXCEPT !.issue = o.issue]
             c == [a EXCEPT !.status = o.status]
             d == [c EXCEPT !.pr = o.pr]
             x == [d EXCEPT !.by = "none"]
  <1>1. o.issue \in Issues \cup {0} /\ o.status \in Texts /\ o.pr \in Texts /\ "none" \in Texts
    BY DEF Texts
  <1>2. a \in RecordRead /\ a.kind = r.kind /\ a.ticked = r.ticked /\ a.issue = o.issue
    BY <1>1 DEF RecordRead
  <1> HIDE DEF a
  <1>3. c \in RecordRead /\ c.kind = r.kind /\ c.ticked = r.ticked /\ c.issue = o.issue /\ c.status = o.status
    BY <1>1, <1>2 DEF RecordRead
  <1> HIDE DEF c
  <1>4. d \in RecordRead /\ d.kind = r.kind /\ d.ticked = r.ticked /\ d.issue = o.issue /\ d.status = o.status /\ d.pr = o.pr
    BY <1>1, <1>3 DEF RecordRead
  <1> HIDE DEF d
  <1>5. /\ x \in RecordRead /\ x.kind = r.kind /\ x.ticked = r.ticked /\ x.issue = o.issue
        /\ x.status = o.status /\ x.pr = o.pr
    BY <1>1, <1>4 DEF RecordRead
  <1>6. x = OfOutcome(r, o)
    BY DEF a, c, d, OfOutcome
  <1> HIDE DEF x
  <1>7. QED  BY <1>5, <1>6

(* How a status ends its task. *)
LEMMA TerminalIs ==
    ASSUME NEW status \in WorkerStatus
    PROVE  _TERMINAL_STATUS_TO_KIND(status) \in TerminalKinds
  BY DEF WorkerStatus, _TERMINAL_STATUS_TO_KIND, TerminalKinds

(* The kinds that end a task are texts. *)
LEMMA KindsAreTexts == TerminalKinds \subseteq Texts
  BY DEF TerminalKinds, Texts

(* What a record says of its pull request, and of the end of its task. *)
LEMMA OpenedIs ==
    ASSUME tick \in Nat, said \in Nat, NEW r \in RecordRead
    PROVE  /\ Opened(r) \in Seq(Of_(r)) /\ Terminal(r) \in Seq(Of_(r))
           /\ r.status \in WorkerStatus =>
                 \E s \in Of_(r) : /\ Terminal(r) = <<s>> /\ s.kind \in TerminalKinds
                                   /\ s.issue = r.issue /\ s.status = r.status /\ s.pr = r.pr
  <1>1. "pr.opened" \in Texts
    BY DEF Texts
  <1>2. Step("pr.opened", r) \in Of_(r)
    BY <1>1, StepIs
  <1>3. Opened(r) \in Seq(Of_(r))
    <2>1. <<>> \in Seq(Of_(r)) /\ <<Step("pr.opened", r)>> \in Seq(Of_(r))
      BY <1>2, OneIsASeq
    <2>2. QED  BY <2>1 DEF Opened
  <1>4. CASE r.status \in WorkerStatus
    <2> DEFINE kind == _TERMINAL_STATUS_TO_KIND(r.status)
               s == Step(kind, r)
    <2>1. kind \in TerminalKinds /\ kind \in Texts
      BY <1>4, TerminalIs, KindsAreTexts
    <2> HIDE DEF kind
    <2>2. s \in Of_(r) /\ s.kind = kind /\ s.issue = r.issue /\ s.status = r.status /\ s.pr = r.pr
      BY <2>1, StepIs
    <2>3. Terminal(r) = <<s>>
      BY <1>4 DEF Terminal, kind
    <2> HIDE DEF s
    <2>4. QED  BY <1>3, <2>1, <2>2, <2>3, OneIsASeq
  <1>5. CASE r.status \notin WorkerStatus
    <2>1. Terminal(r) = <<>>
      BY <1>5 DEF Terminal
    <2>2. QED  BY <1>3, <1>5, <2>1
  <1>6. QED  BY <1>4, <1>5

-----------------------------------------------------------------------------
(* The tick_done. *)

Matches(s, o) == s.issue = o.issue /\ s.status = o.status /\ s.pr = o.pr
Ends(s, o) == s.kind \in TerminalKinds /\ Matches(s, o)
Tells(time, outcomes) ==
    {s \in Mirrored : /\ s.legacy = "tick_done" /\ s.tick = time
                      /\ s.issue = 0 \/ \E k \in DOMAIN outcomes : Matches(s, outcomes[k])}

(* What becomes of one outcome, and that it ends its task. *)
LEMMA OutcomeIs ==
    ASSUME tick \in Nat, said \in Nat, NEW r \in RecordRead, r.kind = "tick_done", r.ticked,
           NEW k \in DOMAIN r.outcomes
    PROVE  /\ OutcomeSpecs(r, r.outcomes[k]) \in Seq(Tells(tick, r.outcomes))
           /\ r.outcomes[k].status \in WorkerStatus =>
                 \E j \in DOMAIN OutcomeSpecs(r, r.outcomes[k]) :
                    Ends(OutcomeSpecs(r, r.outcomes[k])[j], r.outcomes[k])
  <1> DEFINE o == r.outcomes[k]
             q == OfOutcome(r, o)
             w == OutcomeSpecs(r, o)
             T == Tells(tick, r.outcomes)
             a == Opened(q)
             c == Terminal(q)
             d == OutcomeMerged(r, o)
  <1>1. o \in [issue : Issues, status : Texts, pr : Texts]
    <2> DEFINE O == [issue : Issues, status : Texts, pr : Texts]
    <2>1. r.outcomes \in Seq(O)
      BY DEF RecordRead
    <2> HIDE DEF O
    <2>2. o \in O
      BY <2>1, ElementOfSeq
    <2>3. QED  BY <2>2 DEF O
  <1>11. o = r.outcomes[k]
    OBVIOUS
  <1>12. w = (Opened(q) \o Terminal(q)) \o OutcomeMerged(r, o)
    BY DEF OutcomeSpecs
  <1>13. OutcomeMerged(r, o) = IF o.status = "merged" /\ o.pr # "" THEN <<Step("pr.merged", q)>> ELSE <<>>
    BY DEF OutcomeMerged
  <1> HIDE DEF o, w
  <1>2. /\ q \in RecordRead /\ q.kind = "tick_done" /\ q.ticked
        /\ q.issue = o.issue /\ q.status = o.status /\ q.pr = o.pr
    BY <1>1, OfAnOutcome
  <1> HIDE DEF q
  <1>3. \A kind \in Texts : Step(kind, q) \in T /\ Step(kind, q).kind = kind /\ Matches(Step(kind, q), o)
    <2>1. ASSUME NEW kind \in Texts
          PROVE  Step(kind, q) \in T /\ Step(kind, q).kind = kind /\ Matches(Step(kind, q), o)
      <3> DEFINE s == Step(kind, q)
      <3>1. /\ s \in Of_(q) /\ s.kind = kind /\ s.issue = q.issue /\ s.status = q.status
            /\ s.pr = q.pr /\ s.tick = tick
        BY <1>2, StepIs
      <3> HIDE DEF s
      <3>2. s \in Mirrored /\ s.legacy = "tick_done"
        BY <1>2, <3>1 DEF Of_
      <3>3. Matches(s, o)
        BY <1>2, <3>1 DEF Matches
      <3>4. \E j \in DOMAIN r.outcomes : Matches(s, r.outcomes[j])
        BY <1>11, <3>3
      <3>5. s \in T
        BY <3>1, <3>2, <3>4 DEF Tells
      <3>6. QED  BY <3>1, <3>3, <3>5 DEF s
    <2>2. QED  BY <2>1
  <1> HIDE DEF T
  <1>4. a \in Seq(T)
    <2>1. "pr.opened" \in Texts
      BY DEF Texts
    <2>2. Step("pr.opened", q) \in T
      BY <1>3, <2>1
    <2>3. <<Step("pr.opened", q)>> \in Seq(T) /\ <<>> \in Seq(T)
      BY <2>2, OneIsASeq
    <2>4. QED  BY <2>3 DEF Opened
  <1>5. c \in Seq(T) /\ (o.status \in WorkerStatus => \E s \in T : c = <<s>> /\ Ends(s, o))
    <2>1. CASE o.status \in WorkerStatus
      <3> DEFINE kind == _TERMINAL_STATUS_TO_KIND(q.status)
                 s == Step(kind, q)
      <3>1. kind \in TerminalKinds /\ kind \in Texts
        BY <1>2, <2>1, TerminalIs, KindsAreTexts
      <3> HIDE DEF kind
      <3>2. s \in T /\ s.kind = kind /\ Matches(s, o)
        BY <1>3, <3>1
      <3>3. c = <<s>>
        BY <1>2, <2>1 DEF Terminal, kind
      <3> HIDE DEF s, c
      <3>4. Ends(s, o)
        BY <3>1, <3>2 DEF Ends
      <3>5. QED  BY <3>2, <3>3, <3>4, OneIsASeq
    <2>2. CASE o.status \notin WorkerStatus
      <3>1. c = <<>>
        BY <1>2, <2>2 DEF Terminal
      <3>2. QED  BY <2>2, <3>1
    <2>3. QED  BY <2>1, <2>2
  <1>6. d \in Seq(T)
    <2>1. "pr.merged" \in Texts
      BY DEF Texts
    <2>2. Step("pr.merged", q) \in T
      BY <1>3, <2>1
    <2>3. <<Step("pr.merged", q)>> \in Seq(T) /\ <<>> \in Seq(T)
      BY <2>2, OneIsASeq
    <2>4. QED  BY <1>13, <2>3
  <1>10. w = (a \o c) \o d
    BY <1>12
  <1> HIDE DEF a, c, d
  <1>7. a \o c \in Seq(T) /\ w \in Seq(T)
    BY <1>4, <1>5, <1>6, <1>10, TwoAreOne
  <1>8. ASSUME o.status \in WorkerStatus PROVE \E j \in DOMAIN w : Ends(w[j], o)
    <2>1. PICK s \in T : c = <<s>> /\ Ends(s, o)
      BY <1>5, <1>8
    <2>2. 1 \in DOMAIN c /\ Ends(c[1], o)
      BY <2>1
    <2> DEFINE u == a \o c
    <2>3. PICK i \in DOMAIN u : u[i] = c[1]
      BY <1>4, <1>5, <2>2, PartsAreInTheWhole
    <2>4. u \in Seq(T) /\ d \in Seq(T)
      BY <1>6, <1>7
    <2>5. w = u \o d
      BY <1>10
    <2> HIDE DEF u
    <2>6. \A l \in DOMAIN u : \E j \in DOMAIN (u \o d) : (u \o d)[j] = u[l]
      BY <2>4, PartsAreInTheWhole
    <2>7. PICK j \in DOMAIN (u \o d) : (u \o d)[j] = u[i]
      BY <2>3, <2>6
    <2>8. QED  BY <2>2, <2>3, <2>5, <2>7
  <1>9. QED  BY <1>7, <1>8 DEF T, o, w

(* A sequence of two. *)
LEMMA TwoAreASeq == ASSUME NEW S, NEW x \in S, NEW y \in S PROVE <<x, y>> \in Seq(S)
  OBVIOUS

(* A sequence over a set is one over a larger set. *)
LEMMA SeqOfASubset == ASSUME NEW S, NEW U \in SUBSET S, NEW s \in Seq(U) PROVE s \in Seq(S)
  <1>1. \A k \in DOMAIN s : s[k] \in S
    BY ElementOfSeq
  <1>2. Len(s) \in Nat /\ DOMAIN s = 1..Len(s) /\ s = [k \in 1..Len(s) |-> s[k]]
    OBVIOUS
  <1>3. QED  BY <1>1, <1>2, IsASeq

(* What becomes of a tick_done: every event is of an outcome or of no task. *)
LEMMA TickDoneSpecs ==
    ASSUME tick \in Nat, said \in Nat, NEW r \in RecordRead, r.kind = "tick_done", r.ticked
    PROVE  /\ _tick_done_specs(r) \in Seq(Tells(tick, r.outcomes))
           /\ \A k \in DOMAIN r.outcomes : r.outcomes[k].status \in WorkerStatus =>
                 \E j \in DOMAIN _tick_done_specs(r) : Ends(_tick_done_specs(r)[j], r.outcomes[k])
  <1> DEFINE T == Tells(tick, r.outcomes)
             h == Anonymous([Step("tick.completed", r) EXCEPT !.issue = 0, !.pr = ""])
             dom == DOMAIN r.outcomes
             ss == [k \in dom |-> OutcomeSpecs(r, r.outcomes[k])]
             a == <<h>>
             c == FlattenSeq(ss)
             w == a \o c
  <1>1. h \in T
    <2> DEFINE s == Step("tick.completed", r)
               u == [s EXCEPT !.issue = 0, !.pr = ""]
               v == [s EXCEPT !.issue = 0]
    <2>1. "tick.completed" \in Texts
      BY DEF Texts
    <2>2. s \in Mirrored /\ s.legacy = "tick_done" /\ s.tick = tick
      BY <2>1, StepIs DEF Of_
    <2>3. u = [v EXCEPT !.pr = ""]
      OBVIOUS
    <2>4. 0 \in Refs /\ "" \in Texts /\ 0 \in Issues \cup {0}
      BY DEF Refs, Texts
    <2> HIDE DEF s
    <2>5. v \in Mirrored /\ v.legacy = "tick_done" /\ v.tick = tick /\ v.issue = 0
      BY <2>2, <2>4 DEF Mirrored
    <2> HIDE DEF v
    <2>6. u \in Mirrored /\ u.legacy = "tick_done" /\ u.tick = tick /\ u.issue = 0
      BY <2>3, <2>4, <2>5 DEF Mirrored
    <2>7. h = [u EXCEPT !.worker = 0]
      BY DEF Anonymous, s
    <2> HIDE DEF u, h
    <2>8. h \in Mirrored /\ h.legacy = "tick_done" /\ h.tick = tick /\ h.issue = 0
      BY <2>4, <2>6, <2>7 DEF Mirrored
    <2>9. QED  BY <2>8 DEF Tells
  <1>2. \A k \in dom : OutcomeSpecs(r, r.outcomes[k]) \in Seq(T)
    BY OutcomeIs
  <1>3. PICK n \in Nat : dom = 1..n
    BY DEF RecordRead
  <1>4. \A k \in dom : r.outcomes[k].status \in WorkerStatus =>
           \E j \in DOMAIN ss[k] : Ends(ss[k][j], r.outcomes[k])
    BY OutcomeIs
  <1>14. _tick_done_specs(r) = w
    BY DEF _tick_done_specs
  <1> HIDE DEF T, h, dom
  <1>5. ss \in [1..n -> Seq(T)]
    BY <1>2, <1>3
  <1>15. DOMAIN ss = dom
    OBVIOUS
  <1> HIDE DEF ss
  <1>6. ss \in Seq(Seq(T))
    <2>1. Seq(Seq(T)) = UNION {[1..m -> Seq(T)] : m \in Nat}
      BY SeqDef
    <2>2. QED  BY <1>5, <2>1
  <1>7. c \in Seq(T) /\ \A k \in dom : \A j \in DOMAIN ss[k] : \E i \in DOMAIN c : c[i] = ss[k][j]
    BY <1>6, <1>15, FlatIs
  <1>8. a \in Seq(T)
    BY <1>1, OneIsASeq
  <1> HIDE DEF a, c
  <1>9. w \in Seq(T) /\ \A j \in DOMAIN c : \E i \in DOMAIN w : w[i] = c[j]
    BY <1>7, <1>8, TwoAreOne, PartsAreInTheWhole
  <1> HIDE DEF w
  <1>10. ASSUME NEW k \in dom, r.outcomes[k].status \in WorkerStatus
         PROVE  \E j \in DOMAIN w : Ends(w[j], r.outcomes[k])
    <2>1. PICK j \in DOMAIN ss[k] : Ends(ss[k][j], r.outcomes[k])
      BY <1>4, <1>10
    <2>2. PICK i \in DOMAIN c : c[i] = ss[k][j]
      BY <1>7
    <2>3. PICK l \in DOMAIN w : w[l] = c[i]
      BY <1>9
    <2>4. QED  BY <2>1, <2>2, <2>3
  <1>11. QED  BY <1>9, <1>10, <1>14 DEF T, dom

-----------------------------------------------------------------------------
(* Every record. *)

LEMMA TransitionSpecs ==
    ASSUME tick \in Nat, said \in Nat, NEW r \in RecordRead
    PROVE  _worker_session_transition_specs(r) \in Seq(Of_(r))
  <1> DEFINE T == Of_(r)
             S(kind, status) == Named(WithStatus(Step(kind, r), status), <<r.old, r.new>>)
  <1>1. \A kind, status \in Texts : S(kind, status) \in T
    <2>1. <<r.old, r.new>> \in Marks
      BY DEF RecordRead, Marks
    <2>2. ASSUME NEW kind \in Texts, NEW status \in Texts PROVE S(kind, status) \in T
      <3>1. Step(kind, r) \in T
        BY StepIs
      <3>2. WithStatus(Step(kind, r), status) \in T
        BY <2>1, <3>1, VariantIs
      <3>3. QED  BY <2>1, <3>2, VariantIs
    <2>3. QED  BY <2>2
  <1>2. {"pr.opened", "task.failed", "task.completed", "pr.merged", "task.dispatched", "failed", "merged"} \subseteq Texts
    BY DEF Texts
  <1>3. r.status \in Texts
    BY DEF RecordRead
  <1>4. \/ _worker_session_transition_specs(r) = <<S("pr.opened", r.status)>>
        \/ _worker_session_transition_specs(r) = <<S("task.failed", "failed")>>
        \/ _worker_session_transition_specs(r) =
              <<S("task.completed", "merged")>> \o (IF r.pr # "" THEN <<S("pr.merged", "merged")>> ELSE <<>>)
        \/ _worker_session_transition_specs(r) = <<S("task.dispatched", r.status)>>
    BY DEF _worker_session_transition_specs
  <1>5. /\ S("pr.opened", r.status) \in T /\ S("task.failed", "failed") \in T
        /\ S("task.completed", "merged") \in T /\ S("pr.merged", "merged") \in T
        /\ S("task.dispatched", r.status) \in T
    <2> HIDE DEF S, T
    <2>1. QED  BY <1>1, <1>2, <1>3
  <1> HIDE DEF S, T
  <1>6. <<S("task.completed", "merged")>> \o (IF r.pr # "" THEN <<S("pr.merged", "merged")>> ELSE <<>>) \in Seq(T)
    <2>1. <<S("task.completed", "merged")>> \in Seq(T) /\ <<S("pr.merged", "merged")>> \in Seq(T) /\ <<>> \in Seq(T)
      BY <1>5, OneIsASeq
    <2>2. (IF r.pr # "" THEN <<S("pr.merged", "merged")>> ELSE <<>>) \in Seq(T)
      BY <2>1
    <2>3. QED  BY <2>1, <2>2, TwoAreOne
  <1>7. _worker_session_transition_specs(r) \in Seq(T)
    BY <1>4, <1>5, <1>6, OneIsASeq
  <1>8. QED  BY <1>7 DEF T

(* What becomes of the issues of a record. *)
LEMMA PlannedIs ==
    ASSUME tick \in Nat, said \in Nat, NEW r \in RecordRead
    PROVE  Planned(r, r.issues) \in Seq(Of_(r))
  <1> DEFINE T == Of_(r)
             s == r.issues
             p == Planned(r, s)
  <1>1. s \in Seq(Issues \cup {0})
    BY DEF RecordRead
  <1>2. PICK n \in Nat : DOMAIN s = 1..n
    BY <1>1
  <1> HIDE DEF s
  <1>3. \A k \in 1..n : Anonymous([Step("task.planned", r) EXCEPT !.issue = s[k]]) \in T
    <2>1. ASSUME NEW k \in 1..n PROVE Anonymous([Step("task.planned", r) EXCEPT !.issue = s[k]]) \in T
      <3> DEFINE e == Step("task.planned", r)
                 u == [e EXCEPT !.issue = s[k]]
      <3>1. s[k] \in Issues \cup {0}
        BY <1>1, <1>2, ElementOfSeq
      <3>2. "task.planned" \in Texts /\ "" \in Marks /\ "" \in Texts
        BY DEF Texts, Marks
      <3>3. e \in Mirrored /\ e.legacy = r.kind
        BY <3>2, StepIs DEF Of_
      <3> HIDE DEF e
      <3>4. u \in Mirrored /\ u.legacy = r.kind
        BY <3>1, <3>3 DEF Mirrored
      <3> HIDE DEF u
      <3>5. u \in T
        BY <3>4 DEF Of_
      <3>6. Anonymous(u) \in T
        BY <3>2, <3>5, VariantIs
      <3>7. QED  BY <3>6 DEF u, e
    <2>2. QED  BY <2>1
  <1> HIDE DEF T
  <1>4. p \in [1..n -> T]
    BY <1>2, <1>3 DEF Planned
  <1> HIDE DEF p
  <1>5. p \in Seq(T)
    <2>1. Seq(T) = UNION {[1..m -> T] : m \in Nat}
      BY SeqDef
    <2>2. QED  BY <1>4, <2>1
  <1>6. QED  BY <1>5 DEF p, T, s

(* What becomes of a record is of that record. *)
LEMMA SpecsAre ==
    ASSUME tick \in Nat, said \in Nat, NEW r \in Said
    PROVE  _append_specs(r) \in Seq(Of_(r))
  <1> DEFINE T == Of_(r)
             a == _append_specs(r)
  <1>1. r \in RecordRead
    BY SaidIs
  <1>2. \A kind \in Texts : Step(kind, r) \in T
    BY <1>1, StepIs
  <1>3. /\ r.status \in Texts /\ r.attempt \in Marks /\ r.verdict \in Marks /\ "" \in Marks
        /\ {"tick.started", "task.dispatched", "task.failed", "task.heartbeat", "worker.observation",
            "failed", "timeout", "critique.issued", "merge.blocked", "pr.merged", "merged",
            "task.compensated", "compensated", "worktree.reaped", "loop.halted", ""} \subseteq Texts
    BY <1>1 DEF RecordRead, Marks, Texts
  <1>4. \A s \in T, mark \in Marks, status \in Texts :
           /\ Anonymous(s) \in T /\ Named(s, mark) \in T /\ WithStatus(s, status) \in T
           /\ [s EXCEPT !.issue = 0] \in T
    BY VariantIs
  <1>5. \A s \in T : <<s>> \in Seq(T)
    BY OneIsASeq
  <1>6. \A b, c \in Seq(T) : b \o c \in Seq(T)
    BY TwoAreOne
  <1>7. Planned(r, r.issues) \in Seq(T) /\ Opened(r) \in Seq(T) /\ Terminal(r) \in Seq(T)
        /\ _worker_session_transition_specs(r) \in Seq(T)
    BY <1>1, PlannedIs, OpenedIs, TransitionSpecs
  <1>8. <<>> \in Seq(T)
    OBVIOUS
  <1> DEFINE E(kind) == Step(kind, r)
  <1>9. /\ E("tick.started") \in T /\ E("task.dispatched") \in T /\ E("task.failed") \in T
        /\ E("task.heartbeat") \in T /\ E("worker.observation") \in T /\ E("critique.issued") \in T
        /\ E("merge.blocked") \in T /\ E("pr.merged") \in T /\ E("task.compensated") \in T
        /\ E("worktree.reaped") \in T /\ E("loop.halted") \in T
    BY <1>2, <1>3
  <1>10. ASSUME r.kind = "tick_done" PROVE a \in Seq(T)
    <2>1. a = _tick_done_specs(r)
      BY <1>10 DEF _append_specs
    <2>2. r.ticked
      BY <1>10, MirrorAssumption
    <2>3. a \in Seq(Tells(tick, r.outcomes))
      BY <1>1, <1>10, <2>1, <2>2, TickDoneSpecs
    <2>4. Tells(tick, r.outcomes) \subseteq T
      BY <1>10 DEF Tells, Of_
    <2> HIDE DEF a, T
    <2>5. QED  BY <2>3, <2>4, SeqOfASubset
  <1>11. CASE r.kind = "tick_start"
    <2>1. a = <<Anonymous(E("tick.started"))>> \o Planned(r, r.issues)
      BY <1>11 DEF _append_specs
    <2>2. <<Anonymous(E("tick.started"))>> \in Seq(T)
      BY <1>3, <1>4, <1>5, <1>9
    <2>3. QED  BY <1>6, <1>7, <2>1, <2>2
  <1>12. CASE r.kind = "po_done"
    BY <1>7, <1>12 DEF _append_specs
  <1>13. CASE r.kind \in {"worker_start", "worker_started"}
    <2>1. a = <<E("task.dispatched")>>
      BY <1>13 DEF _append_specs
    <2>2. QED  BY <1>5, <1>9, <2>1
  <1>14. CASE r.kind = "worker_session_transition"
    BY <1>7, <1>14 DEF _append_specs
  <1>15. CASE r.kind = "worker_iteration_attempt"
    <2>1. a = <<Named(E("task.dispatched"), r.attempt)>>
      BY <1>15 DEF _append_specs
    <2>2. Named(E("task.dispatched"), r.attempt) \in T
      BY <1>3, <1>4, <1>9
    <2>3. QED  BY <1>5, <2>1, <2>2
  <1>16. CASE r.kind = "worker_done"
    <2>1. a = _worker_done_specs(r)
      BY <1>16 DEF _append_specs
    <2>2. a = Opened(r) \o Terminal(r) \/ a = <<E("worker.observation")>>
      BY <2>1 DEF _worker_done_specs
    <2>3. QED  BY <1>5, <1>6, <1>7, <1>9, <2>2
  <1>17. CASE r.kind = "worker_failed"
    <2>1. a = <<WithStatus(E("task.failed"), "failed")>>
      BY <1>17 DEF _append_specs
    <2>2. WithStatus(E("task.failed"), "failed") \in T
      BY <1>3, <1>4, <1>9
    <2>3. QED  BY <1>5, <2>1, <2>2
  <1>18. CASE r.kind \in {"watchdog_worker_stuck", "watchdog_worker_killed"}
    <2>1. a = <<E("task.heartbeat")>>
      BY <1>18 DEF _append_specs
    <2>2. QED  BY <1>5, <1>9, <2>1
  <1>19. CASE r.kind \in {"stage_timeout", "stage_error"}
    <2>1. PICK status \in {"timeout", "failed"} :
             \/ a = <<Anonymous(WithStatus(E("task.failed"), status))>>
             \/ a = <<Anonymous(E("worker.observation"))>>
      BY <1>19 DEF _append_specs
    <2>2. WithStatus(E("task.failed"), status) \in T
      BY <1>3, <1>4, <1>9
    <2>3. Anonymous(WithStatus(E("task.failed"), status)) \in T /\ Anonymous(E("worker.observation")) \in T
      BY <1>3, <1>4, <1>9, <2>2
    <2>4. QED  BY <1>5, <2>1, <2>3
  <1> DEFINE C == Critique(r)
             A(kind) == Anonymous(E(kind))
  <1>20. C \in T /\ A("merge.blocked") \in T /\ A("pr.merged") \in T
         /\ A("task.compensated") \in T /\ A("worktree.reaped") \in T /\ A("loop.halted") \in T
    <2>1. A("critique.issued") \in T /\ A("merge.blocked") \in T /\ A("pr.merged") \in T
          /\ A("task.compensated") \in T /\ A("worktree.reaped") \in T /\ A("loop.halted") \in T
      BY <1>3, <1>4, <1>9
    <2>2. C = Named(A("critique.issued"), r.verdict)
      BY DEF Critique
    <2>3. QED  BY <1>3, <1>4, <2>1, <2>2
  <1>21. CASE r.kind = "critic_verdict_blocked"
    <2>1. a = <<C, A("merge.blocked")>>
      BY <1>21 DEF _append_specs
    <2>2. <<C, A("merge.blocked")>> \in Seq(T)
      BY <1>20, TwoAreASeq
    <2>3. QED  BY <2>1, <2>2
  <1>22. CASE r.kind \in {"critic_verdict_merged", "critic_verdict_revising", "critic_verdict_unknown",
                          "critic_done"}
    <2>1. a = <<C>>
      BY <1>22 DEF _append_specs
    <2>2. QED  BY <1>5, <1>20, <2>1
  <1>23. CASE r.kind \in {"merge_refused_issue_closed", "post_critic_automerge_failed"}
    <2>1. a = <<A("merge.blocked")>>
      BY <1>23 DEF _append_specs
    <2>2. QED  BY <1>5, <1>20, <2>1
  <1>24. CASE r.kind = "post_critic_automerge_enabled"
    <2>1. a = <<WithStatus(A("pr.merged"), "merged")>>
      BY <1>24 DEF _append_specs
    <2>2. WithStatus(A("pr.merged"), "merged") \in T
      BY <1>3, <1>4, <1>20
    <2>3. QED  BY <1>5, <2>1, <2>2
  <1>25. CASE r.kind = "worker_work_rescued"
    <2>1. a = <<WithStatus(A("task.compensated"), "compensated")>>
      BY <1>25 DEF _append_specs
    <2>2. WithStatus(A("task.compensated"), "compensated") \in T
      BY <1>3, <1>4, <1>20
    <2>3. QED  BY <1>5, <2>1, <2>2
  <1>26. CASE r.kind = "worktree_reaped"
    <2>1. a = <<A("worktree.reaped")>>
      BY <1>26 DEF _append_specs
    <2>2. QED  BY <1>5, <1>20, <2>1
  <1>27. CASE r.kind \in {"loop_drift_halt", "deploy_drift_halt", "max_ticks_reached", "loop_stop"}
    <2>1. a = <<[A("loop.halted") EXCEPT !.issue = 0]>>
      BY <1>27 DEF _append_specs
    <2>2. [A("loop.halted") EXCEPT !.issue = 0] \in T
      BY <1>3, <1>4, <1>20
    <2>3. QED  BY <1>5, <2>1, <2>2
  <1>28. \/ r.kind \in {"tick_done", "tick_start", "po_done", "worker_start", "worker_started",
                        "worker_session_transition", "worker_iteration_attempt", "worker_done",
                        "worker_failed", "watchdog_worker_stuck", "watchdog_worker_killed",
                        "stage_timeout", "stage_error", "critic_verdict_blocked",
                        "critic_verdict_merged", "critic_verdict_revising", "critic_verdict_unknown",
                        "critic_done", "merge_refused_issue_closed", "post_critic_automerge_failed",
                        "post_critic_automerge_enabled", "worker_work_rescued", "worktree_reaped",
                        "loop_drift_halt", "deploy_drift_halt", "max_ticks_reached", "loop_stop"}
         \/ a = <<>>
    BY DEF _append_specs
  <1>29. CASE a = <<>>
    BY <1>8, <1>29
  <1>30. QED  BY <1>10, <1>11, <1>12, <1>13, <1>14, <1>15, <1>16, <1>17, <1>18, <1>19, <1>21, <1>22,
                <1>23, <1>24, <1>25, <1>26, <1>27, <1>28, <1>29

OutcomeRecord == [issue : Issues, status : Texts, pr : Texts]

(* Where the mirror stands, and what it may hold. *)
MirrorForm ==
    /\ tick \in 0..MaxTick /\ ticking \in BOOLEAN /\ (ticking => tick # 0)
    /\ durable \in Seq(Mirrored) /\ pending \in [Threads -> Seq(Mirrored)]
    /\ saved \in 0..Len(durable) /\ board \in Boards /\ board.cursor \in {0, saved}
    /\ said \in Nat /\ starts \in Nat \ {0}

OncePerKey ==
    \A j, k \in DOMAIN durable : _idempotency_key(durable[j]) = _idempotency_key(durable[k]) => j = k

WorkerQuiet == ~ticking => pending["worker"] = <<>>

Earlier(e) == e.legacy = "tick_done" => e.tick <= tick /\ (ticking => e.tick < tick)
FirstLife ==
    starts = 1 => /\ \A n \in DOMAIN durable : Earlier(durable[n])
                  /\ \A t \in Threads : \A n \in DOMAIN pending[t] : Earlier(pending[t][n])

SettledFrom(m) ==
    /\ \A n \in DOMAIN durable : n <= m /\ durable[n].legacy = "tick_done" => durable[n].tick # tick
    /\ \A n \in DOMAIN durable : n > m => durable[n] \in Tells(tick, settled)
    /\ pending["tick"] \in Seq(Tells(tick, settled))
    /\ \A k \in DOMAIN settled : settled[k].status \in WorkerStatus =>
          \/ \E n \in DOMAIN durable : n > m /\ Ends(durable[n], settled[k])
          \/ \E n \in DOMAIN pending["tick"] : Ends(pending["tick"][n], settled[k])

OutcomesOf(outcomes) ==
    /\ outcomes \in Seq(OutcomeRecord)
    /\ \A j, k \in DOMAIN outcomes : outcomes[j].issue = outcomes[k].issue => j = k

SettledSound ==
    starts = 1 /\ settled # <<>> =>
        /\ ~ticking /\ tick # 0 /\ OutcomesOf(settled)
        /\ \E m \in 0..Len(durable) : SettledFrom(m)

MirrorHeld == MirrorForm /\ OncePerKey /\ WorkerQuiet /\ FirstLife /\ SettledSound

(* The bounds are numbers. *)
LEMMA MirrorBounds == MaxTick \in Nat /\ MaxSaid \in Nat /\ MaxStarts \in Nat
  BY MirrorAssumption

(* The primed form of SpecsAre. *)
LEMMA SpecsThen ==
    tick' \in Nat /\ said' \in Nat => \A r \in Said : _append_specs(r)' \in Seq(Of_(r))
  <1> DEFINE P == tick \in Nat /\ said \in Nat => \A r \in Said : _append_specs(r) \in Seq(Of_(r))
  <1>1. P
    BY SpecsAre
  <1> HIDE DEF P
  <1>2. P'
    BY <1>1, PTL
  <1>3. QED  BY <1>2 DEF P

(* A new scorecard at a cursor. *)
LEMMA BlankIs == ASSUME NEW n \in Nat PROVE Blank(n) \in Boards /\ Blank(n).cursor = n
  <1>1. NoScore \in Score
    BY DEF NoScore, Score, Texts
  <1>2. [i \in Issues |-> NoScore] \in [Issues -> Score]
    BY <1>1
  <1>3. QED  BY <1>2 DEF Blank, Boards

(* A log that is empty. *)
LEMMA MirrorInitHolds == MirrorInit => MirrorHeld
  <1> SUFFICES ASSUME MirrorInit PROVE MirrorHeld
    OBVIOUS
  <1>1. MirrorForm
    <2>1. 0 \in 0..MaxTick
      BY MirrorBounds
    <2>2. board \in Boards /\ board.cursor = 0
      BY BlankIs DEF MirrorInit
    <2>3. durable \in Seq(Mirrored) /\ Len(durable) = 0 /\ pending \in [Threads -> Seq(Mirrored)]
      BY DEF MirrorInit
    <2>4. tick \in 0..MaxTick /\ saved \in 0..Len(durable) /\ board.cursor \in {0, saved}
      BY <2>1, <2>2, <2>3 DEF MirrorInit
    <2>5. ticking = FALSE /\ said \in Nat /\ starts \in Nat \ {0}
      BY DEF MirrorInit
    <2>6. QED  BY <2>2, <2>3, <2>4, <2>5 DEF MirrorForm
  <1>2. DOMAIN durable = {} /\ \A t \in Threads : pending[t] = <<>>
    BY DEF MirrorInit
  <1>3. OncePerKey /\ FirstLife
    BY <1>2 DEF OncePerKey, FirstLife
  <1>4. WorkerQuiet /\ SettledSound
    BY <1>2 DEF WorkerQuiet, Threads, SettledSound, MirrorInit
  <1>5. QED  BY <1>1, <1>3, <1>4 DEF MirrorHeld

-----------------------------------------------------------------------------
(* A record is written. *)

LEMMA SayingHolds ==
    ASSUME MirrorHeld, NEW t \in Threads, NEW r \in Said, NEW specs \in Seq(Of_(r)),
           said' = said + 1, pending' = [pending EXCEPT ![t] = specs],
           durable' = durable, saved' = saved, board' = board, starts' = starts,
           tick' \in 0..MaxTick, ticking' \in BOOLEAN, ticking' => tick' # 0
    PROVE  MirrorForm' /\ OncePerKey'
  <1>1. Of_(r) \subseteq Mirrored
    BY DEF Of_
  <1>2. specs \in Seq(Mirrored)
    BY <1>1, SeqOfASubset
  <1>3. pending' \in [Threads -> Seq(Mirrored)]
    BY <1>2 DEF MirrorHeld, MirrorForm
  <1>4. OncePerKey'
    BY DEF MirrorHeld, OncePerKey, _idempotency_key
  <1>5. QED  BY <1>3, <1>4 DEF MirrorHeld, MirrorForm

(* A tick begins: it is later than every tick of the log. *)
LEMMA TickStartHolds == ASSUME MirrorHeld, TickStart PROVE MirrorHeld'
  <1>1. PICK r \in Said :
           /\ r.kind = "tick_start" /\ ~ticking /\ tick < MaxTick /\ tick' = tick + 1 /\ ticking'
           /\ said' = said + 1 /\ pending' = [pending EXCEPT !["tick"] = _append_specs(r)']
           /\ ticking' \in BOOLEAN /\ settled' = <<>>
           /\ durable' = durable /\ saved' = saved /\ board' = board /\ starts' = starts
    BY DEF TickStart
  <1>2. tick \in Nat /\ tick' \in 0..MaxTick /\ tick' \in Nat /\ said' \in Nat /\ tick' # 0
    BY <1>1, MirrorBounds DEF MirrorHeld, MirrorForm
  <1>3. _append_specs(r)' \in Seq(Of_(r))
    BY <1>2, SpecsThen
  <1>4. PICK specs \in Seq(Of_(r)) : pending' = [pending EXCEPT !["tick"] = specs]
    BY <1>1, <1>3
  <1>5. "tick" \in Threads /\ "worker" \in Threads
    BY DEF Threads
  <1>6. MirrorForm' /\ OncePerKey'
    BY <1>1, <1>2, <1>4, <1>5, SayingHolds
  <1>7. WorkerQuiet'
    BY <1>1 DEF WorkerQuiet
  <1>8. SettledSound'
    BY <1>1 DEF SettledSound
  <1>9. FirstLife'
    <2>1. SUFFICES ASSUME starts = 1 PROVE FirstLife'
      BY <1>1 DEF FirstLife
    <2>2. \A e \in Mirrored : Earlier(e) => Earlier(e)'
      BY <1>1, <1>2 DEF Earlier, Mirrored
    <2>3. \A n \in DOMAIN durable : Earlier(durable[n])'
      <3>1. \A n \in DOMAIN durable : Earlier(durable[n]) /\ durable[n] \in Mirrored
        BY <2>1, ElementOfSeq DEF MirrorHeld, MirrorForm, FirstLife
      <3>2. QED  BY <1>1, <2>2, <3>1 DEF Earlier
    <2>4. \A t \in Threads : \A n \in DOMAIN pending'[t] : Earlier(pending[t][n])'
      <3>1. ASSUME NEW t \in Threads, NEW n \in DOMAIN pending'[t] PROVE Earlier(pending[t][n])'
        <4>1. CASE t = "tick"
          <5>1. pending'[t] = specs
            BY <1>4, <4>1 DEF MirrorHeld, MirrorForm
          <5>2. specs[n] \in Of_(r)
            BY <5>1, <3>1, ElementOfSeq
          <5>3. specs[n].legacy # "tick_done"
            BY <1>1, <5>2 DEF Of_
          <5>4. QED  BY <5>1, <5>3 DEF Earlier
        <4>2. CASE t # "tick"
          <5>1. pending'[t] = pending[t] /\ pending[t] \in Seq(Mirrored)
            BY <1>4, <4>2 DEF MirrorHeld, MirrorForm
          <5>2. pending[t][n] \in Mirrored
            BY <3>1, <5>1, ElementOfSeq
          <5>3. Earlier(pending[t][n])
            BY <2>1, <3>1, <5>1 DEF MirrorHeld, FirstLife
          <5>4. pending[t][n].legacy = "tick_done" => pending[t][n].tick <= tick' /\ (ticking' => pending[t][n].tick < tick')
            BY <1>1, <1>2, <5>2, <5>3 DEF Earlier, Mirrored
          <5>5. QED  BY <5>1, <5>4 DEF Earlier
        <4>3. QED  BY <4>1, <4>2
      <3>2. QED  BY <3>1
    <2>5. QED  BY <1>1, <2>3, <2>4 DEF FirstLife
  <1>10. QED  BY <1>6, <1>7, <1>8, <1>9 DEF MirrorHeld

(* A record within the tick. *)
LEMMA TellHolds == ASSUME MirrorHeld, Tell PROVE MirrorHeld'
  <1>1. PICK r \in Said :
           /\ r.kind # "tick_done" /\ ticking
           /\ _write_record(IF r.by # "none" THEN "worker" ELSE "tick", r)
           /\ UNCHANGED <<tick, ticking, durable, saved, board, starts, mirrorErrors>>
    BY DEF Tell
  <1>2. PICK t \in Threads : t = IF r.by # "none" THEN "worker" ELSE "tick"
    BY DEF Threads
  <1>3. /\ said' = said + 1 /\ pending' = [pending EXCEPT ![t] = _append_specs(r)] /\ settled' = <<>>
        /\ tick' = tick /\ ticking' = ticking /\ durable' = durable /\ saved' = saved
        /\ board' = board /\ starts' = starts
    BY <1>1, <1>2 DEF _write_record
  <1>4. tick \in Nat /\ said \in Nat
    BY MirrorBounds DEF MirrorHeld, MirrorForm
  <1>5. PICK specs \in Seq(Of_(r)) : pending' = [pending EXCEPT ![t] = specs]
    BY <1>3, <1>4, SpecsAre
  <1>6. MirrorForm' /\ OncePerKey'
    <2>1. tick' \in 0..MaxTick /\ ticking' \in BOOLEAN /\ (ticking' => tick' # 0)
      BY <1>3 DEF MirrorHeld, MirrorForm
    <2>2. QED  BY <1>3, <1>5, <2>1, SayingHolds
  <1>7. WorkerQuiet'
    BY <1>1, <1>3 DEF WorkerQuiet
  <1>8. SettledSound'
    BY <1>3 DEF SettledSound
  <1>9. FirstLife'
    <2>1. SUFFICES ASSUME starts = 1 PROVE FirstLife'
      BY <1>3 DEF FirstLife
    <2>2. \A n \in DOMAIN durable : Earlier(durable[n])'
      BY <1>3, <2>1 DEF MirrorHeld, FirstLife, Earlier
    <2>3. \A u \in Threads : \A n \in DOMAIN pending'[u] : Earlier(pending[u][n])'
      <3>1. ASSUME NEW u \in Threads, NEW n \in DOMAIN pending'[u] PROVE Earlier(pending[u][n])'
        <4>1. CASE u = t
          <5>1. pending'[u] = specs
            BY <1>5, <4>1 DEF MirrorHeld, MirrorForm
          <5>2. specs[n] \in Of_(r)
            BY <5>1, <3>1, ElementOfSeq
          <5>3. specs[n].legacy # "tick_done"
            BY <1>1, <5>2 DEF Of_
          <5>4. QED  BY <5>1, <5>3 DEF Earlier
        <4>2. CASE u # t
          <5>1. pending'[u] = pending[u]
            BY <1>5, <4>2 DEF MirrorHeld, MirrorForm
          <5>2. Earlier(pending[u][n])
            BY <2>1, <3>1, <5>1 DEF MirrorHeld, FirstLife
          <5>3. QED  BY <1>3, <5>1, <5>2 DEF Earlier
        <4>3. QED  BY <4>1, <4>2
      <3>2. QED  BY <3>1
    <2>4. QED  BY <1>3, <2>2, <2>3 DEF FirstLife
  <1>10. QED  BY <1>6, <1>7, <1>8, <1>9 DEF MirrorHeld

(* The outcomes of a record of the loop. *)
LEMMA OutcomesAre ==
    ASSUME NEW r \in Said, r.kind = "tick_done"
    PROVE  OutcomesOf(r.outcomes) /\ r.ticked /\ r \in RecordRead
  <1>1. r \in RecordRead
    BY SaidIs
  <1>2. r.outcomes \in Seq(OutcomeRecord)
    BY <1>1 DEF RecordRead, OutcomeRecord
  <1>3. QED  BY <1>1, <1>2, MirrorAssumption DEF OutcomesOf

(* The tick is done: the log so far has no event of its tick_done. *)
LEMMA TickDoneHolds == ASSUME MirrorHeld, TickDone PROVE MirrorHeld'
  <1>1. PICK r \in Said :
           /\ r.kind = "tick_done" /\ ticking /\ pending["worker"] = <<>>
           /\ ticking' = FALSE
           /\ _write_record("tick", r)
           /\ UNCHANGED <<tick, durable, saved, board, starts, mirrorErrors>>
    BY DEF TickDone
  <1>2. "tick" \in Threads /\ "worker" \in Threads /\ "tick" # "worker"
    BY DEF Threads
  <1>3. /\ said' = said + 1 /\ pending' = [pending EXCEPT !["tick"] = _append_specs(r)]
        /\ settled' = r.outcomes /\ _append_specs(r) = _tick_done_specs(r)
        /\ tick' = tick /\ ticking' = FALSE /\ durable' = durable /\ saved' = saved
        /\ board' = board /\ starts' = starts
    BY <1>1 DEF _write_record, _append_specs
  <1>4. tick \in Nat /\ said \in Nat /\ tick # 0
    BY <1>1, MirrorBounds DEF MirrorHeld, MirrorForm
  <1>5. OutcomesOf(r.outcomes) /\ r.ticked /\ r \in RecordRead
    BY <1>1, OutcomesAre
  <1> DEFINE specs == _tick_done_specs(r)
             T == Tells(tick, r.outcomes)
  <1>6. /\ specs \in Seq(T)
        /\ \A k \in DOMAIN r.outcomes : r.outcomes[k].status \in WorkerStatus =>
              \E j \in DOMAIN specs : Ends(specs[j], r.outcomes[k])
    BY <1>1, <1>4, <1>5, TickDoneSpecs
  <1>7. specs \in Seq(Of_(r)) /\ pending' = [pending EXCEPT !["tick"] = specs]
    BY <1>3, <1>4, SpecsAre
  <1> HIDE DEF specs
  <1>8. MirrorForm' /\ OncePerKey'
    <2>1. tick' \in 0..MaxTick /\ ticking' \in BOOLEAN /\ (ticking' => tick' # 0)
      BY <1>3 DEF MirrorHeld, MirrorForm
    <2>2. QED  BY <1>2, <1>3, <1>7, <2>1, SayingHolds
  <1>9. pending'["tick"] = specs /\ pending'["worker"] = pending["worker"]
    BY <1>2, <1>7 DEF MirrorHeld, MirrorForm
  <1>10. WorkerQuiet'
    BY <1>1, <1>9 DEF WorkerQuiet
  <1>11. FirstLife'
    <2>1. SUFFICES ASSUME starts = 1 PROVE FirstLife'
      BY <1>3 DEF FirstLife
    <2>2. \A n \in DOMAIN durable : Earlier(durable[n])'
      BY <1>3, <2>1 DEF MirrorHeld, FirstLife, Earlier
    <2>3. \A n \in DOMAIN specs : specs[n].tick <= tick
      <3>1. \A n \in DOMAIN specs : specs[n].tick = tick
        BY <1>6, ElementOfSeq DEF Tells
      <3>2. QED  BY <1>4, <3>1
    <2>4. \A t \in Threads : \A n \in DOMAIN pending'[t] : Earlier(pending[t][n])'
      <3>1. \A t \in Threads : t = "tick" \/ t = "worker"
        BY DEF Threads
      <3>2. DOMAIN pending'["worker"] = {}
        BY <1>1, <1>9
      <3>3. \A n \in DOMAIN pending'["tick"] : Earlier(pending["tick"][n])'
        BY <1>3, <1>9, <2>3 DEF Earlier
      <3>4. QED  BY <3>1, <3>2, <3>3
    <2>5. QED  BY <1>3, <2>2, <2>4 DEF FirstLife
  <1>12. SettledSound'
    <2>1. SUFFICES ASSUME starts = 1 PROVE SettledSound'
      BY <1>3 DEF SettledSound
    <2>2. Len(durable) \in 0..Len(durable)
      BY DEF MirrorHeld, MirrorForm
    <2>3. \A n \in DOMAIN durable : ~(n > Len(durable))
      BY DEF MirrorHeld, MirrorForm
    <2>4. \A n \in DOMAIN durable : durable[n].legacy = "tick_done" => durable[n].tick # tick
      <3>1. ASSUME NEW n \in DOMAIN durable, durable[n].legacy = "tick_done" PROVE durable[n].tick # tick
        <4>1. durable[n].tick < tick
          BY <1>1, <2>1, <3>1 DEF MirrorHeld, FirstLife, Earlier
        <4>2. durable[n].tick \in Nat
          <5>1. durable \in Seq(Mirrored)
            BY DEF MirrorHeld, MirrorForm
          <5>2. durable[n] \in Mirrored
            BY <3>1, <5>1, ElementOfSeq
          <5>3. QED  BY <5>2, MirroredFields
        <4>3. QED  BY <1>4, <4>1, <4>2
      <3>2. QED  BY <3>1
    <2>5. SettledFrom(Len(durable))'
      <3>1. durable' = durable /\ tick' = tick /\ settled' = r.outcomes /\ Len(durable)' = Len(durable)
        BY <1>3
      <3>2. \A n \in DOMAIN durable : n <= Len(durable) /\ durable[n].legacy = "tick_done" => durable[n].tick # tick
        BY <2>4
      <3>3. pending'["tick"] \in Seq(T)
        BY <1>6, <1>9
      <3>4. \A k \in DOMAIN r.outcomes : r.outcomes[k].status \in WorkerStatus =>
               \E j \in DOMAIN pending'["tick"] : Ends(pending'["tick"][j], r.outcomes[k])
        BY <1>6, <1>9
      <3>5. QED  BY <2>3, <3>1, <3>2, <3>3, <3>4 DEF SettledFrom
    <2>6. \E m \in 0..Len(durable)' : SettledFrom(m)'
      BY <1>3, <2>2, <2>5
    <2>7. QED  BY <1>3, <1>4, <1>5, <2>6 DEF SettledSound
  <1>13. QED  BY <1>8, <1>10, <1>11, <1>12 DEF MirrorHeld

-----------------------------------------------------------------------------
(* The log fails; the process dies. *)

LEMMA MirrorFailsHolds == ASSUME MirrorHeld, NEW t \in Threads, MirrorFails(t) PROVE MirrorHeld'
  <1>1. /\ pending' = [pending EXCEPT ![t] = <<>>] /\ settled' = <<>>
        /\ UNCHANGED <<tick, ticking, durable, saved, board, said, starts>>
    BY DEF MirrorFails
  <1>2. pending' \in [Threads -> Seq(Mirrored)] /\ \A u \in Threads : pending'[u] = pending[u] \/ pending'[u] = <<>>
    BY <1>1 DEF MirrorHeld, MirrorForm
  <1>3. MirrorForm' /\ OncePerKey'
    BY <1>1, <1>2 DEF MirrorHeld, MirrorForm, OncePerKey, _idempotency_key
  <1>4. WorkerQuiet' /\ SettledSound'
    BY <1>1, <1>2 DEF MirrorHeld, WorkerQuiet, SettledSound, Threads
  <1>5. FirstLife'
    <2>1. SUFFICES ASSUME starts = 1 PROVE FirstLife'
      BY <1>1 DEF FirstLife
    <2>2. \A n \in DOMAIN durable : Earlier(durable[n])'
      BY <1>1, <2>1 DEF MirrorHeld, FirstLife, Earlier
    <2>3. \A u \in Threads : \A n \in DOMAIN pending'[u] : Earlier(pending[u][n])'
      BY <1>1, <1>2, <2>1 DEF MirrorHeld, FirstLife, Earlier
    <2>4. QED  BY <1>1, <2>2, <2>3 DEF FirstLife
  <1>6. QED  BY <1>3, <1>4, <1>5 DEF MirrorHeld

(* The process dies, and its ticks are numbered anew. *)
LEMMA DeathHolds == ASSUME MirrorHeld, Dies PROVE MirrorHeld'
  <1>1. /\ starts' = starts + 1 /\ tick' = 0 /\ ticking' = FALSE
        /\ pending' = [t \in Threads |-> <<>>] /\ board' = Blank(0) /\ settled' = <<>>
        /\ durable' = durable /\ saved' = saved /\ said' = said
    BY DEF Dies
  <1>2. starts' \in Nat \ {0} /\ starts' # 1 /\ 0 \in 0..MaxTick
    BY <1>1, MirrorBounds DEF MirrorHeld, MirrorForm
  <1>3. pending' \in [Threads -> Seq(Mirrored)] /\ \A u \in Threads : pending'[u] = <<>>
    BY <1>1
  <1>4. MirrorForm' /\ OncePerKey'
    BY <1>1, <1>2, <1>3, BlankIs DEF MirrorHeld, MirrorForm, OncePerKey, _idempotency_key
  <1>5. WorkerQuiet' /\ SettledSound' /\ FirstLife'
    BY <1>1, <1>2, <1>3 DEF WorkerQuiet, SettledSound, FirstLife, Threads
  <1>6. QED  BY <1>4, <1>5 DEF MirrorHeld

(* The scorecard is driven to the tail. *)
LEMMA ReplayReaches ==
    ASSUME durable \in Seq(Mirrored), NEW from \in 0..Len(durable)
    PROVE  /\ Replay(Blank(from), from) \in Boards
           /\ Replay(Blank(from), from).cursor = Len(durable)
  <1>1. from \in Nat /\ Len(durable) \in Nat
    OBVIOUS
  <1>2. Blank(from) \in Boards /\ Blank(from).cursor = from
    BY <1>1, BlankIs
  <1>3. PICK g \in [from..Len(durable) -> Boards] :
              /\ g[from] = Blank(from) /\ Replay(Blank(from), from) = g[Len(durable)]
              /\ \A n \in from..Len(durable) : n # from => g[n] = apply(g[n - 1], n)
    BY <1>2, ReplayIs
  <1> DEFINE S == {n \in from..Len(durable) : g[n].cursor = n}
  <1>4. from \in S
    BY <1>1, <1>2, <1>3
  <1>5. ASSUME NEW n \in from..Len(durable), n # Len(durable), n \in S PROVE n + 1 \in S
    <2>1. PICK m \in from..Len(durable) : m = n + 1 /\ m # from /\ m \in 1..Len(durable) /\ m - 1 = n /\ m > n
      BY <1>1, <1>5
    <2>2. g[m] = apply(g[m - 1], m)
      BY <1>3, <2>1
    <2>3. g[n] \in Boards /\ g[n].cursor = n
      BY <1>5
    <2>4. apply(g[n], m).cursor = m
      BY <2>1, <2>3, ApplyIs
    <2>5. QED  BY <2>1, <2>2, <2>4
  <1> HIDE DEF S
  <1>6. \A n \in from..Len(durable) : n \in S
    BY <1>1, <1>4, <1>5, Upward
  <1>7. Len(durable) \in from..Len(durable)
    BY <1>1
  <1>8. QED  BY <1>3, <1>6, <1>7 DEF S

(* The scorecard of a boot context is at the tail. *)
LEMMA DriveHolds == ASSUME MirrorHeld, _drive_projections_to_tail PROVE MirrorHeld'
  <1>1. /\ board' = Replay(Blank(saved), saved) /\ saved' = board'.cursor
        /\ UNCHANGED <<tick, ticking, durable, pending, said, settled, starts, mirrorErrors>>
    BY DEF _drive_projections_to_tail
  <1>2. durable \in Seq(Mirrored) /\ saved \in 0..Len(durable)
    BY DEF MirrorHeld, MirrorForm
  <1>3. board' \in Boards /\ board'.cursor = Len(durable)
    BY <1>1, <1>2, ReplayReaches
  <1>4. saved' \in 0..Len(durable) /\ board'.cursor \in {0, saved'}
    BY <1>1, <1>2, <1>3
  <1>5. MirrorForm'
    BY <1>1, <1>3, <1>4 DEF MirrorHeld, MirrorForm
  <1>6. OncePerKey' /\ WorkerQuiet'
    BY <1>1 DEF MirrorHeld, OncePerKey, _idempotency_key, WorkerQuiet
  <1>7. FirstLife'
    BY <1>1 DEF MirrorHeld, FirstLife, Earlier
  <1>8. SettledSound'
    <2>1. \A m : SettledFrom(m)' <=> SettledFrom(m)
      BY <1>1 DEF SettledFrom
    <2>2. QED  BY <1>1, <2>1 DEF MirrorHeld, SettledSound
  <1>9. QED  BY <1>5, <1>6, <1>7, <1>8 DEF MirrorHeld

(* A step that changes nothing. *)
LEMMA MirrorStutters == ASSUME MirrorHeld, UNCHANGED mirrorVars PROVE MirrorHeld'
  <1>1. UNCHANGED <<tick, ticking, durable, pending, saved, board, said, settled, starts, mirrorErrors>>
    BY DEF mirrorVars
  <1>2. MirrorForm' /\ OncePerKey' /\ WorkerQuiet'
    BY <1>1 DEF MirrorHeld, MirrorForm, OncePerKey, _idempotency_key, WorkerQuiet
  <1>3. FirstLife'
    BY <1>1 DEF MirrorHeld, FirstLife, Earlier
  <1>4. SettledSound'
    <2>1. \A m : SettledFrom(m)' <=> SettledFrom(m)
      BY <1>1 DEF SettledFrom
    <2>2. QED  BY <1>1, <2>1 DEF MirrorHeld, SettledSound
  <1>5. QED  BY <1>2, <1>3, <1>4 DEF MirrorHeld

-----------------------------------------------------------------------------
(* One append. *)

LEMMA PopIs ==
    ASSUME NEW S, NEW p \in Seq(S), p # <<>>
    PROVE  /\ Head(p) \in S /\ Tail(p) \in Seq(S)
           /\ \A j \in DOMAIN p : p[j] = Head(p) \/ \E i \in DOMAIN Tail(p) : Tail(p)[i] = p[j]
           /\ \A i \in DOMAIN Tail(p) : \E j \in DOMAIN p : p[j] = Tail(p)[i]
           /\ \E j \in DOMAIN p : p[j] = Head(p)
  <1> DEFINE q == Tail(p)
  <1>1. PICK x \in Nat : x = Len(p) /\ x # 0
    BY EmptySeq
  <1>2. DOMAIN p = 1..x /\ Head(p) = p[1] /\ 1 \in 1..x
    BY <1>1
  <1>3. q \in Seq(S) /\ Len(q) = x - 1 /\ \A i \in 1..Len(q) : q[i] = p[i + 1]
    BY <1>1, HeadTailProperties
  <1>4. DOMAIN q = 1..(x - 1)
    BY <1>3
  <1> HIDE DEF q
  <1>5. ASSUME NEW j \in 1..x, j # 1 PROVE \E i \in 1..(x - 1) : q[i] = p[j]
    <2>1. PICK i \in 1..(x - 1) : i + 1 = j
      BY <1>1, <1>5
    <2>2. q[i] = p[i + 1]
      BY <1>3
    <2>3. QED  BY <2>1, <2>2
  <1>6. ASSUME NEW i \in 1..(x - 1) PROVE \E j \in 1..x : p[j] = q[i]
    <2>1. PICK j \in 1..x : j = i + 1
      BY <1>1
    <2>2. QED  BY <1>3, <2>1
  <1>7. Head(p) \in S
    BY <1>2, ElementOfSeq
  <1>8. QED  BY <1>2, <1>3, <1>4, <1>5, <1>6, <1>7 DEF q

(* A log that has grown by s at most. *)
Grown(log, more, s) ==
    /\ more \in Seq(Mirrored) /\ Len(log) <= Len(more)
    /\ \A n \in DOMAIN log : n \in DOMAIN more /\ more[n] = log[n]
    /\ \A n \in DOMAIN more : n \in DOMAIN log \/ (n = Len(log) + 1 /\ more[n] = s)

(* A log to which an event is appended. *)
LEMMA PushIs ==
    ASSUME NEW log \in Seq(Mirrored), NEW s \in Mirrored
    PROVE  /\ Grown(log, Append(log, s), s)
           /\ Len(log) + 1 \in DOMAIN Append(log, s) /\ Append(log, s)[Len(log) + 1] = s
  <1> DEFINE w == Append(log, s)
  <1>1. PICK x \in Nat : x = Len(log)
    OBVIOUS
  <1>2. /\ w \in Seq(Mirrored) /\ Len(w) = x + 1
        /\ \A n \in 1..x : w[n] = log[n]
        /\ w[x + 1] = s
    BY <1>1, AppendProperties
  <1>3. DOMAIN log = 1..x /\ DOMAIN w = 1..(x + 1)
    BY <1>1, <1>2
  <1> HIDE DEF w
  <1>4. x <= x + 1 /\ x + 1 \in 1..(x + 1) /\ 1..x \subseteq 1..(x + 1)
        /\ \A n \in 1..(x + 1) : n \in 1..x \/ n = x + 1
    OBVIOUS
  <1>5. Grown(log, w, s)
    BY <1>1, <1>2, <1>3, <1>4 DEF Grown
  <1>6. QED  BY <1>1, <1>2, <1>3, <1>4, <1>5 DEF w

(* What one append does to the log and to what is left. *)
LEMMA AppendIs ==
    ASSUME MirrorForm, NEW t \in Threads, Append_(t)
    PROVE  /\ Head(pending[t]) \in Mirrored
           /\ pending' = [pending EXCEPT ![t] = Tail(pending[t])] /\ Tail(pending[t]) \in Seq(Mirrored)
           /\ Grown(durable, durable', Head(pending[t]))
           /\ Recorded(Head(pending[t])) => durable' = durable
           /\ ~Recorded(Head(pending[t])) =>
                 Len(durable) + 1 \in DOMAIN durable' /\ durable'[Len(durable) + 1] = Head(pending[t])
           /\ UNCHANGED <<tick, ticking, saved, board, said, settled, starts>>
  <1> DEFINE h == Head(pending[t])
  <1>1. pending[t] \in Seq(Mirrored) /\ pending[t] # <<>> /\ durable \in Seq(Mirrored)
    BY DEF MirrorForm, Append_
  <1>2. h \in Mirrored /\ Tail(pending[t]) \in Seq(Mirrored)
    BY <1>1, PopIs
  <1>3. /\ durable' = IF Recorded(h) THEN durable ELSE Append(durable, h)
        /\ pending' = [pending EXCEPT ![t] = Tail(pending[t])]
        /\ UNCHANGED <<tick, ticking, saved, board, said, settled, starts>>
    BY DEF Append_
  <1> HIDE DEF h
  <1>4. CASE Recorded(h)
    <2>1. durable' = durable
      BY <1>3, <1>4
    <2>2. Grown(durable, durable, h)
      BY <1>1 DEF Grown
    <2>3. QED  BY <1>2, <1>3, <1>4, <2>1, <2>2 DEF h
  <1>5. CASE ~Recorded(h)
    <2>1. durable' = Append(durable, h)
      BY <1>3, <1>5
    <2>2. Grown(durable, durable', h) /\ Len(durable) + 1 \in DOMAIN durable' /\ durable'[Len(durable) + 1] = h
      BY <1>1, <1>2, <2>1, PushIs
    <2>3. QED  BY <1>2, <1>3, <1>5, <2>2 DEF h
  <1>6. QED  BY <1>4, <1>5

(* A key is in the log once: what is recorded is not appended. *)
LEMMA AppendKeepsForm == ASSUME MirrorHeld, NEW t \in Threads, Append_(t) PROVE MirrorForm' /\ OncePerKey' /\ WorkerQuiet'
  <1> DEFINE h == Head(pending[t])
  <1>1. MirrorForm /\ OncePerKey /\ WorkerQuiet
    BY DEF MirrorHeld
  <1>2. /\ h \in Mirrored /\ Grown(durable, durable', h) /\ (Recorded(h) => durable' = durable)
        /\ pending' = [pending EXCEPT ![t] = Tail(pending[t])] /\ Tail(pending[t]) \in Seq(Mirrored)
        /\ UNCHANGED <<tick, ticking, saved, board, said, settled, starts>>
    BY <1>1, AppendIs
  <1> HIDE DEF h
  <1>3. MirrorForm'
    <2>1. durable' \in Seq(Mirrored) /\ Len(durable) <= Len(durable')
      BY <1>2 DEF Grown
    <2>2. Len(durable) \in Nat /\ Len(durable') \in Nat
      BY <1>1, <2>1 DEF MirrorForm
    <2>3. saved \in 0..Len(durable')
      BY <1>1, <2>1, <2>2 DEF MirrorForm
    <2>4. pending' \in [Threads -> Seq(Mirrored)]
      BY <1>1, <1>2 DEF MirrorForm
    <2>5. QED  BY <1>1, <1>2, <2>1, <2>3, <2>4 DEF MirrorForm
  <1>4. OncePerKey'
    <2> DEFINE K(e) == _idempotency_key(e)
    <2>1. \A j, k \in DOMAIN durable : K(durable[j]) = K(durable[k]) => j = k
      BY <1>1 DEF OncePerKey
    <2>2. ~Recorded(h) => \A k \in DOMAIN durable : K(durable[k]) # K(h)
      BY DEF Recorded
    <2>3. \A n \in DOMAIN durable' : \/ n \in DOMAIN durable /\ durable'[n] = durable[n]
                                     \/ n = Len(durable) + 1 /\ durable'[n] = h
      BY <1>2 DEF Grown
    <2>4. ASSUME NEW j \in DOMAIN durable', NEW k \in DOMAIN durable', K(durable'[j]) = K(durable'[k]) PROVE j = k
      <3>1. CASE Recorded(h)
        BY <1>2, <2>1, <2>4, <3>1
      <3>2. CASE ~Recorded(h)
        <4> HIDE DEF K
        <4>1. QED  BY <2>1, <2>2, <2>3, <2>4, <3>2
      <3>3. QED  BY <3>1, <3>2
    <2>5. QED  BY <2>4 DEF OncePerKey, _idempotency_key
  <1>5. WorkerQuiet'
    <2>1. SUFFICES ASSUME ~ticking PROVE pending'["worker"] = <<>>
      BY <1>2 DEF WorkerQuiet
    <2>2. pending["worker"] = <<>>
      BY <1>1, <2>1 DEF WorkerQuiet
    <2>3. t # "worker"
      BY <2>2 DEF Append_
    <2>4. QED  BY <1>1, <1>2, <2>2, <2>3 DEF MirrorForm, Threads
  <1>6. QED  BY <1>3, <1>4, <1>5

(* No event is of a later tick. *)
LEMMA AppendKeepsFirstLife == ASSUME MirrorHeld, NEW t \in Threads, Append_(t) PROVE FirstLife'
  <1> DEFINE h == Head(pending[t])
  <1>1. MirrorForm /\ FirstLife
    BY DEF MirrorHeld
  <1>2. /\ h \in Mirrored /\ Grown(durable, durable', h)
        /\ pending' = [pending EXCEPT ![t] = Tail(pending[t])]
        /\ UNCHANGED <<tick, ticking, saved, board, said, settled, starts>>
    BY <1>1, AppendIs
  <1>3. SUFFICES ASSUME starts = 1 PROVE FirstLife'
    BY <1>2 DEF FirstLife
  <1>4. /\ \A n \in DOMAIN durable : Earlier(durable[n])
        /\ \A u \in Threads : \A n \in DOMAIN pending[u] : Earlier(pending[u][n])
    BY <1>1, <1>3 DEF FirstLife
  <1>5. pending[t] \in Seq(Mirrored) /\ pending[t] # <<>>
    BY <1>1 DEF MirrorForm, Append_
  <1>6. /\ \A i \in DOMAIN Tail(pending[t]) : \E j \in DOMAIN pending[t] : pending[t][j] = Tail(pending[t])[i]
        /\ \E j \in DOMAIN pending[t] : pending[t][j] = h
    BY <1>5, PopIs
  <1>7. Earlier(h)
    BY <1>4, <1>6
  <1> HIDE DEF h
  <1>8. \A n \in DOMAIN durable' : durable'[n] = h \/ (n \in DOMAIN durable /\ durable'[n] = durable[n])
    BY <1>2 DEF Grown
  <1>9. \A n \in DOMAIN durable' : Earlier(durable'[n])
    <2> HIDE DEF Earlier
    <2>1. QED  BY <1>4, <1>7, <1>8
  <1>10. \A u \in Threads : \A n \in DOMAIN pending'[u] : Earlier(pending'[u][n])
    <2>1. ASSUME NEW u \in Threads, NEW n \in DOMAIN pending'[u] PROVE Earlier(pending'[u][n])
      <3>1. CASE u = t
        <4>1. pending'[u] = Tail(pending[t])
          BY <1>1, <1>2, <3>1 DEF MirrorForm
        <4>2. PICK j \in DOMAIN pending[t] : pending[t][j] = pending'[u][n]
          BY <1>6, <2>1, <4>1
        <4>3. QED  BY <1>4, <4>2
      <3>2. CASE u # t
        <4>1. pending'[u] = pending[u]
          BY <1>1, <1>2, <3>2 DEF MirrorForm
        <4>2. QED  BY <1>4, <2>1, <4>1
      <3>3. QED  BY <3>1, <3>2
    <2>2. QED  BY <2>1
  <1>11. QED  BY <1>2, <1>9, <1>10 DEF FirstLife, Earlier

(* An event with the key of one of the tick is one of the tick. *)
LEMMA SameKeyTellsTheSame ==
    ASSUME NEW time, NEW outcomes, OutcomesOf(outcomes), NEW k \in DOMAIN outcomes,
           NEW h, NEW e \in Tells(time, outcomes), Ends(h, outcomes[k]),
           _idempotency_key(e) = _idempotency_key(h)
    PROVE  Ends(e, outcomes[k])
  <1>1. e.kind = h.kind /\ e.issue = h.issue
    BY DEF _idempotency_key
  <1>2. outcomes[k].issue \in Issues
    <2>1. outcomes[k] \in OutcomeRecord
      BY ElementOfSeq DEF OutcomesOf
    <2>2. QED  BY <2>1 DEF OutcomeRecord
  <1>3. 0 \notin Issues
    BY DEF Issues
  <1>4. e.issue = outcomes[k].issue /\ e.issue # 0
    BY <1>1, <1>2, <1>3 DEF Ends, Matches
  <1>5. PICK j \in DOMAIN outcomes : Matches(e, outcomes[j])
    BY <1>4 DEF Tells
  <1>6. j = k
    BY <1>4, <1>5 DEF OutcomesOf, Matches
  <1>7. QED  BY <1>1, <1>5, <1>6 DEF Ends

(* What ends the task of an outcome is in the log, or is left to append. *)
LEMMA AppendKeepsSettled == ASSUME MirrorHeld, NEW t \in Threads, Append_(t) PROVE SettledSound'
  <1> DEFINE h == Head(pending[t])
  <1>1. MirrorForm /\ SettledSound /\ WorkerQuiet
    BY DEF MirrorHeld
  <1>2. /\ h \in Mirrored /\ Grown(durable, durable', h)
        /\ Recorded(h) => durable' = durable
        /\ ~Recorded(h) => Len(durable) + 1 \in DOMAIN durable' /\ durable'[Len(durable) + 1] = h
        /\ pending' = [pending EXCEPT ![t] = Tail(pending[t])]
        /\ UNCHANGED <<tick, ticking, saved, board, said, settled, starts>>
    BY <1>1, AppendIs
  <1>3. SUFFICES ASSUME starts = 1, settled # <<>> PROVE SettledSound'
    BY <1>2 DEF SettledSound
  <1>4. ~ticking /\ tick # 0 /\ OutcomesOf(settled)
    BY <1>1, <1>3 DEF SettledSound
  <1>5. PICK m \in 0..Len(durable) : SettledFrom(m)
    BY <1>1, <1>3 DEF SettledSound
  <1>6. t = "tick"
    BY <1>1, <1>4 DEF WorkerQuiet, Append_, Threads
  <1> DEFINE T == Tells(tick, settled)
             p == pending["tick"]
             q == Tail(p)
  <1>7. p \in Seq(T) /\ p # <<>> /\ h = Head(p)
    BY <1>5, <1>6 DEF SettledFrom, Append_
  <1>8. /\ h \in T /\ q \in Seq(T)
        /\ \A j \in DOMAIN p : p[j] = h \/ \E i \in DOMAIN q : q[i] = p[j]
    BY <1>7, PopIs
  <1>9. pending'["tick"] = q
    BY <1>1, <1>2, <1>6 DEF MirrorForm
  <1> HIDE DEF h, q, p
  <1>10. PICK x \in Nat : x = Len(durable) /\ m <= x /\ DOMAIN durable = 1..x
    BY <1>1 DEF MirrorForm
  <1>20. m \in Nat
    BY <1>10
  <1>11. \A n \in DOMAIN durable' : \/ n \in DOMAIN durable /\ durable'[n] = durable[n]
                                    \/ n = x + 1 /\ durable'[n] = h
    BY <1>2, <1>10 DEF Grown
  <1>12. \A n \in DOMAIN durable : n \in DOMAIN durable' /\ durable'[n] = durable[n]
    BY <1>2 DEF Grown
  <1>13. \A n \in DOMAIN durable' : n <= m /\ durable'[n].legacy = "tick_done" => durable'[n].tick # tick
    <2>1. \A n \in DOMAIN durable : n <= m /\ durable[n].legacy = "tick_done" => durable[n].tick # tick
      BY <1>5 DEF SettledFrom
    <2>2. ~(x + 1 <= m)
      BY <1>10, <1>20
    <2>3. QED  BY <1>11, <2>1, <2>2
  <1>14. \A n \in DOMAIN durable' : n > m => durable'[n] \in T
    <2>1. \A n \in DOMAIN durable : n > m => durable[n] \in T
      BY <1>5 DEF SettledFrom
    <2> HIDE DEF T
    <2>2. QED  BY <1>8, <1>11, <2>1
  <1>15. ASSUME NEW k \in DOMAIN settled, settled[k].status \in WorkerStatus
         PROVE  \/ \E n \in DOMAIN durable' : n > m /\ Ends(durable'[n], settled[k])
                \/ \E n \in DOMAIN q : Ends(q[n], settled[k])
    <2>1. \/ \E n \in DOMAIN durable : n > m /\ Ends(durable[n], settled[k])
          \/ \E n \in DOMAIN p : Ends(p[n], settled[k])
      BY <1>5, <1>15 DEF SettledFrom, p
    <2>2. CASE \E n \in DOMAIN durable : n > m /\ Ends(durable[n], settled[k])
      BY <1>12, <2>2
    <2>3. ASSUME NEW n \in DOMAIN p, Ends(p[n], settled[k]), p[n] = h
          PROVE  \E i \in DOMAIN durable' : i > m /\ Ends(durable'[i], settled[k])
      <3>1. CASE ~Recorded(h)
        <4>1. x + 1 \in DOMAIN durable' /\ durable'[x + 1] = h /\ x + 1 > m
          BY <1>2, <1>10, <1>20, <3>1
        <4>2. QED  BY <2>3, <4>1
      <3>2. CASE Recorded(h)
        <4>1. PICK i \in DOMAIN durable : _idempotency_key(durable[i]) = _idempotency_key(h)
          BY <3>2 DEF Recorded
        <4>2. durable[i].legacy = h.legacy /\ durable[i].tick = h.tick
          BY <4>1 DEF _idempotency_key
        <4>3. h.legacy = "tick_done" /\ h.tick = tick
          BY <1>8 DEF Tells
        <4>4. ~(i <= m)
          BY <1>5, <4>2, <4>3 DEF SettledFrom
        <4>5. i > m
          BY <1>10, <1>20, <4>4
        <4>6. durable[i] \in T
          BY <1>5, <4>5 DEF SettledFrom
        <4>7. Ends(h, settled[k])
          BY <2>3
        <4>8. Ends(durable[i], settled[k])
          BY <1>4, <4>1, <4>6, <4>7, SameKeyTellsTheSame
        <4>9. QED  BY <1>12, <4>5, <4>8
      <3>3. QED  BY <3>1, <3>2
    <2>4. CASE \E n \in DOMAIN p : Ends(p[n], settled[k])
      <3>1. PICK n \in DOMAIN p : Ends(p[n], settled[k])
        BY <2>4
      <3>2. CASE p[n] = h
        BY <2>3, <3>1, <3>2
      <3>3. CASE p[n] # h
        BY <1>8, <3>1, <3>3
      <3>4. QED  BY <3>2, <3>3
    <2>5. QED  BY <2>1, <2>2, <2>4
  <1>16. SettledFrom(m)'
    <2>1. tick' = tick /\ settled' = settled
      BY <1>2
    <2>2. pending'["tick"] \in Seq(T)
      BY <1>8, <1>9
    <2>3. \A k \in DOMAIN settled : settled[k].status \in WorkerStatus =>
            \/ \E n \in DOMAIN durable' : n > m /\ Ends(durable'[n], settled[k])
            \/ \E n \in DOMAIN pending'["tick"] : Ends(pending'["tick"][n], settled[k])
      BY <1>9, <1>15
    <2>4. QED  BY <1>13, <1>14, <2>1, <2>2, <2>3 DEF SettledFrom
  <1>17. m \in 0..Len(durable')
    <2>1. Len(durable) <= Len(durable') /\ durable' \in Seq(Mirrored)
      BY <1>2 DEF Grown
    <2>2. QED  BY <1>10, <1>20, <2>1
  <1>18. QED  BY <1>2, <1>4, <1>16, <1>17 DEF SettledSound

-----------------------------------------------------------------------------
(* The timeline. *)

Timeline == [planned : BOOLEAN, dispatched : BOOLEAN, terminal : Texts, pr : Texts, ticks : SUBSET Nat]

(* What the timeline of the task of an outcome shows. *)
Shows(task, o, time) ==
    /\ task.terminal = o.status
    /\ o.pr # "" => task.pr = o.pr
    /\ time \in task.ticks

(* What an event changes of a timeline. *)
LEMMA RetoldIs ==
    ASSUME NEW task \in Timeline, NEW e \in Mirrored
    PROVE  /\ Retold(task, e) \in Timeline
           /\ Retold(task, e).terminal = IF e.kind \in TerminalKinds THEN e.status ELSE task.terminal
           /\ Retold(task, e).pr = IF e.kind = "pr.opened" \/ e.pr # "" THEN e.pr ELSE task.pr
           /\ Retold(task, e).ticks = task.ticks \cup ({e.tick} \ {0})
  <1>1. /\ e.status \in Texts /\ e.pr \in Texts /\ e.tick \in Nat
    BY MirroredFields
  <1>2. task.terminal \in Texts /\ task.pr \in Texts /\ task.ticks \in SUBSET Nat
    BY DEF Timeline
  <1>3. /\ (task.planned \/ e.kind = "task.planned") \in BOOLEAN
        /\ (task.dispatched \/ e.kind = "task.dispatched") \in BOOLEAN
    OBVIOUS
  <1>4. task.ticks \cup ({e.tick} \ {0}) \in SUBSET Nat
    BY <1>1, <1>2
  <1>5. (IF e.kind \in TerminalKinds THEN e.status ELSE task.terminal) \in Texts
    BY <1>1, <1>2
  <1>6. (IF e.kind = "pr.opened" \/ e.pr # "" THEN e.pr ELSE task.pr) \in Texts
    BY <1>1, <1>2
  <1>7. QED  BY <1>3, <1>4, <1>5, <1>6 DEF Retold, Timeline

(* The timeline of a task of which nothing is told. *)
LEMMA NoTaskIs == NoTask \in Timeline
  BY DEF NoTask, Timeline, Texts

(* The timeline after each event. *)
ToldBy(g, log, id) ==
    /\ replay_task_timeline(log, id) = g[Len(log)]
    /\ \A n \in 0..Len(log) : n # 0 =>
          g[n] = IF log[n].issue = id THEN Retold(g[n - 1], log[n]) ELSE g[n - 1]

(* A timeline is told event by event. *)
LEMMA TimelineIs ==
    ASSUME NEW log \in Seq(Mirrored), NEW id
    PROVE  \E g \in [0..Len(log) -> Timeline] : ToldBy(g, log, id)
  <1> DEFINE len == Len(log)
             Unfolding(g) == g = [n \in 0..len |-> IF n = 0 THEN NoTask
                                              ELSE IF log[n].issue = id THEN Retold(g[n - 1], log[n]) ELSE g[n - 1]]
             u == CHOOSE g : Unfolding(g)
             F == [n \in 0..len |-> [x \in Timeline |-> IF n = 0 THEN NoTask ELSE
                                        IF log[n].issue = id THEN Retold(x, log[n]) ELSE x]]
  <1>1. len \in Nat /\ 0 \in Nat /\ 0 <= len /\ len \in 0..len
    OBVIOUS
  <1>2. \A n \in 0..len : n # 0 => n \in 1..len /\ n - 1 \in 0..len /\ log[n] \in Mirrored
    <2>1. \A n \in 0..len : n # 0 => n \in DOMAIN log /\ n \in 1..len /\ n - 1 \in 0..len
      BY <1>1
    <2>2. QED  BY <2>1, ElementOfSeq
  <1>3. replay_task_timeline(log, id) = u[len]
    BY DEF replay_task_timeline
  <1> HIDE DEF len, u
  <1>4. F \in [0..len -> [Timeline -> Timeline]]
    BY <1>2, RetoldIs, NoTaskIs
  <1>5. \A n \in 0..len, x \in Timeline : n # 0 =>
           F[n][x] = IF log[n].issue = id THEN Retold(x, log[n]) ELSE x
    OBVIOUS
  <1> HIDE DEF F
  <1>6. PICK g \in [0..len -> Timeline] : Unfolded(g, F, NoTask, 0, len)
    BY <1>1, <1>4, NoTaskIs, Unfolds
  <1>7. g[0] = NoTask /\ \A n \in 0..len : n # 0 => g[n] = F[n][g[n - 1]]
    BY <1>6 DEF Unfolded
  <1>8. \A n \in 0..len : n # 0 =>
           g[n] = IF log[n].issue = id THEN Retold(g[n - 1], log[n]) ELSE g[n - 1]
    BY <1>2, <1>5, <1>7
  <1>9. Unfolding(g)
    BY <1>6, <1>7, <1>8
  <1>10. Unfolding(u)
    BY <1>9 DEF u
  <1>11. \A n \in 0..len : u[n] = IF n = 0 THEN NoTask
                                  ELSE IF log[n].issue = id THEN Retold(u[n - 1], log[n]) ELSE u[n - 1]
    BY <1>10
  <1> DEFINE S == {n \in 0..len : u[n] = g[n]}
  <1>12. 0 \in S
    BY <1>1, <1>7, <1>11
  <1>13. ASSUME NEW n \in 0..len, n # len, n \in S PROVE n + 1 \in S
    <2>1. PICK k \in 0..len : k = n + 1 /\ k # 0 /\ k - 1 = n
      BY <1>1, <1>13
    <2>2. u[k] = IF log[k].issue = id THEN Retold(u[n], log[k]) ELSE u[n]
      BY <1>11, <2>1
    <2>3. g[k] = IF log[k].issue = id THEN Retold(g[n], log[k]) ELSE g[n]
      BY <1>8, <2>1
    <2>4. QED  BY <1>13, <2>1, <2>2, <2>3
  <1> HIDE DEF S
  <1>14. \A n \in 0..len : n \in S
    BY <1>1, <1>12, <1>13, Upward
  <1>15. replay_task_timeline(log, id) = g[len]
    BY <1>1, <1>3, <1>14 DEF S
  <1>16. ToldBy(g, log, id)
    BY <1>8, <1>15 DEF ToldBy, len
  <1>17. QED  BY <1>6, <1>16 DEF len

(* After the event that ends the task, the timeline shows its outcome, and goes on doing so. *)
LEMMA TimelineEnds ==
    ASSUME NEW log \in Seq(Mirrored), NEW m \in 0..Len(log), NEW time \in Nat \ {0},
           NEW outcomes, OutcomesOf(outcomes), NEW k \in DOMAIN outcomes,
           \A n \in DOMAIN log : n > m => log[n] \in Tells(time, outcomes),
           \E n \in DOMAIN log : n > m /\ Ends(log[n], outcomes[k])
    PROVE  Shows(replay_task_timeline(log, outcomes[k].issue), outcomes[k], time)
  <1> DEFINE o == outcomes[k]
             len == Len(log)
  <1>1. PICK g \in [0..Len(log) -> Timeline] : ToldBy(g, log, o.issue)
    BY TimelineIs
  <1>2. PICK w \in DOMAIN log : w > m /\ Ends(log[w], o)
    OBVIOUS
  <1>3. len \in Nat /\ DOMAIN log = 1..len /\ m \in Nat /\ w \in 1..len /\ len \in w..len
        /\ \A n \in w..len : n \in 1..len /\ n > m /\ n \in 0..len /\ n # 0 /\ n - 1 \in 0..len
    OBVIOUS
  <1>4. o.issue # 0
    <2>1. outcomes[k] \in OutcomeRecord
      BY ElementOfSeq DEF OutcomesOf
    <2>2. QED  BY <2>1 DEF OutcomeRecord, Issues
  <1>5. \A n \in w..len : log[n] \in Mirrored /\ log[n].tick = time
                          /\ (log[n].issue = o.issue => Matches(log[n], o))
    <2>1. ASSUME NEW n \in w..len PROVE log[n] \in Mirrored /\ log[n].tick = time
                          /\ (log[n].issue = o.issue => Matches(log[n], o))
      <3>1. log[n] \in Tells(time, outcomes)
        BY <1>3
      <3>2. log[n] \in Mirrored /\ log[n].tick = time
        BY <3>1 DEF Tells
      <3>3. ASSUME log[n].issue = o.issue PROVE Matches(log[n], o)
        <4>1. PICK j \in DOMAIN outcomes : Matches(log[n], outcomes[j])
          BY <1>4, <3>1, <3>3 DEF Tells
        <4>2. j = k
          BY <3>3, <4>1 DEF OutcomesOf, Matches
        <4>3. QED  BY <4>1, <4>2
      <3>4. QED  BY <3>2, <3>3
    <2>2. QED  BY <2>1
  <1> HIDE DEF len, o
  <1>6. \A n \in w..len : /\ g[n - 1] \in Timeline
                          /\ log[n].issue # o.issue => g[n] = g[n - 1]
                          /\ log[n].issue = o.issue => g[n] = Retold(g[n - 1], log[n])
    BY <1>1, <1>3 DEF ToldBy, len
  <1> DEFINE S == {n \in w..len : Shows(g[n], o, time)}
  <1>7. w \in S
    <2>1. w \in w..len
      BY <1>3
    <2>2. Matches(log[w], o) /\ log[w].kind \in TerminalKinds
      BY <1>2 DEF Ends
    <2>3. g[w] = Retold(g[w - 1], log[w]) /\ g[w - 1] \in Timeline
      BY <1>6, <2>1, <2>2 DEF Matches
    <2>4. log[w] \in Mirrored /\ log[w].tick = time
      BY <1>5, <2>1
    <2>5. /\ g[w].terminal = log[w].status
          /\ (log[w].pr # "" => g[w].pr = log[w].pr)
          /\ g[w].ticks = g[w - 1].ticks \cup ({log[w].tick} \ {0})
      <3>1. PICK x \in Timeline, e \in Mirrored : x = g[w - 1] /\ e = log[w]
        BY <2>3, <2>4
      <3>2. /\ Retold(x, e).terminal = IF e.kind \in TerminalKinds THEN e.status ELSE x.terminal
            /\ Retold(x, e).pr = IF e.kind = "pr.opened" \/ e.pr # "" THEN e.pr ELSE x.pr
            /\ Retold(x, e).ticks = x.ticks \cup ({e.tick} \ {0})
        BY RetoldIs
      <3>3. QED  BY <2>2, <2>3, <3>1, <3>2
    <2>6. Shows(g[w], o, time)
      BY <2>2, <2>4, <2>5 DEF Shows, Matches
    <2>7. QED  BY <2>1, <2>6
  <1>8. ASSUME NEW n \in w..len, n # len, n \in S PROVE n + 1 \in S
    <2>1. PICK i \in w..len : i = n + 1 /\ i - 1 = n
      BY <1>3, <1>8
    <2>2. Shows(g[n], o, time)
      BY <1>8
    <2>3. CASE log[i].issue # o.issue
      <3>1. g[i] = g[n]
        BY <1>6, <2>1, <2>3
      <3>2. QED  BY <2>1, <2>2, <3>1
    <2>4. CASE log[i].issue = o.issue
      <3>1. log[i] \in Mirrored /\ log[i].tick = time /\ Matches(log[i], o)
        BY <1>5, <2>4
      <3>2. g[i] = Retold(g[n], log[i]) /\ g[n] \in Timeline
        BY <1>6, <2>1, <2>4
      <3>3. /\ g[i].terminal = IF log[i].kind \in TerminalKinds THEN log[i].status ELSE g[n].terminal
            /\ g[i].pr = IF log[i].kind = "pr.opened" \/ log[i].pr # "" THEN log[i].pr ELSE g[n].pr
            /\ g[i].ticks = g[n].ticks \cup ({log[i].tick} \ {0})
        <4>1. PICK x \in Timeline, e \in Mirrored : x = g[n] /\ e = log[i]
          BY <3>1, <3>2
        <4>2. /\ Retold(x, e).terminal = IF e.kind \in TerminalKinds THEN e.status ELSE x.terminal
              /\ Retold(x, e).pr = IF e.kind = "pr.opened" \/ e.pr # "" THEN e.pr ELSE x.pr
              /\ Retold(x, e).ticks = x.ticks \cup ({e.tick} \ {0})
          BY RetoldIs
        <4>3. QED  BY <3>2, <4>1, <4>2
      <3>4. Shows(g[i], o, time)
        BY <2>2, <3>1, <3>3 DEF Shows, Matches
      <3>5. QED  BY <2>1, <3>4
    <2>5. QED  BY <2>3, <2>4
  <1> HIDE DEF S
  <1>9. \A n \in w..len : n \in S
    <2>1. w \in Nat /\ len \in Nat
      BY <1>3
    <2>2. QED  BY <1>7, <1>8, <2>1, Upward
  <1>10. Shows(g[len], o, time)
    BY <1>3, <1>9 DEF S
  <1>11. QED  BY <1>1, <1>10 DEF ToldBy, o, len

(* What TimelineAfterTick says holds of such a state. *)
LEMMA TimelineHolds == ASSUME MirrorHeld PROVE TimelineAfterTick
  <1>1. SUFFICES ASSUME starts = 1, \A t \in Threads : pending[t] = <<>>, NEW k \in DOMAIN settled,
                        settled[k].status \in WorkerStatus
                 PROVE  Shows(replay_task_timeline(durable, settled[k].issue), settled[k], tick)
    BY DEF TimelineAfterTick, Shows
  <1>2. MirrorForm /\ SettledSound
    BY DEF MirrorHeld
  <1>3. settled # <<>>
    OBVIOUS
  <1>4. tick # 0 /\ OutcomesOf(settled) /\ tick \in Nat /\ durable \in Seq(Mirrored)
    BY <1>1, <1>2, <1>3, MirrorBounds DEF SettledSound, MirrorForm
  <1>5. PICK m \in 0..Len(durable) : SettledFrom(m)
    BY <1>1, <1>2, <1>3 DEF SettledSound
  <1>6. pending["tick"] = <<>>
    BY <1>1 DEF Threads
  <1>7. \A n \in DOMAIN durable : n > m => durable[n] \in Tells(tick, settled)
    BY <1>5 DEF SettledFrom
  <1>8. \E n \in DOMAIN durable : n > m /\ Ends(durable[n], settled[k])
    BY <1>1, <1>5, <1>6 DEF SettledFrom
  <1>9. QED  BY <1>4, <1>7, <1>8, TimelineEnds

-----------------------------------------------------------------------------
(* The scorecard. *)

LEMMA ReplayAgainIs == ASSUME MirrorHeld PROVE ReplayIsIdempotent
  <1>1. SUFFICES ASSUME board.cursor = Len(durable) PROVE Replay(board, 0) = board
    BY DEF ReplayIsIdempotent
  <1>2. durable \in Seq(Mirrored) /\ board \in Boards /\ Len(durable) \in Nat /\ 0 \in 0..Len(durable)
    BY DEF MirrorHeld, MirrorForm
  <1>3. PICK g \in [0..Len(durable) -> Boards] :
              /\ g[0] = board /\ Replay(board, 0) = g[Len(durable)]
              /\ \A n \in 0..Len(durable) : n # 0 => g[n] = apply(g[n - 1], n)
    BY <1>2, ReplayIs
  <1> DEFINE len == Len(durable)
             S == {n \in 0..len : g[n] = board}
  <1>4. 0 \in S
    BY <1>2, <1>3
  <1>5. ASSUME NEW n \in 0..len, n # len, n \in S PROVE n + 1 \in S
    <2>1. PICK i \in 1..len : i = n + 1 /\ i - 1 = n /\ i <= len /\ i # 0 /\ i \in 0..len
      BY <1>2, <1>5
    <2>2. g[i] = apply(board, i)
      BY <1>3, <1>5, <2>1
    <2>3. apply(board, i) = board
      BY <1>1, <1>2, <2>1, ApplyIs
    <2>4. QED  BY <2>1, <2>2, <2>3
  <1> HIDE DEF S
  <1>6. \A n \in 0..len : n \in S
    BY <1>2, <1>4, <1>5, Upward
  <1>7. len \in S
    BY <1>2, <1>6
  <1>8. QED  BY <1>3, <1>7 DEF S

(* Once a completion is folded, the score of its task has it. *)
LEMMA CompletionHolds == ASSUME MirrorHeld PROVE CompletionOutranks
  <1>1. durable \in Seq(Mirrored) /\ Len(durable) \in Nat /\ 0 \in 0..Len(durable) /\ 0 \in Nat
    BY DEF MirrorHeld, MirrorForm
  <1>2. Blank(0) \in Boards /\ Blank(0).cursor = 0
    BY BlankIs
  <1>3. PICK g \in [0..Len(durable) -> Boards] :
              /\ g[0] = Blank(0) /\ Replay(Blank(0), 0) = g[Len(durable)]
              /\ \A n \in 0..Len(durable) : n # 0 => g[n] = apply(g[n - 1], n)
    BY <1>1, <1>2, ReplayIs
  <1> DEFINE len == Len(durable)
             Counted(n) == \A j \in 1..n : Completes(durable[j]) => Finished(g[n].tasks[durable[j].issue])
             S == {n \in 0..len : g[n].cursor = n /\ Counted(n)}
  <1>4. 0 \in S
    BY <1>1, <1>2, <1>3
  <1>5. \A j \in 1..len : Completes(durable[j]) => durable[j].issue \in Issues
    <2>1. ASSUME NEW j \in 1..len, Completes(durable[j]) PROVE durable[j].issue \in Issues
      <3>1. durable[j] \in Mirrored
        BY <1>1, ElementOfSeq
      <3>2. durable[j].issue \in Issues \cup {0}
        BY <3>1, MirroredFields
      <3>3. QED  BY <2>1, <3>2 DEF Completes
    <2>2. QED  BY <2>1
  <1>6. ASSUME NEW n \in 0..len, n # len, n \in S PROVE n + 1 \in S
    <2>1. PICK i \in 1..len : i = n + 1 /\ i - 1 = n /\ i > n /\ i # 0 /\ i \in 0..len
                              /\ \A j \in 1..i : j \in 1..n \/ j = i
      BY <1>1, <1>6
    <2>2. g[i] = apply(g[n], i) /\ g[n] \in Boards /\ g[n].cursor = n /\ Counted(n)
      BY <1>3, <1>6, <2>1
    <2>3. /\ g[i].cursor = i
          /\ \A x \in Issues : Finished(g[n].tasks[x]) => Finished(g[i].tasks[x])
          /\ Completes(durable[i]) => Finished(g[i].tasks[durable[i].issue])
      BY <1>1, <2>1, <2>2, ApplyIs
    <2>4. \A j \in 1..n : j \in 1..len
      BY <1>1, <1>6
    <2>5. Counted(i)
      BY <1>5, <2>1, <2>2, <2>3, <2>4
    <2>6. QED  BY <2>1, <2>3, <2>5
  <1> HIDE DEF S
  <1>7. \A n \in 0..len : n \in S
    BY <1>1, <1>4, <1>6, Upward
  <1>8. len \in S
    BY <1>1, <1>7
  <1>9. Counted(len)
    BY <1>8 DEF S
  <1>10. DOMAIN durable = 1..len
    BY <1>1
  <1>11. QED  BY <1>3, <1>9, <1>10 DEF CompletionOutranks, Completes, Finished

(* Every step. *)
LEMMA MirrorNextHolds == ASSUME MirrorHeld, [MirrorNext]_mirrorVars PROVE MirrorHeld'
  <1>1. CASE TickStart
    BY <1>1, TickStartHolds
  <1>2. CASE TickDone
    BY <1>2, TickDoneHolds
  <1>3. CASE Tell
    BY <1>3, TellHolds
  <1>4. ASSUME NEW t \in Threads, Append_(t) PROVE MirrorHeld'
    BY <1>4, AppendKeepsForm, AppendKeepsFirstLife, AppendKeepsSettled DEF MirrorHeld
  <1>5. ASSUME NEW t \in Threads, MirrorFails(t) PROVE MirrorHeld'
    BY <1>5, MirrorFailsHolds
  <1>6. CASE _drive_projections_to_tail
    BY <1>6, DriveHolds
  <1>7. CASE Dies
    BY <1>7, DeathHolds
  <1>8. CASE UNCHANGED mirrorVars
    BY <1>8, MirrorStutters
  <1>9. QED  BY <1>1, <1>2, <1>3, <1>4, <1>5, <1>6, <1>7, <1>8 DEF MirrorNext

(* Whatever the runner writes and however often it dies, for any number of    *)
(* ticks, records, deaths and failures of the log: an event is in the log     *)
(* once, after the tick_done of a first life each timeline ends as its        *)
(* outcome says, a replay over a scorecard changes nothing of it, and a       *)
(* completion outranks what follows it (eventlog/legacy_mirror.py,            *)
(* eventlog/scorecard.py).                                                    *)
THEOREM MirrorHolds == MirrorSpec => []MirrorInv
  <1>1. MirrorHeld => MirrorInv
    <2>1. MirrorHeld => MirrorTypeOK
      BY DEF MirrorHeld, MirrorForm, OncePerKey, MirrorTypeOK
    <2>2. QED  BY <2>1, TimelineHolds, ReplayAgainIs, CompletionHolds DEF MirrorInv
  <1>2. MirrorHeld /\ [MirrorNext]_mirrorVars => MirrorHeld'
    BY MirrorNextHolds
  <1>3. QED  BY <1>1, <1>2, MirrorInitHolds, PTL DEF MirrorSpec
=============================================================================
