---------------------------- MODULE ArtifactStore ----------------------------
(***************************************************************************)
(* The learned-schema artifact and everybody who touches it:               *)
(*   harness/discover.py main       builds an artifact and saves it        *)
(*   harness/review.py set_review   loads it, records a decision, saves it *)
(*   harness/glossary.py learned_terms   serves its active claims from a   *)
(*                                  cache keyed by path and mtime          *)
(* through harness/memory.py load and save.  They are separate processes   *)
(* (threads, for learned_terms) and nothing is locked.                     *)
(*                                                                         *)
(* Data: a claim is its name, the machine's verdict and the human's; its   *)
(* id is its position in the artifact (Artifact.next_id).  The database is *)
(* the version number its fingerprint stands for.                          *)
(***************************************************************************)
EXTENDS Naturals, Sequences

CONSTANTS Discoverable,  \* the claim lists a discovery can end with
          Decisions,     \* the decisions reviewers take
          Reviewers,     \* review processes
          Threads,       \* threads of the serving process
          MaxSaves,      \* bound: saves begun
          MaxDb,         \* bound: versions of the database
          CanRediscover, \* BOOLEAN: does discovery run beside the reviewers?
          CanBreak,      \* BOOLEAN: may a writer die half way through the text?
          SameTick       \* BOOLEAN: may two writes fall into one tick of the file system's clock?

ASSUME StoreAssumption ==
  /\ Decisions \subseteq {"pending", "approved", "rejected", "edited"}
  /\ MaxSaves \in Nat /\ MaxDb \in Nat
  /\ CanRediscover \in BOOLEAN /\ CanBreak \in BOOLEAN /\ SameTick \in BOOLEAN

(* A discovery keeps no key twice and leaves every review pending. *)
ASSUME AuditsAssumption ==
  /\ Discoverable # {}
  /\ \A claims \in Discoverable :
       /\ claims \in Seq([name : STRING, status : {"verified", "rejected"}, decision : {"pending"}])
       /\ \A i, j \in DOMAIN claims : claims[i].name = claims[j].name => i = j

VARIABLES db,        \* version of the live database
          file,      \* the artifact on disk: kind, claims, database version
          mtime,     \* what learned_terms keys it by: 1 for no file, then 2, 3...
          saves,     \* saves begun
          discovery, \* the discovery process
          review,    \* reviewer -> its review process
          cache,     \* _LEARNED_CACHE: a key (0: none), a set of at most one term set
          serve,     \* thread -> a call of learned_terms
          recorded,  \* history: <<name, decision>> taken for the claim itself
          settled,   \* history: name -> the last decision set_review returned from
          overlapped \* history: did two writers overlap, or one die?

history == <<recorded, settled, overlapped>>
storeVars == <<db, file, mtime, saves, discovery, review, history>>
serveVars == <<cache, serve>>
vars == <<storeVars, serveVars>>

-----------------------------------------------------------------------------
(* memory.py *)

Range(s) == {s[i] : i \in DOMAIN s}
Artifact(kind, claims, version) == [kind |-> kind, claims |-> claims, db |-> version]
NoArtifact == Artifact("missing", <<>>, 0)

(* Claim.is_active: the human's verdict first, then the machine's. *)
IsActive(c) ==
  \/ c.decision \in {"approved", "edited"}
  \/ c.decision # "rejected" /\ c.status = "verified"

Active(art) == {c.name : c \in {x \in Range(art.claims) : IsActive(x)}}

(* load: no file and an empty file are an empty artifact; a broken one
   raises, which CanLoad says it does not. *)
CanLoad == file.kind # "broken"

Touch == mtime' \in {mtime + 1} \cup (IF SameTick /\ file.kind # "missing" THEN {mtime} ELSE {})

(* save is write_text: the file is truncated, then written. *)
Truncate ==
  /\ file' = Artifact("empty", <<>>, 0)
  /\ Touch
  /\ saves' = saves + 1

Write(art) ==
  /\ file' = Artifact("whole", art.claims, art.db)
  /\ Touch

ClaimNames == UNION {{c.name : c \in Range(claims)} : claims \in Discoverable}

(* Is anybody between loading the file and having saved it? *)
Writing == discovery.pc # "idle" \/ \E p \in Reviewers : review[p].pc \in {"decided", "truncated"}

Idle == [pc |-> "idle"]
NotServing == [pc |-> "idle", key |-> 0, read |-> {}, stale |-> FALSE,
               window |-> {}, result |-> {}]
NoCache == [key |-> 0, terms |-> {}]

Init ==
  /\ db = 1
  /\ \/ file = NoArtifact /\ mtime = 1
     \/ /\ \E claims \in Discoverable : file = Artifact("whole", claims, 1)
        /\ mtime = 2
  /\ saves = 0
  /\ discovery = Idle
  /\ review = [p \in Reviewers |-> Idle]
  /\ cache = NoCache
  /\ serve = [t \in Threads |-> NotServing]
  /\ recorded = {} /\ settled = [name \in ClaimNames |-> "pending"] /\ overlapped = FALSE

(* What a call of learned_terms under way may honestly return: what was
   active at some moment since it began. *)
Witness(art) ==
  serve' = [t \in Threads |->
              IF serve[t].pc = "idle" THEN serve[t]
              ELSE [serve[t] EXCEPT !.window = @ \cup {Active(art)}]]

(* The database is seeded again. *)
Reseed ==
  /\ db < MaxDb
  /\ db' = db + 1
  /\ UNCHANGED <<file, mtime, saves, discovery, review, history, serveVars>>

-----------------------------------------------------------------------------
(* discover.py: a fresh artifact, bound to the database it starts from, with
   every review pending, replaces whatever the file holds. *)

Discover ==
  /\ CanRediscover
  /\ discovery.pc = "idle" /\ saves < MaxSaves
  /\ \E claims \in Discoverable :
       discovery' = [pc |-> "built", art |-> Artifact("whole", claims, db)]
  /\ UNCHANGED <<db, file, mtime, saves, review, recorded, settled, serveVars>>
  /\ overlapped' = TRUE

SaveDiscovery ==
  /\ discovery.pc = "built" /\ saves < MaxSaves
  /\ Truncate
  /\ Witness(file')
  /\ discovery' = [discovery EXCEPT !.pc = "truncated"]
  /\ UNCHANGED <<db, review, history, cache>>

FinishDiscovery ==
  /\ discovery.pc = "truncated"
  /\ Write(discovery.art)
  /\ Witness(file')
  /\ discovery' = Idle
  /\ UNCHANGED <<db, saves, review, history, cache>>

-----------------------------------------------------------------------------
(* review.py: a person lists the claims, decides about one, and names it to
   set_review by its id. *)

Look(p) ==
  /\ review[p].pc = "idle" /\ CanLoad
  /\ \E id \in DOMAIN file.claims, d \in Decisions :
       review' = [review EXCEPT ![p] =
         [pc |-> "looked", id |-> id, decision |-> d, name |-> file.claims[id].name]]
  /\ UNCHANGED <<db, file, mtime, saves, discovery, history, serveVars>>

(* Faulty: the decision overwrites the verdict of the machine. *)
DecideStatus(p) ==
  /\ review[p].pc = "looked" /\ CanLoad
  /\ review[p].id \in DOMAIN file.claims
  /\ saves < MaxSaves
  /\ review' = [review EXCEPT ![p] =
       [pc |-> "decided", name |-> @.name, decision |-> @.decision,
        art |-> [file EXCEPT !.claims[review[p].id].status = review[p].decision]]]
  /\ overlapped' = (overlapped \/ Writing)
  /\ UNCHANGED <<db, file, mtime, saves, discovery, recorded, settled, serveVars>>

(* Faulty: the decision lands on the first claim, whatever the id. *)
DecideFirst(p) ==
  /\ review[p].pc = "looked" /\ CanLoad
  /\ review[p].id \in DOMAIN file.claims
  /\ saves < MaxSaves
  /\ review' = [review EXCEPT ![p] =
       [pc |-> "decided", name |-> @.name, decision |-> @.decision,
        art |-> [file EXCEPT !.claims[1].decision = review[p].decision]]]
  /\ overlapped' = (overlapped \/ Writing)
  /\ UNCHANGED <<db, file, mtime, saves, discovery, recorded, settled, serveVars>>

(* load, by_id, and the claim's review fields. *)
Decide(p) ==
  /\ review[p].pc = "looked" /\ CanLoad
  /\ review[p].id \in DOMAIN file.claims
  /\ saves < MaxSaves
  /\ review' = [review EXCEPT ![p] =
       [pc |-> "decided", name |-> @.name, decision |-> @.decision,
        art |-> [file EXCEPT !.claims[review[p].id].decision = review[p].decision]]]
  /\ overlapped' = (overlapped \/ Writing)
  /\ UNCHANGED <<db, file, mtime, saves, discovery, recorded, settled, serveVars>>

(* ValueError: there is no such claim; or load itself raises. *)
DecideFails(p) ==
  /\ review[p].pc = "looked"
  /\ ~CanLoad \/ review[p].id \notin DOMAIN file.claims
  /\ review' = [review EXCEPT ![p] = Idle]
  /\ UNCHANGED <<db, file, mtime, saves, discovery, history, serveVars>>

SaveReview(p) ==
  /\ review[p].pc = "decided" /\ saves < MaxSaves
  /\ Truncate
  /\ Witness(file')
  /\ review' = [review EXCEPT ![p].pc = "truncated"]
  /\ UNCHANGED <<db, discovery, history, cache>>

FinishReview(p) ==
  /\ review[p].pc = "truncated"
  /\ Write(review[p].art)
  /\ Witness(file')
  /\ recorded' = recorded \cup {<<review[p].name, review[p].decision>>}
  /\ review' = [review EXCEPT ![p] = Idle]
  /\ settled' = [settled EXCEPT ![review[p].name] = review[p].decision]
  /\ UNCHANGED <<db, saves, discovery, cache, overlapped>>

(* A claim cut off in the text: the review is written last and the verdict
   just before it, and what is missing or cut reads as its default. *)
Cut(c) == {[c EXCEPT !.status = s, !.decision = "pending"] : s \in {c.status, "unverified"}}

(* A writer dies between truncating and writing: nothing is on disk, or half
   the text, which reads as a shorter artifact or not at all. *)
Half(art) ==
  {Artifact("whole", SubSeq(art.claims, 1, n), art.db) : n \in 0..Len(art.claims)}
    \cup (UNION {{Artifact("whole", Append(SubSeq(art.claims, 1, n - 1), c), art.db) :
                     c \in Cut(art.claims[n])} : n \in DOMAIN art.claims})
    \cup {Artifact("broken", <<>>, 0)}

Leaves(art) ==
  /\ \/ UNCHANGED <<file, mtime>>
     \/ CanBreak /\ file' \in Half(art) /\ Touch
  /\ Witness(file')

DiscoveryDies ==
  /\ discovery.pc = "truncated"
  /\ Leaves(discovery.art)
  /\ discovery' = Idle
  /\ UNCHANGED <<db, saves, review, history, cache>>

ReviewDies(p) ==
  /\ review[p].pc = "truncated"
  /\ Leaves(review[p].art)
  /\ recorded' = recorded \cup {<<review[p].name, review[p].decision>>}
  /\ review' = [review EXCEPT ![p] = Idle]
  /\ overlapped' = TRUE
  /\ UNCHANGED <<db, saves, discovery, cache, settled>>

-----------------------------------------------------------------------------
(* glossary.py: learned_terms in a serving thread. *)

(* stat: the key of the file as it is now. *)
Stat(t) ==
  /\ serve[t].pc = "idle"
  /\ serve' = [serve EXCEPT ![t] = [NotServing EXCEPT !.pc = "compare", !.key = mtime,
                                                  !.window = {Active(file)}]]
  /\ UNCHANGED <<cache, storeVars>>

(* The key is stored before the artifact is loaded. *)
Miss(t) ==
  /\ serve[t].pc = "compare" /\ cache.key # serve[t].key
  /\ cache' = [cache EXCEPT !.key = serve[t].key]
  /\ serve' = [serve EXCEPT ![t].pc = "load"]
  /\ UNCHANGED storeVars

(* Faulty: the mtime is not part of the key. *)
HitByPath(t) ==
  /\ serve[t].pc = "compare" /\ cache.key # 0
  /\ serve' = [serve EXCEPT ![t].pc = "return"]
  /\ UNCHANGED <<cache, storeVars>>

Hit(t) ==
  /\ serve[t].pc = "compare" /\ cache.key = serve[t].key
  /\ serve' = [serve EXCEPT ![t].pc = "return"]
  /\ UNCHANGED <<cache, storeVars>>

Load(t) ==
  /\ serve[t].pc = "load" /\ CanLoad   \* the claims' database is not compared
  /\ serve' = [serve EXCEPT ![t].pc = "store", ![t].read = Active(file),
                           ![t].stale = (file.claims # <<>> /\ file.db # db)]
  /\ UNCHANGED <<cache, storeVars>>

LoadRaises(t) ==
  /\ serve[t].pc = "load" /\ ~CanLoad
  /\ serve' = [serve EXCEPT ![t].pc = "raised"]
  /\ UNCHANGED <<cache, storeVars>>

(* Faulty: the key is taken again after the artifact was read. *)
StoreRestat(t) ==
  /\ serve[t].pc = "store"
  /\ cache' = [key |-> mtime, terms |-> {serve[t].read}]
  /\ serve' = [serve EXCEPT ![t].pc = "return"]
  /\ UNCHANGED storeVars

Store(t) ==
  /\ serve[t].pc = "store"
  /\ cache' = [cache EXCEPT !.terms = {serve[t].read}]
  /\ serve' = [serve EXCEPT ![t].pc = "return"]
  /\ UNCHANGED storeVars

Return(t) ==
  /\ serve[t].pc = "return" /\ cache.terms # {}
  /\ serve' = [serve EXCEPT ![t].pc = "returned", ![t].result = CHOOSE terms \in cache.terms : TRUE]
  /\ UNCHANGED <<cache, storeVars>>

(* The key was stored by a call that has loaded nothing: KeyError. *)
ReturnRaises(t) ==
  /\ serve[t].pc = "return" /\ cache.terms = {}
  /\ serve' = [serve EXCEPT ![t].pc = "raised"]
  /\ UNCHANGED <<cache, storeVars>>

(* The caller has what it asked for and may call again. *)
Done(t) ==
  /\ serve[t].pc \in {"returned", "raised"}
  /\ serve' = [serve EXCEPT ![t] = NotServing]
  /\ UNCHANGED <<cache, storeVars>>

-----------------------------------------------------------------------------
Reviewing(p) ==
  \/ Look(p) \/ Decide(p) \/ DecideFails(p)
  \/ SaveReview(p) \/ FinishReview(p) \/ ReviewDies(p)
Discovering == Discover \/ SaveDiscovery \/ FinishDiscovery \/ DiscoveryDies
Serving(t) ==
  \/ Stat(t) \/ Miss(t) \/ Hit(t) \/ Load(t) \/ LoadRaises(t)
  \/ Store(t) \/ Return(t) \/ ReturnRaises(t) \/ Done(t)

Next ==
  \/ Reseed \/ Discovering
  \/ \E p \in Reviewers : Reviewing(p)
  \/ \E t \in Threads : Serving(t)

Spec == Init /\ [][Next]_vars

-----------------------------------------------------------------------------
(* Properties. *)

Claim == [name : STRING, status : {"verified", "rejected", "unverified"},
          decision : {"pending"} \cup Decisions]

TypeOK ==
  /\ db \in 1..MaxDb \cup {1} /\ mtime \in Nat /\ saves \in 0..MaxSaves
  /\ file.kind \in {"missing", "empty", "broken", "whole"}
  /\ file.claims \in Seq(Claim)
  /\ discovery.pc \in {"idle", "built", "truncated"}
  /\ \A p \in Reviewers : review[p].pc \in {"idle", "looked", "decided", "truncated"}
  /\ \A t \in Threads : serve[t].pc \in {"idle", "compare", "load", "store",
                                         "return", "returned", "raised"}

(* The cache is sound: between calls, terms held under the key of the file on
   disk are that file's active claims, so a veto or an approval is never
   hidden by a hit, however saves, deaths and loads interleave. *)
CacheSound ==
  /\ \A t \in Threads : serve[t].pc = "idle"
  /\ cache.key = mtime /\ CanLoad
  => cache.terms = {Active(file)}

(* "Active claims from the artifact": a call returns what was active at some
   moment since it began, never what an earlier artifact held. *)
ServedWasActive ==
  \A t \in Threads : serve[t].pc = "returned" => serve[t].result \in serve[t].window

(* The call returns: it never raises into execute_sql, which "never raises". *)
NeverRaises == \A t \in Threads : serve[t].pc # "raised"

(* A call always returns, and never with a claim that was vetoed or replaced
   before it began. *)
CallsAreServed == ServedWasActive /\ NeverRaises

(* Claims of an artifact built on another database are not served silently:
   no call goes on with them. *)
ServedMatchesDb == \A t \in Threads : ~serve[t].stale

(* A decision stays with the thing it was taken about: whoever decided had
   the claim now carrying the decision in front of them. *)
DecisionFollowsClaim ==
  \A i \in DOMAIN file.claims : LET c == file.claims[i] IN
    c.decision # "pending" => <<c.name, c.decision>> \in recorded

(* The file carries what set_review said it recorded, for every claim and
   after any number of reviews, as long as no two writers overlap and none
   dies: a review that was looked up before another was saved included. *)
Settled ==
  file.kind = "whole" /\ ~Writing =>
    \A c \in Range(file.claims) : c.decision = settled[c.name]

DecisionsStay == DecisionFollowsClaim /\ (~overlapped => Settled)

(* "Shaped to be called by an HTTP handler as easily as by this CLI": the same
   of reviews that overlap. *)
OverlappingDecisionsStay == Settled

(* Reviewers write nothing but decisions: with no discovery running, whatever
   two of them do to one file, in whatever order, and wherever one dies, every
   claim on disk is one the discovery wrote, in its place and on its database,
   with the verdict its proof earned it or, cut off, with none: never better. *)
ReviewKeepsProofs ==
  \E art \in {Artifact("whole", claims, 1) : claims \in Discoverable} :
    \A i \in DOMAIN file.claims :
      /\ i \in DOMAIN art.claims /\ file.db = art.db
      /\ file.claims[i].name = art.claims[i].name
      /\ file.claims[i].status \in {art.claims[i].status, "unverified"}
=============================================================================
