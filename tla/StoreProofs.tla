----------------------------- MODULE StoreProofs -----------------------------
(* Proofs about ArtifactStore, for any discoveries, decisions and reviewers and
   any number of saves, when one thread serves and no two writes share a tick. *)
EXTENDS ArtifactStore, TLAPS

Call == {"pc", "key", "read", "stale", "window", "result"}

ServeTypes ==
  /\ mtime \in Nat \ {0}
  /\ DOMAIN cache = {"key", "terms"} /\ cache.key \in Nat
  /\ DOMAIN serve = Threads
  /\ \A t \in Threads : DOMAIN serve[t] = Call /\ serve[t].key \in Nat

(* What is kept under the key of the file on disk is what the file holds. *)
Matches == cache.key = mtime /\ CanLoad => cache.terms = {Active(file)}

(* No key is of a file to come.  A call that has stored its key has not stored
   its terms; those it has read are the file's as long as its key is; at any
   other time the cache matches. *)
CacheInv ==
  /\ cache.key <= mtime
  /\ \A t \in Threads :
       /\ serve[t].key <= mtime
       /\ serve[t].pc \in {"load", "store"} => cache.key = serve[t].key
       /\ serve[t].pc = "store" /\ serve[t].key = mtime => serve[t].read = Active(file)
       /\ serve[t].pc \notin {"load", "store"} => Matches

StoreInv == ServeTypes /\ CacheInv

(* A write gives the file a new mtime, or nothing was written; either way a
   call learns of the file only that another artifact was active. *)
FileStep ==
  /\ UNCHANGED cache
  /\ \/ UNCHANGED <<file, mtime>>
     \/ mtime' = mtime + 1
  /\ UNCHANGED <<file, serve>> \/ Witness(file')

LEMMA FileStepKeepsCache == StoreInv /\ FileStep => StoreInv'
<1> SUFFICES ASSUME StoreInv, FileStep PROVE StoreInv'
  OBVIOUS
<1>1. /\ DOMAIN serve' = Threads
      /\ \A t \in Threads : /\ DOMAIN serve'[t] = Call
                            /\ serve'[t].pc = serve[t].pc /\ serve'[t].key = serve[t].key
                            /\ serve'[t].read = serve[t].read
  BY DEF FileStep, Witness, StoreInv, ServeTypes, Call
<1>2. ServeTypes'
  BY <1>1 DEF FileStep, StoreInv, ServeTypes
<1>3. CacheInv'
  <2>1. CASE UNCHANGED <<file, mtime>>
    BY <1>1, <2>1 DEF FileStep, StoreInv, CacheInv, Matches, CanLoad
  <2>2. CASE mtime' = mtime + 1
    BY <1>1, <2>2 DEF FileStep, StoreInv, ServeTypes, CacheInv, Matches
  <2>3. QED
    BY <2>1, <2>2 DEF FileStep
<1>4. QED
  BY <1>2, <1>3 DEF StoreInv

(* Whatever is not a call of learned_terms is a step of the file. *)
LEMMA OthersAreFileSteps ==
  ASSUME ~SameTick
  PROVE  Reseed \/ Discovering \/ (\E p \in Reviewers : Reviewing(p)) => FileStep
<1>1. Touch => mtime' = mtime + 1
  BY DEF Touch
<1>2. Reseed => FileStep
  BY DEF Reseed, FileStep, serveVars
<1>3. Discovering => FileStep
  BY <1>1 DEF Discovering, Discover, SaveDiscovery, FinishDiscovery, DiscoveryDies, Leaves, Truncate,
              Write, FileStep, serveVars
<1>4. ASSUME NEW p \in Reviewers, Reviewing(p) PROVE FileStep
  BY <1>1, <1>4 DEF Reviewing, Look, Decide, DecideFails, SaveReview, FinishReview, ReviewDies, Leaves,
                    Truncate, Write, FileStep, serveVars
<1>5. QED
  BY <1>2, <1>3, <1>4

LEMMA InitCache == Init => StoreInv
<1> SUFFICES ASSUME Init PROVE StoreInv
  OBVIOUS
<1>1. mtime \in {1, 2} /\ cache = NoCache /\ serve = [t \in Threads |-> NotServing]
  BY DEF Init
<1>2. ServeTypes
  BY <1>1 DEF ServeTypes, NoCache, NotServing, Call
<1>3. CacheInv
  BY <1>1 DEF CacheInv, Matches, NoCache, NotServing
<1>4. QED
  BY <1>2, <1>3 DEF StoreInv

LEMMA StepCache ==
  ASSUME NEW t, Threads = {t}, ~SameTick
  PROVE  StoreInv /\ [Next]_vars => StoreInv'
<1> SUFFICES ASSUME StoreInv, [Next]_vars PROVE StoreInv'
  OBVIOUS
<1>1. CASE UNCHANGED vars
  BY <1>1, FileStepKeepsCache DEF vars, storeVars, serveVars, FileStep
<1>2. CASE Reseed \/ Discovering \/ \E p \in Reviewers : Reviewing(p)
  BY <1>2, OthersAreFileSteps, FileStepKeepsCache
<1>3. CASE Serving(t)
  <2> USE DEF storeVars, StoreInv, ServeTypes, CacheInv, Matches, CanLoad, Call
  <2>1. CASE Stat(t)
    BY <2>1 DEF Stat, NotServing
  <2>2. CASE Miss(t)
    BY <2>2 DEF Miss
  <2>3. CASE Hit(t)
    BY <2>3 DEF Hit
  <2>4. CASE Load(t)
    BY <2>4 DEF Load
  <2>5. CASE LoadRaises(t)
    BY <2>5 DEF LoadRaises
  <2>6. CASE Store(t)
    BY <2>6 DEF Store
  <2>7. CASE Return(t) \/ ReturnRaises(t)
    BY <2>7 DEF Return, ReturnRaises
  <2>8. CASE Done(t)
    BY <2>8 DEF Done, NotServing
  <2>9. QED
    BY <1>3, <2>1, <2>2, <2>3, <2>4, <2>5, <2>6, <2>7, <2>8 DEF Serving
<1>4. QED
  BY <1>1, <1>2, <1>3 DEF Next

(* With one serving thread and a clock that moves between writes, a veto or an
   approval is never hidden by a hit, however writers interleave, die or break
   the file. *)
THEOREM CacheIsSound ==
  ASSUME NEW t, Threads = {t}, ~SameTick
  PROVE  Spec => []CacheSound
<1>1. Init => StoreInv
  BY InitCache
<1>2. StoreInv /\ [Next]_vars => StoreInv'
  BY StepCache
<1>3. StoreInv => CacheSound
  BY DEF StoreInv, CacheInv, Matches, CacheSound
<1>4. QED
  BY <1>1, <1>2, <1>3, PTL DEF Spec

-----------------------------------------------------------------------------
(* The file of writers that never die within the text always loads. *)
Loads == file.kind \in {"missing", "empty", "whole"}

(* What a call will return was active while it ran. *)
WindowInv ==
  \A t \in Threads :
    /\ serve[t].pc \notin {"idle", "returned"} => Active(file) \in serve[t].window
    /\ serve[t].pc = "compare" /\ cache.key = serve[t].key
         => \E terms \in serve[t].window : cache.terms = {terms}
    /\ serve[t].pc = "store" => serve[t].read \in serve[t].window
    /\ serve[t].pc = "return" => \E terms \in serve[t].window : cache.terms = {terms}
    /\ serve[t].pc = "returned" => serve[t].result \in serve[t].window
    /\ serve[t].pc # "raised"

ServedInv == StoreInv /\ Loads /\ WindowInv

LEMMA FilesLoad ==
  ASSUME ~CanBreak
  PROVE  Loads /\ [Next]_vars => Loads'
<1> SUFFICES ASSUME Loads, [Next]_vars PROVE Loads'
  OBVIOUS
<1>1. UNCHANGED file => Loads'
  BY DEF Loads
<1>2. ASSUME NEW art, Write(art) PROVE Loads'
  BY <1>2 DEF Write, Artifact, Loads
<1>3. Truncate => Loads'
  BY DEF Truncate, Artifact, Loads
<1>4. ASSUME NEW art, Leaves(art) PROVE Loads'
  BY <1>1, <1>4 DEF Leaves
<1>5. CASE UNCHANGED vars \/ Reseed
  BY <1>1, <1>5 DEF vars, storeVars, Reseed
<1>6. CASE Discovering
  BY <1>1, <1>2, <1>3, <1>4, <1>6
     DEF Discovering, Discover, SaveDiscovery, FinishDiscovery, DiscoveryDies
<1>7. ASSUME NEW p \in Reviewers, Reviewing(p) PROVE Loads'
  BY <1>1, <1>2, <1>3, <1>4, <1>7
     DEF Reviewing, Look, Decide, DecideFails, SaveReview, FinishReview, ReviewDies
<1>8. ASSUME NEW t \in Threads, Serving(t) PROVE Loads'
  BY <1>1, <1>8 DEF Serving, Stat, Miss, Hit, Load, LoadRaises, Store, Return, ReturnRaises, Done, storeVars
<1>9. QED
  BY <1>5, <1>6, <1>7, <1>8 DEF Next

(* A step of the file shows itself to every call under way. *)
LEMMA FileStepShows == ServedInv /\ FileStep => WindowInv'
<1> SUFFICES ASSUME ServedInv, FileStep, NEW t \in Threads
             PROVE  /\ serve'[t].pc = serve[t].pc /\ serve'[t].key = serve[t].key
                    /\ serve'[t].read = serve[t].read /\ serve'[t].result = serve[t].result
                    /\ serve[t].window \subseteq serve'[t].window
                    /\ serve[t].pc # "idle" => file' = file \/ Active(file') \in serve'[t].window
  BY DEF FileStep, ServedInv, WindowInv
<1>1. CASE UNCHANGED <<file, serve>>
  BY <1>1
<1>2. CASE Witness(file')
  BY <1>2 DEF Witness, ServedInv, StoreInv, ServeTypes, Call
<1>3. QED
  BY <1>1, <1>2 DEF FileStep

LEMMA StepServed ==
  ASSUME NEW t, Threads = {t}, ~SameTick, ~CanBreak
  PROVE  ServedInv /\ [Next]_vars => ServedInv'
<1> SUFFICES ASSUME ServedInv, [Next]_vars PROVE ServedInv'
  OBVIOUS
<1>1. StoreInv' /\ Loads'
  BY StepCache, FilesLoad DEF ServedInv
<1>2. CASE FileStep
  BY <1>1, <1>2, FileStepShows DEF ServedInv
<1>3. CASE UNCHANGED vars
  BY <1>2, <1>3 DEF vars, storeVars, serveVars, FileStep
<1>4. CASE Serving(t)
  <2>1. WindowInv'
    <3> USE DEF storeVars, ServedInv, StoreInv, ServeTypes, Call, WindowInv
    <3>1. CASE Stat(t)
      BY <3>1 DEF Stat, NotServing, CacheInv, Matches, CanLoad, Loads
    <3>2. CASE Miss(t)
      BY <3>2 DEF Miss
    <3>3. CASE Hit(t)
      BY <3>3 DEF Hit
    <3>4. CASE Load(t)
      BY <3>4 DEF Load
    <3>5. CASE LoadRaises(t)
      BY <3>5 DEF LoadRaises, CanLoad, Loads
    <3>6. CASE Store(t)
      BY <3>6 DEF Store
    <3>7. CASE Return(t)
      BY <3>7 DEF Return
    <3>8. CASE ReturnRaises(t)
      BY <3>8 DEF ReturnRaises
    <3>9. CASE Done(t)
      BY <3>9 DEF Done, NotServing
    <3>10. QED
      BY <1>4, <3>1, <3>2, <3>3, <3>4, <3>5, <3>6, <3>7, <3>8, <3>9 DEF Serving
  <2>2. QED
    BY <1>1, <2>1 DEF ServedInv
<1>5. QED
  BY <1>2, <1>3, <1>4, OthersAreFileSteps DEF Next

(* With one serving thread, a clock that moves between writes and writers that
   never die within the text, learned_terms always returns, and what it returns
   was active while it ran: also when the file is empty or missing. *)
THEOREM CallsServed ==
  ASSUME NEW t, Threads = {t}, ~SameTick, ~CanBreak
  PROVE  Spec => []CallsAreServed
<1>1. Init => ServedInv
  <2> SUFFICES ASSUME Init PROVE ServedInv
    OBVIOUS
  <2>1. Loads
    BY DEF Init, Loads, NoArtifact, Artifact
  <2>2. WindowInv
    BY DEF Init, WindowInv, NotServing
  <2>3. QED
    BY <2>1, <2>2, InitCache DEF ServedInv
<1>2. ServedInv /\ [Next]_vars => ServedInv'
  BY StepServed
<1>3. ServedInv => CallsAreServed
  BY DEF ServedInv, WindowInv, CallsAreServed, ServedWasActive, NeverRaises
<1>4. QED
  BY <1>1, <1>2, <1>3, PTL DEF Spec

-----------------------------------------------------------------------------
(* Reviews.  What is on disk and what reviewers hold comes of one audit. *)

(* What a writer left of an audit's claims: no more of them, in their places,
   no verdict better than its proof earned. *)
FromAudit(claims, audit) ==
  /\ claims \in Seq(Claim) /\ Len(claims) <= Len(audit)
  /\ \A i \in 1..Len(claims) : /\ claims[i].name = audit[i].name
                               /\ claims[i].status \in {audit[i].status, "unverified"}

Edited(audit) == {art \in [kind : {"whole"}, claims : Seq(Claim), db : {1}] : FromAudit(art.claims, audit)}

Looking(audit) == [pc : {"looked"}, id : 1..Len(audit), decision : Decisions, name : STRING]
Deciding(audit) == [pc : {"decided", "truncated"}, name : ClaimNames, decision : Decisions,
                    art : Edited(audit)]

FileFrom(audit) ==
  /\ file \in [kind : {"missing", "empty", "broken", "whole"}, claims : Seq(Claim), db : {0, 1}]
  /\ FromAudit(file.claims, audit)
  /\ file.claims # <<>> => file.kind = "whole" /\ file.db = 1

ReviewerFrom(p, audit) ==
  \/ review[p] = Idle
  \/ review[p] \in Looking(audit) /\ review[p].name = audit[review[p].id].name
  \/ review[p] \in Deciding(audit)

OneAudit(audit) ==
  /\ discovery = Idle
  /\ FileFrom(audit)
  /\ DOMAIN review = Reviewers
  /\ \A p \in Reviewers : ReviewerFrom(p, audit)

Decider(p) == review[p].pc \in {"decided", "truncated"}

(* Whoever decided had the claim in front of them. *)
Follows(claims, own) ==
  \A i \in 1..Len(claims) :
    claims[i].decision # "pending" => <<claims[i].name, claims[i].decision>> \in recorded \cup own

FollowInv ==
  /\ Follows(file.claims, {})
  /\ \A p \in Reviewers : Decider(p) => Follows(review[p].art.claims, {<<review[p].name, review[p].decision>>})

(* While no two writers overlap there is one decision under way at most, on top
   of what was settled. *)
SettledInv ==
  /\ \A p, q \in Reviewers : Decider(p) /\ Decider(q) => p = q
  /\ DOMAIN settled = ClaimNames
  /\ file.kind = "whole" =>
       \A i \in 1..Len(file.claims) : file.claims[i].decision = settled[file.claims[i].name]
  /\ \A p \in Reviewers : Decider(p) =>
       \A i \in 1..Len(review[p].art.claims) :
         LET c == review[p].art.claims[i]
         IN  c.decision = IF c.name = review[p].name THEN review[p].decision ELSE settled[c.name]

(* A discovery that runs beside the reviewers overlaps with them. *)
ReviewInv ==
  ~CanRediscover \/ ~overlapped =>
    \E audit \in Discoverable : OneAudit(audit) /\ FollowInv /\ (~overlapped => SettledInv)
LEMMA AuditIsFromItself ==
  ASSUME NEW audit \in Discoverable
  PROVE  /\ audit \in Seq(Claim) /\ Len(audit) \in Nat /\ DOMAIN audit = 1..Len(audit)
         /\ \A i \in 1..Len(audit) : audit[i].decision = "pending" /\ audit[i].name \in ClaimNames
         /\ \A i, j \in 1..Len(audit) : audit[i].name = audit[j].name => i = j
         /\ FromAudit(audit, audit) /\ FromAudit(<<>>, audit)
<1> DEFINE Fresh == [name : STRING, status : {"verified", "rejected"}, decision : {"pending"}]
<1>1. audit \in Seq(Fresh) /\ \A i, j \in DOMAIN audit : audit[i].name = audit[j].name => i = j
  BY AuditsAssumption
<1>2. Len(audit) \in Nat /\ DOMAIN audit = 1..Len(audit) /\ \A i \in 1..Len(audit) : audit[i] \in Fresh
  <2> HIDE DEF Fresh
  <2> QED BY <1>1
<1>3. \A c \in Fresh : c \in Claim /\ c.decision = "pending"
  BY DEF Claim
<1>4. audit \in Seq(Claim)
  <2>1. \A i \in 1..Len(audit) : audit[i] \in Claim
    BY <1>2, <1>3
  <2>2. QED
    BY <1>1, <2>1
<1>5. \A i \in 1..Len(audit) : audit[i].name \in ClaimNames
  BY <1>2 DEF ClaimNames, Range
<1>6. FromAudit(audit, audit) /\ FromAudit(<<>>, audit)
  BY <1>2, <1>4 DEF FromAudit
<1>7. QED
  BY <1>1, <1>2, <1>3, <1>4, <1>5, <1>6

(* A decision changes nothing that an audit wrote. *)
LEMMA EditIsFromAudit ==
  ASSUME NEW audit \in Discoverable, FileFrom(audit),
         NEW id \in DOMAIN file.claims, NEW d \in Decisions,
         NEW art, art = [file EXCEPT !.claims[id].decision = d]
  PROVE  /\ art \in Edited(audit) /\ Len(art.claims) = Len(file.claims)
         /\ \A i \in 1..Len(file.claims) :
              /\ art.claims[i].name = file.claims[i].name
              /\ art.claims[i].decision = IF i = id THEN d ELSE file.claims[i].decision
<1> DEFINE old == file.claims
           new == [old EXCEPT ![id] = [old[id] EXCEPT !.decision = d]]
<1>1. /\ old \in Seq(Claim) /\ Len(old) \in Nat /\ DOMAIN old = 1..Len(old) /\ old # <<>>
      /\ \A i \in 1..Len(old) : old[i] \in Claim
  BY DEF FileFrom
<1>2. art = [file EXCEPT !.claims = new] /\ art.claims = new /\ art.kind = "whole" /\ art.db = 1
  BY <1>1 DEF FileFrom
<1>3. [old[id] EXCEPT !.decision = d] \in Claim
  BY <1>1 DEF Claim
<1>4. /\ new \in Seq(Claim) /\ Len(new) = Len(old)
      /\ \A i \in 1..Len(old) : new[i] = IF i = id THEN [old[id] EXCEPT !.decision = d] ELSE old[i]
  BY <1>1, <1>3
<1>5. \A i \in 1..Len(old) : /\ new[i].name = old[i].name /\ new[i].status = old[i].status
                            /\ new[i].decision = IF i = id THEN d ELSE old[i].decision
  BY <1>1, <1>4 DEF Claim
<1>6. FromAudit(new, audit)
  BY <1>4, <1>5 DEF FileFrom, FromAudit
<1>7. art \in [kind : {"whole"}, claims : Seq(Claim), db : {1}]
  <2> HIDE DEF new
  <2> QED BY <1>2, <1>4 DEF FileFrom
<1>8. QED
  BY <1>2, <1>4, <1>5, <1>6, <1>7 DEF Edited

(* What a text cut off keeps of the claims it was to hold. *)
Kept(claims, all) ==
  /\ claims \in Seq(Claim) /\ Len(claims) <= Len(all)
  /\ \A i \in 1..Len(claims) : /\ claims[i].name = all[i].name
                               /\ claims[i].status \in {all[i].status, "unverified"}
                               /\ claims[i].decision \in {all[i].decision, "pending"}

LEMMA KeptInPlace ==
  ASSUME NEW all \in Seq(Claim), NEW some, Kept(some, all)
  PROVE  \A i \in 1..Len(some) : /\ i \in 1..Len(all) /\ some[i].name = all[i].name
                                /\ some[i].decision \in {all[i].decision, "pending"}
<1>1. Len(some) \in Nat /\ Len(all) \in Nat
  BY DEF Kept
<1>2. QED
  BY <1>1 DEF Kept

LEMMA CutIsKept ==
  ASSUME NEW all \in Seq(Claim)
  PROVE  /\ Kept(<<>>, all)
         /\ \A n \in 0..Len(all) : Kept(SubSeq(all, 1, n), all)
         /\ \A n \in DOMAIN all : \A c \in Cut(all[n]) : Kept(Append(SubSeq(all, 1, n - 1), c), all)
<1>1. Len(all) \in Nat /\ DOMAIN all = 1..Len(all) /\ \A i \in 1..Len(all) : all[i] \in Claim
  OBVIOUS
<1>2. ASSUME NEW n \in 0..Len(all)
      PROVE  /\ SubSeq(all, 1, n) \in Seq(Claim) /\ Len(SubSeq(all, 1, n)) = n
             /\ \A i \in 1..n : SubSeq(all, 1, n)[i] = all[i]
  BY <1>1
<1>3. ASSUME NEW n \in 0..Len(all) PROVE Kept(SubSeq(all, 1, n), all)
  BY <1>1, <1>2 DEF Kept
<1>4. ASSUME NEW n \in DOMAIN all, NEW c \in Cut(all[n])
      PROVE  Kept(Append(SubSeq(all, 1, n - 1), c), all)
  <2>1. n - 1 \in 0..Len(all) /\ n \in 1..Len(all) /\ all[n] \in Claim
    BY <1>1
  <2>2. c \in Claim /\ c.name = all[n].name /\ c.status \in {all[n].status, "unverified"} /\ c.decision = "pending"
    BY <2>1 DEF Cut, Claim
  <2> DEFINE front == SubSeq(all, 1, n - 1)
             both == Append(front, c)
  <2>3. front \in Seq(Claim) /\ Len(front) = n - 1 /\ \A i \in 1..(n - 1) : front[i] = all[i]
    BY <1>2, <2>1
  <2>4. both \in Seq(Claim) /\ Len(both) = n /\ \A i \in 1..n : both[i] = IF i = n THEN c ELSE all[i]
    <3> HIDE DEF front
    <3> QED BY <2>1, <2>2, <2>3
  <2> HIDE DEF both
  <2>5. Kept(both, all)
    BY <1>1, <2>1, <2>2, <2>4 DEF Kept
  <2>6. QED
    BY <2>5 DEF both
<1>5. QED
  <2>1. Kept(<<>>, all)
    BY <1>1 DEF Kept
  <2>2. QED
    BY <1>3, <1>4, <2>1

(* What is left of a text cut off anywhere is of the same audit, and what is
   decided in it was decided in the whole. *)
LEMMA HalfIsFromAudit ==
  ASSUME NEW audit \in Discoverable, NEW art \in Edited(audit), NEW half \in Half(art)
  PROVE  /\ half \in [kind : {"broken", "whole"}, claims : Seq(Claim), db : {0, 1}]
         /\ half.claims # <<>> => half.kind = "whole" /\ half.db = 1
         /\ Kept(half.claims, art.claims) /\ FromAudit(half.claims, audit)
<1> DEFINE all == art.claims
<1>1. all \in Seq(Claim) /\ art.db = 1 /\ FromAudit(all, audit) /\ Len(all) \in Nat
  BY DEF Edited
<1>2. ASSUME NEW claims, Kept(claims, all)
      PROVE  claims \in Seq(Claim) /\ FromAudit(claims, audit)
  <2>1. Len(claims) \in Nat
    BY <1>2 DEF Kept
  <2>2. QED
    BY <1>1, <1>2, <2>1 DEF Kept, FromAudit
<1>3. CASE half = Artifact("broken", <<>>, 0)
  BY <1>1, <1>2, <1>3, CutIsKept DEF Artifact
<1>4. ASSUME NEW claims, Kept(claims, all), half = Artifact("whole", claims, art.db)
      PROVE  /\ half \in [kind : {"broken", "whole"}, claims : Seq(Claim), db : {0, 1}]
             /\ half.kind = "whole" /\ half.db = 1 /\ half.claims = claims
  BY <1>1, <1>2, <1>4 DEF Artifact
<1>5. CASE \E n \in 0..Len(all) : half = Artifact("whole", SubSeq(all, 1, n), art.db)
  BY <1>1, <1>2, <1>4, <1>5, CutIsKept
<1>6. CASE \E n \in DOMAIN all : \E c \in Cut(all[n]) :
             half = Artifact("whole", Append(SubSeq(all, 1, n - 1), c), art.db)
  BY <1>1, <1>2, <1>4, <1>6, CutIsKept
<1>7. QED
  BY <1>3, <1>5, <1>6 DEF Half

(* What of an audit one step needs to keep for the next. *)
Reviewed(audit) == OneAudit(audit) /\ FollowInv /\ (~overlapped => SettledInv)

(* A step that leaves the file and moves a reviewer who has not decided to where
   they have not decided either. *)
LEMMA BystanderKeeps ==
  ASSUME NEW audit \in Discoverable, Reviewed(audit), NEW p \in Reviewers, NEW next,
         review' = [review EXCEPT ![p] = next], next.pc \in {"idle", "looked"},
         next = Idle \/ (next \in Looking(audit) /\ next.name = audit[next.id].name),
         UNCHANGED <<file, discovery, history>>
  PROVE  Reviewed(audit)'
<1>1. DOMAIN review' = Reviewers /\ review'[p] = next /\ \A q \in Reviewers \ {p} : review'[q] = review[q]
  BY DEF Reviewed, OneAudit
<1>2. ~Decider(p)' /\ \A q \in Reviewers \ {p} : Decider(q)' <=> Decider(q)
  BY <1>1 DEF Decider
<1>3. OneAudit(audit)'
  BY <1>1 DEF Reviewed, OneAudit, FileFrom, ReviewerFrom
<1>4. FollowInv'
  BY <1>1, <1>2 DEF Reviewed, FollowInv, Follows, history
<1>5. ~overlapped' => SettledInv'
  BY <1>1, <1>2 DEF Reviewed, SettledInv, history
<1>6. QED
  BY <1>3, <1>4, <1>5 DEF Reviewed

LEMMA LookKeeps ==
  ASSUME NEW audit \in Discoverable, Reviewed(audit), NEW p \in Reviewers, Look(p)
  PROVE  Reviewed(audit)'
<1>1. PICK id \in DOMAIN file.claims, d \in Decisions :
        review' = [review EXCEPT ![p] =
                     [pc |-> "looked", id |-> id, decision |-> d, name |-> file.claims[id].name]]
  BY DEF Look
<1>2. /\ id \in 1..Len(file.claims) /\ Len(file.claims) \in Nat /\ Len(file.claims) <= Len(audit)
      /\ file.claims[id] \in Claim /\ file.claims[id].name = audit[id].name
  BY DEF Reviewed, OneAudit, FileFrom, FromAudit
<1>3. id \in 1..Len(audit) /\ file.claims[id].name \in STRING
  BY <1>2, AuditIsFromItself DEF Claim
<1> DEFINE next == [pc |-> "looked", id |-> id, decision |-> d, name |-> file.claims[id].name]
<1>4. next \in Looking(audit) /\ next.name = audit[next.id].name /\ next.pc = "looked"
  BY <1>2, <1>3 DEF Looking
<1>5. UNCHANGED <<file, discovery, history>>
  BY DEF Look
<1> HIDE DEF next
<1>6. review' = [review EXCEPT ![p] = next]
  BY <1>1 DEF next
<1>7. QED
  BY <1>4, <1>5, <1>6, BystanderKeeps

LEMMA DecideFailsKeeps ==
  ASSUME NEW audit \in Discoverable, Reviewed(audit), NEW p \in Reviewers, DecideFails(p)
  PROVE  Reviewed(audit)'
<1>1. /\ review' = [review EXCEPT ![p] = Idle] /\ Idle.pc = "idle"
      /\ UNCHANGED <<file, discovery, history>>
  BY DEF DecideFails, Idle
<1>2. QED
  BY <1>1, BystanderKeeps

(* The decision lands on the claim that was looked at, and on no other: the
   names of an audit are distinct. *)
LEMMA DecideKeeps ==
  ASSUME NEW audit \in Discoverable, Reviewed(audit), NEW p \in Reviewers, Decide(p)
  PROVE  Reviewed(audit)'
<1> DEFINE id == review[p].id
           d == review[p].decision
           art == [file EXCEPT !.claims[id].decision = d]
           next == [pc |-> "decided", name |-> review[p].name, decision |-> d, art |-> art]
<1>1. /\ review' = [review EXCEPT ![p] = next] /\ id \in DOMAIN file.claims
      /\ overlapped' = (overlapped \/ Writing)
      /\ UNCHANGED <<file, discovery, recorded, settled>>
  BY DEF Decide
<1>2. FileFrom(audit) /\ DOMAIN review = Reviewers
  BY DEF Reviewed, OneAudit
<1>3. id \in 1..Len(audit) /\ d \in Decisions /\ review[p].name = audit[id].name
  BY DEF Reviewed, OneAudit, ReviewerFrom, Looking, Deciding, Idle, Decide
<1>4. /\ art \in Edited(audit) /\ Len(art.claims) = Len(file.claims)
      /\ \A i \in 1..Len(file.claims) :
           /\ art.claims[i].name = file.claims[i].name
           /\ art.claims[i].decision = IF i = id THEN d ELSE file.claims[i].decision
  BY <1>1, <1>2, <1>3, EditIsFromAudit
<1> HIDE DEF art, id, d
<1>5. /\ DOMAIN review' = Reviewers /\ review'[p] = next
      /\ \A q \in Reviewers \ {p} : review'[q] = review[q]
  BY <1>1, <1>2
<1>6. Len(file.claims) \in Nat /\ \A i \in 1..Len(file.claims) : file.claims[i].name = audit[i].name /\ i \in 1..Len(audit)
  BY <1>2, AuditIsFromItself DEF FileFrom, FromAudit
<1>7. next \in Deciding(audit) /\ next.pc = "decided" /\ next.name = audit[id].name /\ next.decision = d /\ next.art = art
  BY <1>3, <1>4, AuditIsFromItself DEF Deciding
<1> HIDE DEF next
<1>8. OneAudit(audit)'
  BY <1>1, <1>5, <1>7 DEF Reviewed, OneAudit, FileFrom, ReviewerFrom
<1>9. FollowInv'
  <2>1. ASSUME NEW i \in 1..Len(art.claims), art.claims[i].decision # "pending"
        PROVE  <<art.claims[i].name, art.claims[i].decision>> \in recorded \cup {<<next.name, d>>}
    <3>1. CASE i = id
      BY <1>4, <1>6, <1>7, <2>1, <3>1
    <3>2. CASE i # id
      BY <1>4, <2>1, <3>2 DEF Reviewed, FollowInv, Follows
    <3>3. QED
      BY <3>1, <3>2
  <2>2. Follows(review[p].art.claims, {<<review[p].name, review[p].decision>>})'
    BY <1>1, <1>5, <1>7, <2>1 DEF Follows
  <2>3. \A q \in Reviewers \ {p} : Decider(q)' => Follows(review[q].art.claims, {<<review[q].name, review[q].decision>>})'
    BY <1>1, <1>5 DEF Reviewed, FollowInv, Follows, Decider
  <2>4. QED
    BY <1>1, <2>2, <2>3 DEF Reviewed, FollowInv, Follows
<1>10. ASSUME ~overlapped' PROVE SettledInv'
  <2>1. SettledInv /\ \A q \in Reviewers : ~Decider(q)
    BY <1>1, <1>10 DEF Reviewed, Writing, Decider
  <2>2. \A q \in Reviewers : Decider(q)' => q = p
    BY <1>5, <2>1 DEF Decider
  <2>3. file.kind = "whole"
    BY <1>1, <1>2 DEF FileFrom
  <2>4. ASSUME NEW i \in 1..Len(art.claims)
        PROVE  art.claims[i].decision = IF art.claims[i].name = next.name THEN d ELSE settled[art.claims[i].name]
    <3>1. i \in 1..Len(file.claims) /\ art.claims[i].name = audit[i].name /\ (audit[i].name = audit[id].name => i = id)
      BY <1>3, <1>4, <1>6, AuditIsFromItself
    <3>2. QED
      BY <1>4, <1>7, <2>1, <2>3, <3>1 DEF SettledInv
  <2>5. QED
    BY <1>1, <1>5, <1>7, <2>1, <2>2, <2>4 DEF SettledInv
<1>11. QED
  BY <1>8, <1>9, <1>10 DEF Reviewed

LEMMA SaveReviewKeeps ==
  ASSUME NEW audit \in Discoverable, Reviewed(audit), NEW p \in Reviewers, SaveReview(p)
  PROVE  Reviewed(audit)'
<1> DEFINE next == [review[p] EXCEPT !.pc = "truncated"]
<1>1. /\ review' = [review EXCEPT ![p] = next] /\ file' = Artifact("empty", <<>>, 0)
      /\ UNCHANGED <<discovery, history>>
  BY DEF SaveReview, Truncate
<1>2. review[p] \in Deciding(audit) /\ DOMAIN review = Reviewers /\ Decider(p)
  BY DEF Reviewed, OneAudit, ReviewerFrom, SaveReview, Looking, Idle, Decider
<1>3. /\ next \in Deciding(audit) /\ next.pc = "truncated" /\ next.art = review[p].art
      /\ next.name = review[p].name /\ next.decision = review[p].decision
  BY <1>2 DEF Deciding
<1> HIDE DEF next
<1>4. DOMAIN review' = Reviewers /\ review'[p] = next /\ \A q \in Reviewers \ {p} : review'[q] = review[q]
  BY <1>1, <1>2
<1>5. /\ \A q \in Reviewers : Decider(q)' <=> Decider(q)
      /\ \A q \in Reviewers : Decider(q) => /\ review'[q].art = review[q].art /\ review'[q].name = review[q].name
                                            /\ review'[q].decision = review[q].decision
  BY <1>2, <1>3, <1>4 DEF Decider
<1>6. FileFrom(audit)' /\ file'.kind = "empty" /\ file'.claims = <<>>
  BY <1>1, AuditIsFromItself DEF Artifact, FileFrom
<1>7. OneAudit(audit)'
  BY <1>1, <1>3, <1>4, <1>6 DEF Reviewed, OneAudit, ReviewerFrom
<1>8. FollowInv'
  BY <1>1, <1>5, <1>6 DEF Reviewed, FollowInv, Follows, history
<1>9. ~overlapped' => SettledInv'
  BY <1>1, <1>5, <1>6 DEF Reviewed, SettledInv, history
<1>10. QED
  BY <1>7, <1>8, <1>9 DEF Reviewed

(* A writer that ends or dies leaves the file it had built, whole or in part,
   and with it the decision it is remembered for. *)
LEMMA WrittenFollows ==
  ASSUME NEW audit \in Discoverable, Reviewed(audit), NEW p \in Reviewers, Decider(p),
         recorded' = recorded \cup {<<review[p].name, review[p].decision>>},
         review' = [review EXCEPT ![p] = Idle], UNCHANGED discovery,
         FileFrom(audit)', file' = file \/ Kept(file'.claims, review[p].art.claims)
  PROVE  OneAudit(audit)' /\ FollowInv' /\ \A q \in Reviewers : Decider(q)' => q # p /\ Decider(q)
<1>1. DOMAIN review' = Reviewers /\ review'[p] = Idle /\ \A q \in Reviewers \ {p} : review'[q] = review[q]
  BY DEF Reviewed, OneAudit
<1>2. \A q \in Reviewers : Decider(q)' => q # p /\ Decider(q)
  BY <1>1 DEF Decider, Idle
<1>3. OneAudit(audit)'
  BY <1>1 DEF Reviewed, OneAudit, ReviewerFrom
<1>4. Follows(file.claims, {})'
  <2>1. CASE file' = file
    BY <2>1 DEF Reviewed, FollowInv, Follows
  <2>2. CASE Kept(file'.claims, review[p].art.claims)
    <3> DEFINE all == review[p].art.claims
               some == file'.claims
    <3>1. all \in Seq(Claim)
      <4>1. review[p] \in Deciding(audit)
        BY DEF Reviewed, OneAudit, ReviewerFrom, Looking, Idle, Decider
      <4>2. review[p].art \in Edited(audit)
        BY <4>1 DEF Deciding
      <4>3. QED
        BY <4>2 DEF Edited
    <3>2. \A i \in 1..Len(all) : all[i].decision # "pending" => <<all[i].name, all[i].decision>> \in recorded'
      BY DEF Reviewed, FollowInv, Follows
    <3>3. Kept(some, all)
      BY <2>2
    <3> HIDE DEF all, some
    <3>4. \A i \in 1..Len(some) : some[i].decision # "pending" => <<some[i].name, some[i].decision>> \in recorded'
      <4>1. \A i \in 1..Len(some) : /\ i \in 1..Len(all) /\ some[i].name = all[i].name
                                    /\ some[i].decision \in {all[i].decision, "pending"}
        BY <3>1, <3>3, KeptInPlace
      <4>2. QED
        BY <3>2, <4>1
    <3>5. QED
      BY <3>4 DEF Follows, some
  <2>3. QED
    BY <2>1, <2>2
<1>5. FollowInv'
  BY <1>1, <1>2, <1>4 DEF Reviewed, FollowInv, Follows
<1>6. QED
  BY <1>2, <1>3, <1>5

LEMMA FinishReviewKeeps ==
  ASSUME NEW audit \in Discoverable, Reviewed(audit), NEW p \in Reviewers, FinishReview(p)
  PROVE  Reviewed(audit)'
<1> DEFINE art == review[p].art
<1>1. /\ review[p] \in Deciding(audit) /\ Decider(p)
      /\ file' = Artifact("whole", art.claims, art.db)
      /\ recorded' = recorded \cup {<<review[p].name, review[p].decision>>}
      /\ review' = [review EXCEPT ![p] = Idle]
      /\ settled' = [settled EXCEPT ![review[p].name] = review[p].decision]
      /\ UNCHANGED <<discovery, overlapped>>
  BY DEF FinishReview, Write, Reviewed, OneAudit, ReviewerFrom, Looking, Idle, Decider
<1>2. art \in Edited(audit) /\ art.claims \in Seq(Claim) /\ art.db = 1 /\ FromAudit(art.claims, audit)
  BY <1>1 DEF Deciding, Edited
<1>3. FileFrom(audit)' /\ file'.claims = art.claims /\ file'.kind = "whole"
  BY <1>1, <1>2 DEF FileFrom, Artifact
<1>4. Kept(art.claims, art.claims)
  BY <1>2 DEF Kept
<1>5. OneAudit(audit)' /\ FollowInv' /\ \A q \in Reviewers : Decider(q)' => q # p /\ Decider(q)
  BY <1>1, <1>3, <1>4, WrittenFollows
<1>6. ASSUME ~overlapped' PROVE SettledInv'
  <2>1. SettledInv
    BY <1>1, <1>6 DEF Reviewed
  <2>2. \A q \in Reviewers : ~Decider(q)'
    BY <1>1, <1>5, <2>1 DEF SettledInv
  <2>3. DOMAIN settled' = ClaimNames
    BY <1>1, <2>1 DEF SettledInv
  <2>4. ASSUME NEW i \in 1..Len(art.claims)
        PROVE  art.claims[i].decision = settled'[art.claims[i].name]
    <3>1. art.claims[i].name \in ClaimNames
      BY <1>2, AuditIsFromItself DEF FromAudit
    <3>2. art.claims[i].decision = IF art.claims[i].name = review[p].name THEN review[p].decision
                                                                         ELSE settled[art.claims[i].name]
      BY <1>1, <2>1 DEF SettledInv
    <3>3. QED
      BY <1>1, <2>1, <3>1, <3>2 DEF SettledInv
  <2>5. QED
    BY <1>3, <2>2, <2>3, <2>4 DEF SettledInv
<1>7. QED
  BY <1>5, <1>6 DEF Reviewed

LEMMA ReviewDiesKeeps ==
  ASSUME NEW audit \in Discoverable, Reviewed(audit), NEW p \in Reviewers, ReviewDies(p)
  PROVE  Reviewed(audit)'
<1>1. /\ review[p] \in Deciding(audit) /\ Decider(p)
      /\ file' = file \/ file' \in Half(review[p].art)
      /\ recorded' = recorded \cup {<<review[p].name, review[p].decision>>}
      /\ review' = [review EXCEPT ![p] = Idle]
      /\ overlapped' = TRUE /\ UNCHANGED discovery
  BY DEF ReviewDies, Leaves, Reviewed, OneAudit, ReviewerFrom, Looking, Idle, Decider
<1>2. review[p].art \in Edited(audit)
  BY <1>1 DEF Deciding
<1>3. FileFrom(audit)' /\ (file' = file \/ Kept(file'.claims, review[p].art.claims))
  <2>1. CASE file' = file
    BY <2>1 DEF FileFrom, Reviewed, OneAudit
  <2>2. CASE file' \in Half(review[p].art)
    BY <1>2, <2>2, HalfIsFromAudit DEF FileFrom
  <2>3. QED
    BY <1>1, <2>1, <2>2
<1>4. QED
  BY <1>1, <1>3, WrittenFollows DEF Reviewed

LEMMA InitReviews == Init => ReviewInv
<1> SUFFICES ASSUME Init PROVE \E audit \in Discoverable : Reviewed(audit)
  BY DEF ReviewInv, Reviewed
<1>1. PICK audit \in Discoverable : file = NoArtifact \/ file = Artifact("whole", audit, 1)
  BY AuditsAssumption DEF Init
<1>2. FileFrom(audit) /\ (file.claims = <<>> \/ file.claims = audit)
  <2>1. audit \in Seq(Claim) /\ <<>> \in Seq(Claim) /\ FromAudit(audit, audit) /\ FromAudit(<<>>, audit)
    BY AuditIsFromItself
  <2>2. CASE file = NoArtifact
    BY <2>1, <2>2 DEF FileFrom, NoArtifact, Artifact
  <2>3. CASE file = Artifact("whole", audit, 1)
    BY <2>1, <2>3 DEF FileFrom, Artifact
  <2>4. QED
    BY <1>1, <2>2, <2>3
<1>3. DOMAIN review = Reviewers /\ \A p \in Reviewers : review[p] = Idle /\ ~Decider(p)
  BY DEF Init, Idle, Decider
<1>4. OneAudit(audit)
  BY <1>2, <1>3 DEF Init, OneAudit, ReviewerFrom
<1>5. \A i \in 1..Len(file.claims) : file.claims[i].decision = "pending" /\ file.claims[i].name \in ClaimNames
  BY <1>2, AuditIsFromItself
<1>6. FollowInv
  BY <1>3, <1>5 DEF FollowInv, Follows
<1>7. SettledInv
  BY <1>3, <1>5 DEF Init, SettledInv
<1>8. QED
  BY <1>4, <1>6, <1>7 DEF Reviewed

LEMMA StepReviews == ReviewInv /\ [Next]_vars => ReviewInv'
<1> SUFFICES ASSUME ReviewInv, [Next]_vars PROVE ReviewInv'
  OBVIOUS
<1>1. overlapped => overlapped'
  <2>1. CASE UNCHANGED vars \/ Reseed \/ \E t \in Threads : Serving(t)
    BY <2>1 DEF vars, storeVars, history, Reseed, Serving, Stat, Miss, Hit, Load, LoadRaises, Store, Return,
                ReturnRaises, Done
  <2>2. CASE Discovering
    BY <2>2 DEF Discovering, Discover, SaveDiscovery, FinishDiscovery, DiscoveryDies, history
  <2>3. ASSUME NEW p \in Reviewers, Reviewing(p) PROVE overlapped => overlapped'
    BY <2>3 DEF Reviewing, Look, Decide, DecideFails, SaveReview, FinishReview, ReviewDies, history
  <2>4. QED
    BY <2>1, <2>2, <2>3 DEF Next
<1>2. CASE CanRediscover /\ overlapped
  BY <1>1, <1>2 DEF ReviewInv
<1>3. CASE ~(CanRediscover /\ overlapped)
  <2>1. PICK audit \in Discoverable : Reviewed(audit)
    BY <1>3 DEF ReviewInv, Reviewed
  <2>2. CASE UNCHANGED vars \/ Reseed \/ \E t \in Threads : Serving(t)
    <3>1. UNCHANGED <<file, review, discovery, history>>
      BY <2>2 DEF vars, storeVars, Reseed, Serving, Stat, Miss, Hit, Load, LoadRaises, Store, Return,
                  ReturnRaises, Done
    <3>2. Reviewed(audit)'
      BY <2>1, <3>1 DEF Reviewed, OneAudit, FileFrom, ReviewerFrom, FollowInv, Follows, SettledInv, Decider, history
    <3>3. QED
      BY <3>2 DEF ReviewInv, Reviewed
  <2>3. CASE Discovering
    <3>1. CASE Discover
      BY <3>1 DEF Discover, ReviewInv
    <3>2. discovery.pc = "idle"
      BY <2>1 DEF Reviewed, OneAudit, Idle
    <3>3. QED
      BY <2>3, <3>1, <3>2 DEF Discovering, SaveDiscovery, FinishDiscovery, DiscoveryDies
  <2>4. ASSUME NEW p \in Reviewers, Reviewing(p) PROVE ReviewInv'
    <3>1. Reviewed(audit)'
      BY <2>1, <2>4, LookKeeps, DecideKeeps, DecideFailsKeeps, SaveReviewKeeps, FinishReviewKeeps, ReviewDiesKeeps
         DEF Reviewing
    <3>2. QED
      BY <3>1 DEF ReviewInv, Reviewed
  <2>5. QED
    BY <2>2, <2>3, <2>4 DEF Next
<1>4. QED
  BY <1>2, <1>3

LEMMA ReviewsStay == Spec => []ReviewInv
BY InitReviews, StepReviews, PTL DEF Spec

(* With no discovery beside them, however many reviewers write over one
   another and wherever one dies, every claim on disk is one the audit wrote,
   in its place, with the verdict its proof earned it or with none. *)
THEOREM ProofsKept ==
  ASSUME ~CanRediscover
  PROVE  Spec => []ReviewKeepsProofs
<1>1. ReviewInv => ReviewKeepsProofs
  <2> SUFFICES ASSUME NEW audit \in Discoverable, FileFrom(audit) PROVE ReviewKeepsProofs
    BY DEF ReviewInv, OneAudit
  <2>1. /\ DOMAIN file.claims = 1..Len(file.claims) /\ Len(file.claims) \in Nat /\ Len(audit) \in Nat
        /\ DOMAIN audit = 1..Len(audit) /\ Len(file.claims) <= Len(audit)
        /\ file.claims # <<>> => file.db = 1
    BY AuditIsFromItself DEF FileFrom, FromAudit
  <2>2. \A i \in DOMAIN file.claims : /\ i \in DOMAIN audit /\ file.db = 1
                                      /\ file.claims[i].name = audit[i].name
                                      /\ file.claims[i].status \in {audit[i].status, "unverified"}
    BY <2>1 DEF FileFrom, FromAudit
  <2>3. /\ Artifact("whole", audit, 1) \in {Artifact("whole", claims, 1) : claims \in Discoverable}
        /\ Artifact("whole", audit, 1).claims = audit /\ Artifact("whole", audit, 1).db = 1
    BY DEF Artifact
  <2>4. QED
    BY <2>2, <2>3 DEF ReviewKeepsProofs
<1>2. QED
  BY <1>1, ReviewsStay, PTL

(* With no discovery beside them, every decision on disk was taken by someone
   who had that claim in front of them, for any interleaving of reviews and any
   death; and while no two writers overlapped and none died, the file carries
   the last decision set_review returned from, claim by claim. *)
THEOREM DecisionsKept ==
  ASSUME ~CanRediscover
  PROVE  Spec => []DecisionsStay
<1>1. ReviewInv => DecisionsStay
  <2> SUFFICES ASSUME NEW audit \in Discoverable, Reviewed(audit) PROVE DecisionsStay
    BY DEF ReviewInv, Reviewed
  <2>1. DOMAIN file.claims = 1..Len(file.claims)
    BY DEF Reviewed, OneAudit, FileFrom
  <2>2. DecisionFollowsClaim
    BY <2>1 DEF Reviewed, FollowInv, Follows, DecisionFollowsClaim
  <2>3. ~overlapped => Settled
    BY <2>1 DEF Reviewed, SettledInv, Settled, Range
  <2>4. QED
    BY <2>2, <2>3 DEF DecisionsStay
<1>2. QED
  BY <1>1, ReviewsStay, PTL

(* The same where discoveries may run, up to the first that does. *)
THEOREM DecisionsSettled == Spec => [](~overlapped => Settled)
<1>1. ReviewInv => (~overlapped => Settled)
  <2> SUFFICES ASSUME ~overlapped, NEW audit \in Discoverable, Reviewed(audit) PROVE Settled
    BY DEF ReviewInv, Reviewed
  <2>1. DOMAIN file.claims = 1..Len(file.claims)
    BY DEF Reviewed, OneAudit, FileFrom
  <2>2. QED
    BY <2>1 DEF Reviewed, SettledInv, Settled, Range
<1>2. QED
  BY <1>1, ReviewsStay, PTL
=============================================================================
