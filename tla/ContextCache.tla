---- MODULE ContextCache ----
(***************************************************************************)
(* The caches of the context engine and the context packs built through    *)
(* them: the session cache L1 (l1-session.ts), the exact cache L2 mirrored *)
(* on a pool of Redis members (redis-exact.ts), the tiers in front of both *)
(* (tiered-cache.ts), the candidates of the semantic cache on the same     *)
(* pool (semantic-cache.ts, redundant.ts), and buildWithRaw of             *)
(* context-pack-builder.ts, whose requests overlap in one process.         *)
(*                                                                         *)
(* Decisions and symbols are represented by the version of their source    *)
(* they were read from, a document by its content.  The revision of the    *)
(* index is the digest of its status, which says how many nodes and edges  *)
(* there are: a run of the indexer may report the status of an earlier     *)
(* one.  A digest goes by the first version of the index that had it.      *)
(* A key is the tuple of the revisions it is a digest of.  Every call of   *)
(* the pool names the members that answer in time; a write to another      *)
(* member is lost, or is carried out later.                                *)
(***************************************************************************)
EXTENDS Integers, FiniteSets

CONSTANTS Members,       \* the Redis members of the pool
          Requests,      \* requests that may be in flight together
          Contents,      \* contents the document can have, small naturals
          MaxRequests,   \* bound: requests of one behaviour
          MaxLate,       \* bound: writes still to be carried out late
          MaxEvents      \* bound: changes of memory, index and document, calls
                         \* not answered and requests begun beside another

ASSUME CacheAssumption ==
  /\ Members # {} /\ IsFiniteSet(Members)
  /\ Contents \subseteq Nat \ {0} /\ Contents # {}
  /\ {MaxRequests, MaxLate, MaxEvents} \subseteq Nat

VARIABLES
  mode,      \* failureMode of both caches: "open" or "closed"
  version,   \* version of project memory and of the codebase index
  index,     \* digest of the index status, and the digests known so far
  doc,       \* content of the document on disk, or Unreadable
  edits,     \* changes of the document so far
  l1,        \* session cache: key -> entry
  l2,        \* exact cache: member -> key -> entry
  late,      \* writes given up by the caller that a member has yet to do
  open,      \* members whose circuit is open
  cooling,   \* the semantic cache is in its failure cooldown
  candidate, \* semantic candidate of the task, per member
  puts,      \* candidates written so far, the order of their createdAt
  req,       \* state of each request
  count,     \* requests begun
  events,    \* changes, faults and overlapping requests so far
  blamed,    \* history: members that ever failed to answer
  last       \* history: key -> the entry last written to or left in L2

sources == <<version, index, doc, edits>>
pool    == <<open, events, blamed>>
tiers   == <<l1, l2, late, last>>
semantic == <<cooling, candidate, puts>>
cacheVars == <<mode, sources, pool, tiers, semantic, req, count>>

Sources == {"memory", "cbm"}
Unavailable == 0          \* a revision or a value that could not be read
Unreadable == 0           \* the document is not there, or its read fails
Nobody == [at |-> 0]      \* no candidate

Stages == {"idle", "status", "index", "raw", "semantic", "memory", "memoryRead",
           "cbm", "cbmRead", "artifact", "candidate", "pack", "done", "failed"}
Lookups == {"status", "raw", "memory", "cbm"}
Resting == {"idle", "done", "failed"}

Blank == [pc |-> "idle", n |-> 0, rev |-> [s \in Sources |-> Unavailable],
          hash |-> 0, reuse |-> [s \in Sources |-> Unavailable],
          val |-> [s \in Sources |-> Unavailable], doc |-> 0, dep |-> 0,
          warned |-> FALSE, edits |-> 0, via |-> "none"]

StatusKey == <<"status">>
PartKey(s, rev) == <<s, rev>>
RawKey(q) == <<"raw", q.rev["memory"], q.rev["cbm"], q.hash>>

Without(f, k) == [x \in DOMAIN f \ {k} |-> f[x]]
With(f, k, e) == [x \in DOMAIN f \cup {k} |-> IF x = k THEN e ELSE f[x]]
Empty == [x \in {} |-> x]

\* The document as the process finds it; the contents are interchangeable.
FirstContent == CHOOSE c \in Contents : TRUE

\* What an earlier process may have left in L2: nothing, or all that one
\* undisturbed build stores.
WarmEntry == [val |-> 1, by |-> 0]
WarmPack == [val |-> [s \in Sources |-> 1], doc |-> FirstContent, dep |-> FirstContent,
             churned |-> FALSE, by |-> 0]
Warm ==
  LET q == [Blank EXCEPT !.rev = WarmPack.val, !.hash = FirstContent]
  IN {Empty, With(With(With(With(Empty, StatusKey, WarmEntry),
                            PartKey("memory", 1), WarmEntry),
                       PartKey("cbm", 1), WarmEntry),
                  RawKey(q), WarmPack)}

CacheInit ==
  /\ mode \in {"open", "closed"}
  /\ version = [s \in Sources |-> 1] /\ index = [digest |-> 1, known |-> {1}]
  /\ doc = FirstContent /\ edits = 0
  /\ l1 = Empty /\ late = {} /\ last \in Warm /\ l2 = [m \in Members |-> last]
  /\ open = {} /\ events = 0 /\ blamed = {}
  /\ cooling = FALSE /\ candidate = [m \in Members |-> Nobody] /\ puts = 0
  /\ req = [r \in Requests |-> Blank] /\ count = 0

----------------------------------------------------------------------------
(* The pool *)

Event == events < MaxEvents /\ events' = events + 1

\* The members a call may use: those whose circuit is closed, and any whose
\* circuit has run out by then, which only the next call notices.
Active == {act \in SUBSET Members : Members \ open \subseteq act}

\* What a call on the members `used` leaves behind when those in `up` answer
\* and those in `act` had no open circuit: an answer closes the member's
\* circuit, a timeout or an error opens it.
Called(act, used, up) ==
  /\ IF used \subseteq up THEN UNCHANGED events ELSE Event
  /\ open' = ((Members \ act) \ (used \cap up)) \cup (used \ up)
  /\ blamed' = blamed \cup (used \ up)

Holding(k) == {m \in Members : k \in DOMAIN l2[m]}

\* Mutant: any member that holds an entry is believed.
AgreedAnyMember(k) == Holding(k) # {}

\* A lookup counts only when every configured member answered, and all of
\* them hold the very same entry.
Agreed(k) ==
  /\ Holding(k) = Members
  /\ \A a, b \in Members : l2[a][k] = l2[b][k]

\* The entry of L2, the oldest copy should they differ.
StoredEntry(k) ==
  LET copies == {l2[m][k] : m \in Holding(k)}
  IN CHOOSE e \in copies : \A x \in copies : e.by =< x.by

\* RedisExactCache.get: what it returns when the circuits of `act` are closed
\* and the members of `up` answer.
ExactGet(k, act, up) ==
  IF act = {} \/ (act = Members /\ up = {})
    THEN IF mode = "closed" THEN "throw" ELSE "miss"
  ELSE IF act # Members \/ up # Members \/ Holding(k) = {} THEN "miss"
  ELSE IF Agreed(k) THEN "hit" ELSE "differ"

\* TieredContextCache.get: a session entry is returned without asking L2.
Found(k, act, up) == IF k \in DOMAIN l1 THEN "l1" ELSE ExactGet(k, act, up)
Entry(k) == IF k \in DOMAIN l1 THEN l1[k] ELSE StoredEntry(k)

\* The members a lookup calls: none for a session entry, and none while some
\* circuit is open.
Asked(k, act) == IF k \in DOMAIN l1 \/ act # Members THEN {} ELSE Members

\* delete() removes the entry from the active members that answer.
Deleted(k, gone) ==
  /\ l2' = [m \in Members |-> IF m \in gone THEN Without(l2[m], k) ELSE l2[m]]
  /\ last' = IF gone = {} THEN last ELSE Without(last, k)

\* The outcome of getCached for the builder, `fresh` being the answer of
\* fileDependenciesFresh: in closed mode a lookup no member answers throws,
\* and so does the delete of an entry whose files changed.
Outcome(k, fresh, act, up, dup) ==
  LET found == Found(k, act, up)
  IN CASE found \in {"l1", "hit"} /\ fresh -> "hit"
       [] found \in {"l1", "hit"} /\ mode = "closed" /\ act \cap dup = {} -> "throw"
       [] found = "throw" -> "throw"
       [] OTHER -> "miss"

\* getCached: an entry whose files changed is deleted from both tiers, one
\* the members disagree on from L2; an L2 hit is copied to L1.  `up` are the
\* members that answer the lookup, `dup` those that answer the delete.
GetCached(k, fresh, act, up, dup) ==
  LET found == Found(k, act, up)
      stale == found \in {"l1", "hit"} /\ ~fresh
      drop  == stale \/ found = "differ"
  IN /\ Asked(k, act) = {} => up = Members
     /\ ~drop => dup = Members
     /\ Called(act, IF drop THEN act ELSE Asked(k, act), IF drop THEN dup ELSE up)
     /\ l1' = IF stale THEN Without(l1, k)
              ELSE IF found = "hit" THEN With(l1, k, StoredEntry(k)) ELSE l1
     /\ IF drop THEN Deleted(k, act \cap dup) ELSE UNCHANGED <<l2, last>>
     /\ UNCHANGED late

\* RedisExactCache.set, on the active members.  `slow` are the members that
\* carry the write out after the caller gave up on them.
ExactSet(k, e, act, up, slow) ==
  /\ Called(act, act, up)
  /\ l2' = [m \in Members |-> IF m \in up THEN With(l2[m], k, e) ELSE l2[m]]
  /\ late' = late \cup {[m |-> m, key |-> k, entry |-> e] : m \in slow}
  /\ Cardinality(late') =< MaxLate
  /\ last' = IF up = {} THEN last ELSE With(last, k, e)

\* setCached: L2 first, then L1.  In closed mode a write no member took throws
\* before L1 is reached, and the builder goes on.
SetCached(k, e, act, up, slow) ==
  /\ ExactSet(k, e, act, up, slow)
  /\ l1' = IF mode = "closed" /\ up = {} THEN l1 ELSE With(l1, k, e)

----------------------------------------------------------------------------
(* buildWithRaw *)

Delivered(q, how) == [q EXCEPT !.pc = "done", !.via = how, !.hash = 0, !.dep = 0,
                                !.edits = 0, !.reuse = Blank.reuse]

Goes(r, q) == req' = [req EXCEPT ![r] = q]
Fails(r) == Goes(r, [Blank EXCEPT !.pc = "failed"])

\* Where a request goes after a lookup.
Answered(r, out, hit, miss) ==
  CASE out = "hit"   -> Goes(r, hit)
    [] out = "miss"  -> Goes(r, [req[r] EXCEPT !.pc = miss])
    [] out = "throw" -> Fails(r)

\* A source does not answer, which costs one fault.
SourceDown == Event /\ UNCHANGED <<open, blamed>>

Alone == \A r \in Requests : req[r].pc \in Resting

\* resolveSourceRevisions begins with the revision of project memory.
BeginBuild(r) ==
  /\ req[r].pc \in Resting /\ count < MaxRequests
  /\ count' = count + 1
  /\ \E v \in {version["memory"], Unavailable} :
       /\ LET cost == (IF v = Unavailable THEN 1 ELSE 0) + (IF Alone THEN 0 ELSE 1)
          IN events' = events + cost /\ events' =< MaxEvents
       /\ UNCHANGED <<open, blamed>>
       /\ Goes(r, [Blank EXCEPT !.pc = "status", !.n = count + 1,
                                !.rev = [@ EXCEPT !["memory"] = v]])
  /\ UNCHANGED <<mode, sources, tiers, semantic>>

\* The index revision comes from the cache when it is there; the revision of
\* the artifacts is the hash of the document at that moment, or "unavailable".
Revised(q, v) == [q EXCEPT !.pc = "raw", !.rev = [@ EXCEPT !["cbm"] = v],
                           !.hash = doc, !.edits = edits]

StatusLookup(r) ==
  /\ req[r].pc = "status"
  /\ \E act \in Active, up, dup \in SUBSET Members :
       /\ GetCached(StatusKey, TRUE, act, up, dup)
       /\ Answered(r, Outcome(StatusKey, TRUE, act, up, dup),
                   Revised(req[r], Entry(StatusKey).val), "index")
  /\ UNCHANGED <<mode, sources, semantic, count>>

\* On a miss the index is asked, and a status it gave is stored; between the
\* two nothing else happens to the cache that a later step could tell apart.
IndexStatus(r) ==
  /\ req[r].pc = "index"
  /\ \/ /\ \E act \in Active : \E up \in SUBSET act : \E slow \in SUBSET (act \ up) :
               SetCached(StatusKey, [val |-> index.digest, by |-> req[r].n], act, up, slow)
        /\ Goes(r, Revised(req[r], index.digest))
     \/ SourceDown /\ Goes(r, Revised(req[r], Unavailable)) /\ UNCHANGED tiers
  /\ UNCHANGED <<mode, sources, semantic, count>>

\* Mutant: the hash of the document is not compared.
FileDependenciesUnchecked(k) == TRUE

\* fileDependenciesFresh of a raw pack: its document has the hash captured
\* when the pack was stored, if one was captured.  The files of its symbols are
\* checked the same way and left out.
FileDependenciesFresh(k) ==
  (k \in DOMAIN l1 \/ Agreed(k)) => Entry(k).dep \in {Unreadable, doc}

RawLookup(r) ==
  LET q == req[r]
      k == RawKey(q)
  IN /\ q.pc = "raw"
     /\ \E act \in Active, up, dup \in SUBSET Members :
          /\ GetCached(k, FileDependenciesFresh(k), act, up, dup)
          /\ Answered(r, Outcome(k, FileDependenciesFresh(k), act, up, dup),
                      Delivered([q EXCEPT !.val = Entry(k).val, !.doc = Entry(k).doc], "pack"),
                      "semantic")
     /\ UNCHANGED <<mode, sources, semantic, count>>

----------------------------------------------------------------------------
(* Semantic candidates *)

\* mergeCandidateResults: of the answers for one task the newest counts.
Newest(up) ==
  LET c == {candidate[m] : m \in up} IN CHOOSE x \in c : \A y \in c : y.at =< x.at

\* Mutant: the revision of a component is not compared.
ReusableWhateverRevision(c, q, s) == c # Nobody

\* semanticComponentRejectionReasons: only a component of the very revision
\* the request read, and a revision that could be read, is used again.
Reusable(c, q, s) ==
  /\ c # Nobody
  /\ q.rev[s] # Unavailable
  /\ c.rev[s] = q.rev[s]

\* resolveSemanticReuse: the parts of a candidate a request takes over.
Reused(c, q) ==
  [s \in Sources |-> IF Reusable(c, q, s) THEN c.val[s] ELSE Unavailable]

\* A call of the redundant store goes to every member, open circuits or not,
\* and fails when none answers, which starts a cooldown.
SemanticCall(up) ==
  /\ Called(Members \ open, Members, up)
  /\ cooling' = (up = {})

\* In the cooldown nobody is called; the first call after it has run out
\* notices that.  In closed mode a request that meets a failure fails with it.
SemanticDown(r, q) ==
  IF mode = "closed" THEN Fails(r) ELSE Goes(r, q)

SemanticLookup(r) ==
  LET q == [req[r] EXCEPT !.pc = "memory"]
  IN /\ req[r].pc = "semantic"
     /\ \/ cooling /\ SemanticDown(r, q) /\ UNCHANGED <<pool, cooling>>
        \/ \E up \in SUBSET Members :
             /\ SemanticCall(up)
             /\ IF up = {} THEN SemanticDown(r, q)
                ELSE Goes(r, [q EXCEPT !.reuse = Reused(Newest(up), q)])
        \/ \* the embedding service fails
           SourceDown /\ cooling' = TRUE /\ SemanticDown(r, q)
     /\ UNCHANGED <<mode, sources, tiers, candidate, puts, count>>

----------------------------------------------------------------------------
(* Components: resolveMemoryDecisions and resolveSymbols *)

After(s) == IF s = "memory" THEN "cbm" ELSE "artifact"
ReadOf(s) == IF s = "memory" THEN "memoryRead" ELSE "cbmRead"

PartLookup(r, s) ==
  LET q == req[r]
      k == PartKey(s, q.rev[s])
  IN /\ q.pc = s
     /\ \E act \in Active, up, dup \in SUBSET Members :
          /\ GetCached(k, TRUE, act, up, dup)
          /\ Answered(r, Outcome(k, TRUE, act, up, dup),
                      [q EXCEPT !.pc = After(s), !.val = [@ EXCEPT ![s] = Entry(k).val]],
                      ReadOf(s))
     /\ UNCHANGED <<mode, sources, semantic, count>>

\* On a miss the part comes from the candidate if one may be used, else from
\* its source, and is stored under the revision read at the beginning.
PartRead(r, s) ==
  LET q == req[r]
      v == IF q.reuse[s] # Unavailable THEN q.reuse[s] ELSE version[s]
  IN /\ q.pc = ReadOf(s)
     /\ \E act \in Active : \E up \in SUBSET act : \E slow \in SUBSET (act \ up) :
          SetCached(PartKey(s, q.rev[s]), [val |-> v, by |-> q.n], act, up, slow)
     /\ Goes(r, [q EXCEPT !.pc = After(s), !.val = [@ EXCEPT ![s] = v],
                          !.reuse = [@ EXCEPT ![s] = Unavailable]])
     /\ UNCHANGED <<mode, sources, semantic, count>>

\* A source that fails leaves its part empty and a warning in the pack.
PartUnavailable(r, s) ==
  /\ req[r].pc = ReadOf(s) /\ req[r].reuse[s] = Unavailable
  /\ SourceDown
  /\ Goes(r, [req[r] EXCEPT !.pc = After(s), !.warned = TRUE])
  /\ UNCHANGED <<mode, sources, tiers, semantic, count>>

\* StaticArtifactCache.load reads the file and looks its parsed form up by
\* the hash of the bytes just read, so the pack has the content of this moment;
\* a document that cannot be read is left out, without a warning.
LoadArtifact(r) ==
  /\ req[r].pc = "artifact"
  /\ Goes(r, [req[r] EXCEPT !.pc = "candidate", !.doc = doc])
  /\ UNCHANGED <<mode, sources, pool, tiers, semantic, count>>

----------------------------------------------------------------------------
(* The end of a build *)

\* A pack with a part missing is delivered and not kept.
RawPackIsCacheable(q) == ~q.warned

\* The hashes of the pack's files are captured after the candidate is put; a
\* document that is not in the pack, or cannot be read now, has none.
\* From here on the edits of a request are those made during its build.
Captured(q) == [q EXCEPT !.pc = "pack", !.edits = edits - @,
                         !.dep = IF q.doc = Unreadable THEN Unreadable ELSE doc]

StoreCandidate(r) ==
  LET q == req[r]
      c == [at |-> puts + 1, rev |-> q.rev, val |-> q.val]
  IN /\ q.pc = "candidate" /\ RawPackIsCacheable(q)
     /\ \/ cooling /\ SemanticDown(r, Captured(q)) /\ UNCHANGED <<pool, semantic>>
        \/ \E up \in SUBSET Members :
             /\ SemanticCall(up)
             /\ puts' = puts + 1
             /\ candidate' = [m \in Members |-> IF m \in up THEN c ELSE candidate[m]]
             /\ IF up = {} THEN SemanticDown(r, Captured(q)) ELSE Goes(r, Captured(q))
     /\ UNCHANGED <<mode, sources, tiers, count>>

DeliverUncached(r) ==
  /\ req[r].pc = "candidate" /\ ~RawPackIsCacheable(req[r])
  /\ Goes(r, Delivered(req[r], "build"))
  /\ UNCHANGED <<mode, sources, pool, tiers, semantic, count>>

\* `churned` is history: the document changed twice while the pack was built.
StorePack(r) ==
  LET q == req[r]
  IN /\ q.pc = "pack"
     /\ \E act \in Active : \E up \in SUBSET act : \E slow \in SUBSET (act \ up) :
          SetCached(RawKey(q), [val |-> q.val, doc |-> q.doc, dep |-> q.dep,
                                churned |-> q.edits > 1, by |-> q.n], act, up, slow)
     /\ Goes(r, Delivered(q, "build"))
     /\ UNCHANGED <<mode, sources, semantic, count>>

----------------------------------------------------------------------------
(* The world around the cache *)

\* A write to project memory counts one more row and so advances its revision.
\* An index run may report a status never seen before, keep the one it had or
\* return to an earlier one.
SourceChanges(s) ==
  /\ Event
  /\ version' = [version EXCEPT ![s] = @ + 1]
  /\ IF s = "memory" THEN UNCHANGED index
     ELSE \E d \in index.known \cup {version[s] + 1} :
            index' = [digest |-> d, known |-> index.known \cup {d}]
  /\ UNCHANGED <<mode, doc, edits, open, blamed, tiers, semantic, req, count>>

\* The document is edited, becomes unreadable or can be read again.
DocumentChanges ==
  /\ Event /\ edits' = edits + 1
  /\ doc' \in (Contents \cup {Unreadable}) \ {doc}
  /\ UNCHANGED <<mode, version, index, open, blamed, tiers, semantic, req, count>>

\* A member carries out a write whose caller has given up on it.
LateWrite(w) ==
  /\ w \in late
  /\ late' = late \ {w}
  /\ l2' = [l2 EXCEPT ![w.m] = With(@, w.key, w.entry)]
  /\ UNCHANGED <<mode, sources, pool, l1, last, semantic, req, count>>

\* An entry of L1 outlives its time to live, which is shorter than the one of
\* the same entry in L2, or is lost with the process that held it.
SessionExpires ==
  /\ \E r \in Requests :
       LET k == CASE req[r].pc = "status" -> StatusKey
                  [] req[r].pc = "raw" -> RawKey(req[r])
                  [] req[r].pc \in Sources -> PartKey(req[r].pc, req[r].rev[req[r].pc])
                  [] OTHER -> <<>>
       IN k \in DOMAIN l1 /\ l1' = Without(l1, k)
  /\ UNCHANGED <<mode, sources, pool, l2, late, last, semantic, req, count>>

\* The index status, the one short-lived entry, outlives its time to live;
\* a write of it that comes later is as old and never counts.  The expiry is
\* noticed by the lookup that follows.
StatusExpires ==
  /\ \E r \in Requests : req[r].pc = "status"
  /\ StatusKey \in DOMAIN l1 \/ Holding(StatusKey) # {}
  /\ l1' = Without(l1, StatusKey)
  /\ l2' = [m \in Members |-> Without(l2[m], StatusKey)]
  /\ last' = Without(last, StatusKey)
  /\ late' = {w \in late : w.key # StatusKey}
  /\ UNCHANGED <<mode, sources, pool, semantic, req, count>>

CacheNext ==
  \/ \E r \in Requests :
       \/ BeginBuild(r) \/ StatusLookup(r) \/ IndexStatus(r)
       \/ RawLookup(r) \/ SemanticLookup(r)
       \/ \E s \in Sources : PartLookup(r, s) \/ PartRead(r, s) \/ PartUnavailable(r, s)
       \/ LoadArtifact(r) \/ StoreCandidate(r) \/ DeliverUncached(r) \/ StorePack(r)
  \/ \E s \in Sources : SourceChanges(s)
  \/ DocumentChanges
  \/ \E w \in late : LateWrite(w)
  \/ StatusExpires \/ SessionExpires

CacheSpec == CacheInit /\ [][CacheNext]_cacheVars

----------------------------------------------------------------------------
(* Properties *)

RequestRecord ==
  [pc : Stages, n : Nat, rev : [Sources -> Nat], hash : Contents \cup {0},
   reuse : [Sources -> Nat], val : [Sources -> Nat], doc : Contents \cup {0},
   dep : Contents \cup {0}, warned : BOOLEAN, edits : Int, via : {"none", "pack", "build"}]
RequestTypes ==
  req \in [Requests -> RequestRecord] /\ count \in 0 .. MaxRequests
VersionTypes ==
  /\ doc \in Contents \cup {Unreadable} /\ edits \in Nat /\ events \in 0 .. MaxEvents
  /\ version \in [Sources -> 1 .. (events + 1)]
  /\ index = [digest |-> index.digest, known |-> index.known]
  /\ index.digest \in index.known /\ index.known \subseteq 1 .. version["cbm"]
PoolTypes ==
  /\ mode \in {"open", "closed"} /\ cooling \in BOOLEAN
  /\ open \subseteq Members /\ blamed \subseteq Members
  /\ DOMAIN l2 = Members /\ DOMAIN candidate = Members /\ puts \in Nat
  /\ \A w \in late : w.m \in Members

\* Types: the requests, the sources with the bound on their changes, and the
\* members named by the circuits and the mirrors.
CacheTypeOK == RequestTypes /\ VersionTypes /\ PoolTypes

\* No pack is older than the revisions it claims: whichever cache its
\* decisions and symbols came from, L1, a mirror that missed writes, a late
\* write, a semantic candidate or a build of another request, a part present
\* under a readable revision was read from its source at that revision or
\* later (the keys of context-pack-builder.ts, semanticComponentRejectionReasons).
\* Of the symbols that means the first index with the status claimed, for the
\* code tells two indexes of one status apart by nothing.
NeverOlderThanClaimed ==
  \A r \in Requests : req[r].pc = "done" =>
    \A s \in Sources :
      (req[r].rev[s] # Unavailable /\ req[r].val[s] # Unavailable)
        => req[r].val[s] >= req[r].rev[s]

\* An outage is not remembered: a pack served from the cache has all its
\* parts, although packs are also built and delivered while a source is down
\* (rawPackIsCacheable).
OutageIsNotRemembered ==
  \A r \in Requests : (req[r].pc = "done" /\ req[r].via = "pack") =>
    \A s \in Sources : req[r].val[s] # Unavailable

\* A pack that is delivered is what it claims to be, whichever caches, mirrors,
\* candidates and overlapping builds it came through (buildWithRaw).
PackIsWhatItClaims == NeverOlderThanClaimed /\ OutageIsNotRemembered

\* A request served from the cache gets the document as it is on disk when
\* it is served or was when the request computed its key, though that key
\* was computed before the pack was built and the hash captured after it.
\* Two packs are excepted: one during whose build the document changed twice,
\* and one built when it could not be read, which has no document and no hash
\* that would ever find it out of date (static-artifact-cache.ts:288).
ServedDocumentIsCurrent ==
  [][\A r \in Requests :
       (req[r].pc = "raw" /\ req'[r].via = "pack" /\ req'[r].pc = "done")
         => \/ req'[r].doc \in {req[r].hash, doc, Unreadable}
            \/ Entry(RawKey(req[r])).churned]_cacheVars

\* While one member has answered every call, an exact hit of L2 is the last
\* entry written there: neither a mirror that missed writes or deletes nor
\* a write carried out late makes an older entry count ("prevents a
\* recovered stale replica from authorizing an exact HIT").
ExactHitIsLastWrite ==
  [][blamed' # Members =>
       \A k \in DOMAIN l1' :
         (k \notin DOMAIN l1 /\ \E r \in Requests : /\ req[r].pc \in Lookups
                                                   /\ req'[r].pc # req[r].pc)
           => k \in DOMAIN last /\ l1'[k] = last[k]]_cacheVars

----------------------------------------------------------------------------
(* The inductive invariant behind these properties *)

\* An entry answers for its key: the index status and the parts were read from
\* their sources at the revision of the key or later, and the document of a
\* pack is the one of its key or of its hash, unless it changed twice meanwhile.
\* (v is the version of the sources.)
Answers(v, k, e) ==
  /\ e.by \in Nat
  /\ k[1] = "status" => e.val \in 1 .. v["cbm"]
  /\ \A s \in Sources : k[1] = s => e.val \in 1 .. v[s] /\ e.val >= k[2]
  /\ k[1] = "raw" =>
       /\ e.val \in [Sources -> Nat] /\ \A s \in Sources : e.val[s] \in 1 .. v[s]
       /\ e.val["memory"] >= k[2] /\ e.val["cbm"] >= k[3]
       /\ e.doc \in Contents \cup {0} /\ (e.churned \/ e.doc \in {k[4], e.dep})
Sound(v, f) == \A k \in DOMAIN f : Answers(v, k, f[k])
EntriesInv ==
  /\ Sound(version, l1) /\ \A m \in Members : Sound(version, l2[m])
  /\ \A w \in late : Answers(version, w.key, w.entry)

\* So do the candidates, of which every part was there when they were put.
CandidateAnswers(v, n, c) ==
  /\ c.at \in 0 .. n
  /\ c # Nobody =>
       /\ c.rev \in [Sources -> Nat] /\ c.val \in [Sources -> Nat]
       /\ \A s \in Sources : c.val[s] \in 1 .. v[s] /\ c.val[s] >= c.rev[s]
CandidatesInv == \A m \in Members : CandidateAnswers(version, puts, candidate[m])

\* A request holds no part older than its revisions, and lacks one it has
\* passed only with a warning.
PartsHeld(v, q) ==
  /\ \A s \in Sources :
       /\ q.rev[s] =< v[s] /\ q.reuse[s] =< v[s] /\ q.val[s] =< v[s]
       /\ q.reuse[s] # Unavailable => q.reuse[s] >= q.rev[s]
       /\ q.val[s] # Unavailable => q.val[s] >= q.rev[s]
  /\ q.pc \in {"status", "index"} =>
       \A s \in Sources : q.reuse[s] = Unavailable /\ q.val[s] = Unavailable
  /\ q.pc \in {"cbm", "cbmRead", "artifact", "candidate", "pack"} /\ ~q.warned =>
       q.val["memory"] # Unavailable
  /\ q.pc \in {"artifact", "candidate", "pack"} /\ ~q.warned => q.val["cbm"] # Unavailable
  /\ q.pc = "pack" => ~q.warned
  /\ q.via = "pack" => \A s \in Sources : q.val[s] # Unavailable

\* Of a document that changed at most once since the key was computed, a request
\* has the content of its key or the present one.
DocumentHeld(d, n, q) ==
  /\ q.pc \in {"raw", "semantic", "memory", "memoryRead", "cbm", "cbmRead", "artifact",
               "candidate"} => q.edits =< n /\ (q.edits = n => d = q.hash)
  /\ q.pc = "candidate" => /\ q.edits = n => q.doc = q.hash
                           /\ q.edits + 1 = n => q.doc \in {q.hash, d}
  /\ q.pc = "pack" => q.edits > 1 \/ q.doc \in {q.hash, q.dep}
RequestsInv == \A r \in Requests : PartsHeld(version, req[r]) /\ DocumentHeld(doc, edits, req[r])

\* A member that answered every call has what was last written.
MirrorsInv ==
  /\ open \subseteq blamed
  /\ \A w \in late : w.m \in blamed
  /\ \A m \in Members \ blamed : l2[m] = last

CacheInv == CacheTypeOK /\ EntriesInv /\ CandidatesInv /\ RequestsInv /\ MirrorsInv
====
