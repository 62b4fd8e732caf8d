---------------------------- MODULE Revalidation ----------------------------
(***************************************************************************)
(* The cached observation of one source and its revalidation by HTTP 304    *)
(* (validated_discovery_cache.py, discovery_provenance.py).                 *)
(*                                                                         *)
(* The modules make no request: their caller polls the source and attests a *)
(* 304 to reuse_not_modified.  The caller modelled here keeps one cache     *)
(* entry, may have several polls under way, for different contexts          *)
(* (accounts, representations), and hears their answers in any order.  The   *)
(* names that every module has (Init, Next, Spec...) are prefixed, so that   *)
(* DiscoveryImport can be extended beside this module.                      *)
(***************************************************************************)
EXTENDS FiniteSets

CONSTANTS
  Contexts,   \* validation contexts: domain, account partition, representation
  Versions,   \* what the source may say of its resources
  Revision,   \* the source revision each version declares
  Tagged,     \* versions the source gives an HTTP validator
  Issuers,    \* local issuers whose keys may be enrolled
  Polls,      \* bound: polls under way at once
  Nothing     \* no validator, no entry, no issuer

ASSUME ConstantsAssumption ==
  Revision \in [Versions -> Versions] /\ Tagged \subseteq Versions /\ Nothing \notin Versions

VARIABLES
  origin,   \* what the source would answer now, in each context
  trusted,  \* issuers whose key the verifier holds
  entry,    \* the validated cache entry
  polls,    \* the polls under way
  outcome   \* the last snapshot handed out, and what it was handed out for

cacheVars == <<origin, trusted, entry, polls, outcome>>

-----------------------------------------------------------------------------
\* ETag and Last-Modified together; within a context they tell versions apart.
Validators(v) == IF v \in Tagged THEN v ELSE Nothing

\* source, selection and resources are the same in every request.
Request == [context: Contexts, revision: Versions]

\* A controlled observation names its issuer; the other kinds name none.
Provenance ==
  [kind: {"controlled"}, issuer: Issuers, context: Contexts]
    \cup [kind: {"synthetic", "historical"}, issuer: {Nothing}, context: Contexts]

Entry == [request: Request, snapshot: Versions, provenance: Provenance,
          validators: Versions \cup {Nothing}]

Poll == [state: {"idle"}]
          \cup [state: {"sent"}, request: Request, sent: Versions \cup {Nothing}]
          \cup [state: {"modified", "unmodified"}, request: Request,
                sent: Versions \cup {Nothing}, version: Versions]
Idle == [state |-> "idle"]

CacheTypeOK ==
  /\ origin \in [Contexts -> Versions]
  /\ trusted \subseteq Issuers
  /\ entry \in Entry \cup {Nothing}
  /\ polls \in [Polls -> Poll]
  /\ outcome \in [asked: Contexts, snapshot: Versions, answer: Versions, provenance: Provenance]
                 \cup {Nothing}

CacheInit ==
  /\ origin \in [Contexts -> Versions]
  /\ trusted = Issuers
  /\ entry = Nothing
  /\ polls = [p \in Polls |-> Idle]
  /\ outcome = Nothing

-----------------------------------------------------------------------------
(* The source and the verifier's keys.                                     *)

Publish(x, v) ==
  /\ origin' = [origin EXCEPT ![x] = v]
  /\ UNCHANGED <<trusted, entry, polls, outcome>>

Revoke(i) ==
  /\ trusted' = trusted \ {i}
  /\ UNCHANGED <<origin, entry, polls, outcome>>

-----------------------------------------------------------------------------
(* The contracts.                                                          *)

\* Of controlled provenance the key of its issuer must be held now.
ValidProvenance(prov) == prov.kind = "controlled" => prov.issuer \in trusted

\* The snapshot's revisions are those the request expects, and its provenance
\* is of the request's context.
MakeCache(request, v, prov) ==
  /\ Revision[v] = request.revision
  /\ prov.context = request.context
  /\ ValidProvenance(prov)

\* Mutant: the entry was judged when it was stored.
ValidateCacheOnce(e) == Revision[e.snapshot] = e.request.revision

\* An entry is rebuilt, hence judged again, each time it is used.
ValidateCache(e) == MakeCache(e.request, e.snapshot, e.provenance)

\* Mutant: any conditional request vouches for the entry.
ReuseAnyValidators(e, request, sent) ==
  /\ e # Nothing
  /\ ValidateCache(e)
  /\ e.provenance.kind # "historical"
  /\ e.request = request
  /\ sent # Nothing

\* reuse_not_modified, called for a 304.
ReuseNotModified(e, request, sent) ==
  /\ e # Nothing
  /\ ValidateCache(e)
  /\ e.provenance.kind # "historical"
  /\ e.request = request
  /\ sent # Nothing /\ sent = e.validators

\* emit_protected: only an attested observation becomes an import.
EmitProtected(e) ==
  /\ e # Nothing
  /\ ValidProvenance(e.provenance)
  /\ e.provenance.kind = "controlled"

-----------------------------------------------------------------------------
(* The caller.                                                             *)

\* The caller expects the revision the source lists by now; it makes the
\* request conditional on whatever validators its entry has.
Send(p, x) ==
  /\ polls[p] = Idle
  /\ polls' = [polls EXCEPT ![p] =
       [state |-> "sent", request |-> [context |-> x, revision |-> Revision[origin[x]]],
        sent |-> IF entry = Nothing THEN Nothing ELSE entry.validators]]
  /\ UNCHANGED <<origin, trusted, entry, outcome>>

\* The source answers 304 when the validators sent are those of what it has.
Answer(p) ==
  /\ polls[p].state = "sent"
  /\ LET now == origin[polls[p].request.context]
         same == polls[p].sent # Nothing /\ polls[p].sent = Validators(now) IN
     polls' = [polls EXCEPT ![p] =
       [state |-> IF same THEN "unmodified" ELSE "modified",
        request |-> polls[p].request, sent |-> polls[p].sent, version |-> now]]
  /\ UNCHANGED <<origin, trusted, entry, outcome>>

\* A full answer becomes the entry, under the provenance its collector issues
\* with its context, if make_cache accepts it.
Store(p, kind, issuer) ==
  LET request == polls[p].request
      v == polls[p].version
      prov == [kind |-> kind, issuer |-> issuer, context |-> request.context] IN
  /\ polls[p].state = "modified"
  /\ prov \in Provenance
  /\ MakeCache(request, v, prov)
  /\ entry' = [request |-> request, snapshot |-> v, provenance |-> prov,
               validators |-> Validators(v)]
  /\ polls' = [polls EXCEPT ![p] = Idle]
  /\ UNCHANGED <<origin, trusted, outcome>>

Reuse(p) ==
  /\ polls[p].state = "unmodified"
  /\ ReuseNotModified(entry, polls[p].request, polls[p].sent)
  /\ outcome' = [asked |-> polls[p].request.context, snapshot |-> entry.snapshot,
                 answer |-> polls[p].version, provenance |-> entry.provenance]
  /\ polls' = [polls EXCEPT ![p] = Idle]
  /\ UNCHANGED <<origin, trusted, entry>>

\* The answer never comes, is refused, or the caller gives up.
GiveUp(p) ==
  /\ polls[p] # Idle
  /\ polls' = [polls EXCEPT ![p] = Idle]
  /\ UNCHANGED <<origin, trusted, entry, outcome>>

Protect ==
  /\ EmitProtected(entry)
  /\ outcome' = [asked |-> entry.request.context, snapshot |-> entry.snapshot,
                 answer |-> entry.snapshot, provenance |-> entry.provenance]
  /\ UNCHANGED <<origin, trusted, entry, polls>>

CacheNext ==
  \/ \E x \in Contexts, v \in Versions : Publish(x, v)
  \/ \E i \in Issuers : Revoke(i)
  \/ \E p \in Polls, x \in Contexts : Send(p, x)
  \/ \E p \in Polls : Answer(p)
  \/ \E p \in Polls, kind \in {"controlled", "synthetic", "historical"},
        issuer \in Issuers \cup {Nothing} :
       Store(p, kind, issuer)
  \/ \E p \in Polls : Reuse(p)
  \/ \E p \in Polls : GiveUp(p)
  \/ Protect

CacheSpec == CacheInit /\ [][CacheNext]_cacheVars

-----------------------------------------------------------------------------
(* What revalidation is for.                                               *)

\* A snapshot handed out as unchanged is what the source had, for the account
\* and representation asked about, when it answered 304: the entry may have
\* been replaced, by another poll's answer, since that poll was sent
\* (reuse_not_modified's request and validators).
ReusedIsCurrent ==
  outcome # Nothing =>
    outcome.snapshot = outcome.answer /\ outcome.provenance.context = outcome.asked

\* Nothing is handed out on the word of an issuer whose key was withdrawn
\* since the entry was stored (validate_cache at each use, emit_protected).
HandedOutIsTrusted ==
  [][outcome' # outcome =>
       outcome'.provenance.issuer \in trusted \cup {Nothing}]_cacheVars
=============================================================================
