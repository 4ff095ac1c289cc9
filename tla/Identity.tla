------------------------------ MODULE Identity ------------------------------
(***************************************************************************)
(* Authentication: the chain of API keys and OpenID Connect, the cache of  *)
(* the identity provider's discovery document and signing keys (JWKS), and *)
(* the verification of a token against that cache.                         *)
(*                                                                         *)
(* A token is its signer, the key id it names, its expiry and whether its  *)
(* algorithm, issuer, audience, subject and not-before are right.  The     *)
(* clock moves only between requests: one waits at most two HTTP timeouts  *)
(* of 10 seconds, against a cache lifetime of 10 minutes.                  *)
(***************************************************************************)
EXTENDS Integers

CONSTANTS
  SigningKey,   \* keys the identity provider may sign with
  Rogue,        \* a key it never published
  NoKid,        \* a token that names no key
  ApiKey,       \* agent API keys
  Token,        \* the tokens presented
  IdRequest,    \* concurrent requests
  CacheTTL,     \* lifetime of the cached documents
  MaxIdTime     \* bound on the clock

ASSUME IdentityAssumption ==
  /\ CacheTTL \in Nat \ {0}
  /\ MaxIdTime \in Nat
  /\ Rogue \notin SigningKey
  /\ Token \subseteq
       [signer : SigningKey \cup {Rogue}, kid : SigningKey \cup {NoKid},
        exp : Nat, sound : BOOLEAN]

VARIABLES
  idNow,      \* the clock
  published,  \* the keys in the provider's JWKS document now
  lastSeen,   \* history: when each key was last in that document, or -1
  jwks,       \* OIDCProvider.jwks
  fetchedAt,  \* OIDCProvider.fetchedAt, which both documents share
  metaKnown,  \* OIDCProvider.meta holds an issuer
  extended,   \* history: discovery was read again since jwks was written
  apiKeys,    \* the agent keys that resolve
  idReq       \* each request

identityVars ==
  <<idNow, published, lastSeen, jwks, fetchedAt, metaKnown, extended, apiKeys, idReq>>

environment == <<idNow, published, lastSeen, apiKeys>>

NoRequest == [pc |-> "idle"]

(* A request that was answered makes room for the next. *)
Answered(r) == idReq[r].pc \in {"idle", "accepted", "agent", "refused"}

CacheFresh == idNow - fetchedAt < CacheTTL

(* An explicit API key is resolved and nothing else is tried. *)
AuthenticateHeader(r, k) ==
  /\ Answered(r)
  /\ idReq' = [idReq EXCEPT
       ![r] = [pc |-> IF k \in apiKeys THEN "agent" ELSE "refused"]]
  /\ UNCHANGED <<environment, jwks, fetchedAt, metaKnown, extended>>

(* A bearer that is no JWT is tried as an API key, and goes to the         *)
(* provider if that fails.                                                 *)
AuthenticateOpaque(r, k) ==
  /\ Answered(r)
  /\ idReq' = [idReq EXCEPT
       ![r] = IF k \in apiKeys THEN [pc |-> "agent"]
              ELSE [pc |-> "meta", jwt |-> FALSE, doc |-> {}]]
  /\ UNCHANGED <<environment, jwks, fetchedAt, metaKnown, extended>>

(* Which token a request carries matters only when it is verified. *)
AuthenticateJWT(r) ==
  /\ Answered(r)
  /\ idReq' = [idReq EXCEPT ![r] = [pc |-> "meta", jwt |-> TRUE, doc |-> {}]]
  /\ UNCHANGED <<environment, jwks, fetchedAt, metaKnown, extended>>

(* ensureMeta: a fresh document is reused. *)
MetaFresh(r) ==
  /\ idReq[r].pc = "meta"
  /\ CacheFresh /\ metaKnown
  /\ idReq' = [idReq EXCEPT ![r].pc = "jwks"]
  /\ UNCHANGED <<environment, jwks, fetchedAt, metaKnown, extended>>

(* ensureMeta: otherwise it is read, and the shared time is set. *)
MetaFetch(r) ==
  /\ idReq[r].pc = "meta"
  /\ ~(CacheFresh /\ metaKnown)
  /\ metaKnown' = TRUE
  /\ fetchedAt' = idNow
  /\ extended' = (extended \/ jwks # {})
  /\ idReq' = [idReq EXCEPT ![r].pc = "jwks"]
  /\ UNCHANGED <<environment, jwks>>

(* ensureMeta fails; ensureJWKS ignores that. *)
MetaFails(r) ==
  /\ idReq[r].pc = "meta"
  /\ ~(CacheFresh /\ metaKnown)
  /\ idReq' = [idReq EXCEPT ![r].pc = "jwks"]
  /\ UNCHANGED <<environment, jwks, fetchedAt, metaKnown, extended>>

(* Mutant: cached keys are used whatever their age. *)
JwksFreshAlways(r) ==
  /\ idReq[r].pc = "jwks"
  /\ jwks # {}
  /\ idReq' = [idReq EXCEPT ![r].pc = "verify"]
  /\ UNCHANGED <<environment, jwks, fetchedAt, metaKnown, extended>>

(* ensureJWKS: the keys are reused while the shared time is recent. *)
JwksFresh(r) ==
  /\ idReq[r].pc = "jwks"
  /\ CacheFresh /\ jwks # {}
  /\ idReq' = [idReq EXCEPT ![r].pc = "verify"]
  /\ UNCHANGED <<environment, jwks, fetchedAt, metaKnown, extended>>

(* ensureJWKS: the provider answers with its document of that moment ...   *)
JwksFetch(r) ==
  /\ idReq[r].pc = "jwks"
  /\ ~(CacheFresh /\ jwks # {})
  /\ idReq' = [idReq EXCEPT ![r].pc = "store", ![r].doc = published]
  /\ UNCHANGED <<environment, jwks, fetchedAt, metaKnown, extended>>

(* ... which is stored, maybe after another request's later one.           *)
JwksStore(r) ==
  /\ idReq[r].pc = "store"
  /\ jwks' = idReq[r].doc
  /\ fetchedAt' = idNow
  /\ extended' = FALSE
  /\ idReq' = [idReq EXCEPT ![r].pc = "verify", ![r].doc = {}]
  /\ UNCHANGED <<environment, metaKnown>>

(* ensureJWKS fails: the request is refused, as one to retry. *)
JwksFails(r) ==
  /\ idReq[r].pc = "jwks"
  /\ ~(CacheFresh /\ jwks # {})
  /\ idReq' = [idReq EXCEPT ![r] = [pc |-> "refused"]]
  /\ UNCHANGED <<environment, jwks, fetchedAt, metaKnown, extended>>

(* keyFor: the first key of the document with the token's key id, or the   *)
(* first of all if it names none.                                          *)
keyFor(t) == {k \in jwks : t.kid \in {k, NoKid}}

(* Mutant: a token that names a key is believed to be signed with it. *)
VerifiesByName(t) ==
  keyFor(t) # {} /\ t.sound /\ idNow < t.exp

(* parseAndVerifyJWT, for some order of the keys in the document. *)
Verifies(t) == t.signer \in keyFor(t) /\ t.sound /\ idNow < t.exp

SeenLast(k) == IF k \in SigningKey THEN lastSeen[k] ELSE -1

(* A bearer that is no JWT is refused as malformed; without a key id the   *)
(* first key may be another one than the signer's.                         *)
Verify(r) ==
  /\ idReq[r].pc = "verify"
  /\ \/ \E t \in Token :
          /\ idReq[r].jwt /\ Verifies(t)
          /\ idReq' = [idReq EXCEPT
               ![r] = [pc |-> "accepted", token |-> t, at |-> idNow,
                       seen |-> SeenLast(t.signer), extended |-> extended]]
     \/ /\ idReq[r].jwt => \E t \in Token : ~Verifies(t) \/ t.kid = NoKid
        /\ idReq' = [idReq EXCEPT ![r] = [pc |-> "refused"]]
  /\ UNCHANGED <<environment, jwks, fetchedAt, metaKnown, extended>>

(* The process restarts with empty caches; requests are lost. *)
IdRestart ==
  /\ jwks' = {}
  /\ fetchedAt' = -CacheTTL
  /\ metaKnown' = FALSE
  /\ extended' = FALSE
  /\ idReq' = [r \in IdRequest |-> NoRequest]
  /\ UNCHANGED environment

Seen(keys) == [k \in SigningKey |-> IF k \in keys THEN idNow ELSE lastSeen[k]]

(* The provider publishes a key or withdraws one. *)
ProviderRotates(k) ==
  /\ published' = IF k \in published THEN published \ {k} ELSE published \cup {k}
  /\ lastSeen' = Seen(published \cup {k})
  /\ UNCHANGED <<idNow, apiKeys, jwks, fetchedAt, metaKnown, extended, idReq>>

(* An agent key is issued or stops resolving. *)
ApiKeyChanges(k) ==
  /\ apiKeys' = IF k \in apiKeys THEN apiKeys \ {k} ELSE apiKeys \cup {k}
  /\ UNCHANGED <<idNow, published, lastSeen, jwks, fetchedAt, metaKnown, extended, idReq>>

(* Time passes between requests; earlier answers are forgotten. *)
IdTick ==
  /\ idNow < MaxIdTime
  /\ \A r \in IdRequest : Answered(r)
  /\ idNow' = idNow + 1
  /\ lastSeen' = [k \in SigningKey |-> IF k \in published THEN idNow + 1 ELSE lastSeen[k]]
  /\ idReq' = [r \in IdRequest |-> NoRequest]
  /\ UNCHANGED <<published, apiKeys, jwks, fetchedAt, metaKnown, extended>>

IdentityInit ==
  /\ idNow = 0
  /\ published = {}
  /\ lastSeen = [k \in SigningKey |-> -1]
  /\ jwks = {}
  /\ fetchedAt = -CacheTTL
  /\ metaKnown = FALSE
  /\ extended = FALSE
  /\ apiKeys = {}
  /\ idReq = [r \in IdRequest |-> NoRequest]

IdentityStep(r) ==
  \/ \E k \in ApiKey : AuthenticateHeader(r, k) \/ AuthenticateOpaque(r, k)
  \/ AuthenticateJWT(r)
  \/ MetaFresh(r) \/ MetaFetch(r) \/ MetaFails(r)
  \/ JwksFresh(r) \/ JwksFetch(r) \/ JwksStore(r) \/ JwksFails(r)
  \/ Verify(r)

IdentityNext ==
  \/ \E r \in IdRequest : IdentityStep(r)
  \/ \E k \in SigningKey : ProviderRotates(k)
  \/ \E k \in ApiKey : ApiKeyChanges(k)
  \/ IdTick
  \/ IdRestart

IdentitySpec == IdentityInit /\ [][IdentityNext]_identityVars

-----------------------------------------------------------------------------
(* Properties *)

Accepted == {r \in IdRequest : idReq[r].pc = "accepted"}

(* A token is accepted only if its signer was a published key at some time *)
(* before, its claims are right and it had not expired, whatever was       *)
(* fetched, stored or lost in between.                                     *)
AcceptedGenuine ==
  \A r \in Accepted :
    LET t == idReq[r].token IN
    /\ idReq[r].seen >= 0
    /\ t.sound
    /\ idReq[r].at < t.exp

(* The cached keys are not used for longer than their lifetime unless the  *)
(* discovery document was read again meanwhile: every accepted token's     *)
(* signer was published less than CacheTTL before.                         *)
StaleOnlyByDiscovery ==
  \A r \in Accepted : ~idReq[r].extended =>
    idReq[r].at - idReq[r].seen < CacheTTL

(* docs/threat-model/README.md counters spoofing with "JWKS rotation, ..." *)
(* over a "JWKS cache": a withdrawn key is refused once the cached keys    *)
(* are CacheTTL old, whatever else was fetched.                            *)
RotationHonoured ==
  \A r \in Accepted : idReq[r].at - idReq[r].seen < CacheTTL

(* What authentication answers for: a token that is let in is genuine, and *)
(* its signer was published within the cache's lifetime, up to the         *)
(* discovery race.                                                         *)
AcceptedIsCurrent == AcceptedGenuine /\ StaleOnlyByDiscovery
=============================================================================
