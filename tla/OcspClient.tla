------------------------------- MODULE OcspClient -------------------------------
(***************************************************************************)
(* Revocation checks of one certificate by the caching OCSP client         *)
(* (src/ocsp.rs of marty-crypto): concurrent calls of check look in the    *)
(* cache, ask a responder, validate what comes back and store it. The      *)
(* responders, the network that may hand out old or forged responses, and  *)
(* the cache library's own expiry and eviction are external.               *)
(***************************************************************************)
EXTENDS Integers, FiniteSets

CONSTANTS
    Checks,         \* concurrent calls of check
    Responders,     \* <<key, dated>>: who signs, and whether with a nextUpdate
    Embedded,       \* certificates a response may carry
    Skew,           \* CLOCK_SKEW_SECS
    MaxAge,         \* MAX_AGE_WITHOUT_NEXT_UPDATE_SECS
    DefaultTtl,     \* default_cache_ttl_secs
    Validity,       \* nextUpdate - thisUpdate of a genuine response
    MaxTime,        \* bound on the clock
    MaxResponses    \* bound on the responses signed

Times == 1 .. MaxTime
NoTime == 0
SignerKeys == {"issuer", "delegate", "other"}

\* An embedded certificate: the key it is for (which is also how a responder
\* ID names it), whether the issuer signed it, its extensions and its end.
Certificate == [key : SignerKeys, byIssuer : BOOLEAN, ocspSigning : BOOLEAN,
                digitalSignature : BOOLEAN, until : Nat]

Response == [status : {"good", "revoked"}, matching : 0 .. 2,
             produced : Times, this : Times, next : Nat,
             id : SignerKeys, certs : SUBSET Embedded, by : SignerKeys]
NoResponse == [status |-> "none"]
NoEntry == [result |-> NoResponse, expires |-> NoTime, inserted |-> NoTime]

VARIABLES
    now,
    revokedAt,      \* when the certificate was revoked, or NoTime
    sent,           \* genuine responses the network may still deliver
    phase,          \* phase[k]: where call k is
    answer,         \* answer[k]: what it returns or stores, and when it got it
    cache           \* the entry of the certificate

vars == <<now, revokedAt, sent, phase, answer, cache>>

Init ==
    /\ now = 1
    /\ revokedAt = NoTime
    /\ sent = {}
    /\ phase = [k \in Checks |-> "idle"]
    /\ answer = [k \in Checks |-> NoEntry]
    /\ cache = NoEntry

-----------------------------------------------------------------------------
(* validate_ocsp_response                                                  *)

\* select_authorized_responder: the keys whose signature is accepted. The
\* issuer wins over an embedded certificate; exactly one certificate may
\* carry the responder ID.
AuthorizedKeys(r) ==
    IF r.id = "issuer" THEN {"issuer"}
    ELSE LET named == {c \in r.certs : c.key = r.id} IN
         {c.key : c \in {d \in named :
             /\ Cardinality(named) = 1
             /\ d.byIssuer /\ now <= d.until
             /\ d.ocspSigning /\ d.digitalSignature}}

\* Mutant of FreshResponse: a response without nextUpdate never gets old.
FreshResponseUnaged(r) ==
    /\ r.produced <= now + Skew /\ r.this <= now + Skew
    /\ r.next # NoTime => r.next >= r.this /\ now <= r.next + Skew

\* validate_ocsp_freshness
FreshResponse(r) ==
    /\ r.produced <= now + Skew /\ r.this <= now + Skew
    /\ r.this <= r.produced + Skew
    /\ IF r.next # NoTime
       THEN r.next >= r.this /\ now <= r.next + Skew /\ r.produced <= r.next + Skew
       ELSE now <= r.this + MaxAge + Skew

\* cert_id_matches: issuer name, issuer key and serial, under the response's
\* own hash; exactly one SingleResponse may be bound to the certificate.
BoundOnce(r) == r.matching = 1

Valid(r) == BoundOnce(r) /\ r.by \in AuthorizedKeys(r) /\ FreshResponse(r)

-----------------------------------------------------------------------------
(* check                                                                   *)

\* calculate_ttl added to the current time: a nextUpdate that has passed
\* counts like one that is missing.
Expiry(r) == IF r.next > now THEN r.next ELSE now + DefaultTtl

\* The cache library gives out an entry for its own time to live only.
Live(e) == e # NoEntry /\ now < e.inserted + DefaultTtl

Finish(k, e) ==
    /\ phase' = [phase EXCEPT ![k] = "done"]
    /\ answer' = [answer EXCEPT ![k] = e]

Hit(k) ==
    /\ phase[k] = "idle"
    /\ Live(cache) /\ cache.expires > now
    /\ Finish(k, [cache EXCEPT !.inserted = now])
    /\ UNCHANGED <<now, revokedAt, sent, cache>>

Miss(k) ==
    /\ phase[k] = "idle"
    /\ ~(Live(cache) /\ cache.expires > now)
    /\ phase' = [phase EXCEPT ![k] = "asking"]
    /\ UNCHANGED <<now, revokedAt, sent, answer, cache>>

\* check_via_post or check_via_get returns a response that validates
Receive(k, r) ==
    /\ phase[k] = "asking"
    /\ Valid(r)
    /\ phase' = [phase EXCEPT ![k] = "storing"]
    /\ answer' = [answer EXCEPT ![k] = [result |-> r, expires |-> Expiry(r), inserted |-> now]]
    /\ UNCHANGED <<now, revokedAt, sent, cache>>

\* ocsp_check and ocsp_check_get: the same exchange without the cache
CheckUncached(k, r) ==
    /\ phase[k] = "idle"
    /\ Valid(r)
    /\ Finish(k, [result |-> r, expires |-> NoTime, inserted |-> now])
    /\ UNCHANGED <<now, revokedAt, sent, cache>>

\* ... or one that does not, an HTTP error, a timeout, or no responder URL
Fail(k) ==
    /\ phase[k] = "asking"
    /\ Finish(k, NoEntry)
    /\ UNCHANGED <<now, revokedAt, sent, cache>>

\* The insertion into the cache; other calls have run meanwhile.
Store(k) ==
    /\ phase[k] = "storing"
    /\ cache' = [answer[k] EXCEPT !.inserted = now]
    /\ Finish(k, answer[k])
    /\ UNCHANGED <<now, revokedAt, sent>>

\* The call ends and its slot is used for another one.
Again(k) ==
    /\ phase[k] = "done"
    /\ phase' = [phase EXCEPT ![k] = "idle"]
    /\ answer' = [answer EXCEPT ![k] = NoEntry]
    /\ UNCHANGED <<now, revokedAt, sent, cache>>

\* clear_cache, and eviction at max_cache_entries
ClearCache ==
    /\ cache' = NoEntry
    /\ UNCHANGED <<now, revokedAt, sent, phase, answer>>

-----------------------------------------------------------------------------
(* The responders and the network.                                         *)

Status == IF revokedAt # NoTime THEN "revoked" ELSE "good"

\* OcspResponseBuilder::build with the issuer's key: the current status, dated.
Built == [status |-> Status, matching |-> 1, produced |-> now, this |-> now,
          next |-> now + Validity, id |-> "issuer", certs |-> {}, by |-> "issuer"]

\* A responder signs the current status, a delegate under its own name and
\* with its certificate, some without a nextUpdate. Old responses stay
\* deliverable.
Respond(key, dated) ==
    /\ Cardinality(sent) < MaxResponses
    /\ sent' = sent \cup {[Built EXCEPT !.id = key, !.by = key,
                              !.certs = {c \in Embedded : c.key = key},
                              !.next = IF dated THEN @ ELSE NoTime]}
    /\ UNCHANGED <<now, revokedAt, phase, answer, cache>>

\* What somebody without the issuer's or the delegate's key can make up.
Forged == [status : {"good"}, matching : {1}, produced : {now}, this : {now},
           next : {NoTime, now + Validity}, id : SignerKeys, certs : SUBSET Embedded, by : {"other"}]

Revoke ==
    /\ revokedAt = NoTime
    /\ revokedAt' = now
    /\ UNCHANGED <<now, sent, phase, answer, cache>>

Tick ==
    /\ now < MaxTime
    /\ now' = now + 1
    /\ UNCHANGED <<revokedAt, sent, phase, answer, cache>>

Next ==
    \/ \E k \in Checks : Hit(k) \/ Miss(k) \/ Fail(k) \/ Store(k) \/ Again(k)
    \/ \E k \in Checks, r \in sent \cup Forged : Receive(k, r) \/ CheckUncached(k, r)
    \/ ClearCache
    \/ \E p \in Responders : Respond(p[1], p[2])
    \/ Revoke \/ Tick

Spec == Init /\ [][Next]_vars

-----------------------------------------------------------------------------
(* Properties.                                                             *)

Returned == {k \in Checks : phase[k] = "done" /\ answer[k] # NoEntry}

\* A revocation is not hidden for longer than a response is valid plus the
\* clock skew and the cache's time to live, although old responses are
\* delivered again and a slow call may overwrite a newer entry with an older.
LongestLife == (IF Validity > MaxAge THEN Validity ELSE MaxAge) + Skew + DefaultTtl
RevocationSurfaces ==
    \A k \in Returned :
        answer[k].result.status = "good" /\ revokedAt # NoTime
        => answer[k].inserted <= revokedAt + LongestLife
=============================================================================
