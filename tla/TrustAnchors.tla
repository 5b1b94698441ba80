------------------------------ MODULE TrustAnchors ------------------------------
(***************************************************************************)
(* The trust anchor registries (src/trust_anchor of marty-verification):   *)
(* a list of anchors and, for the mDL (IACA), passport (CSCA) and EU       *)
(* (EUDI) registries, an index by jurisdiction that is kept beside it; and *)
(* the clients that fill them from the AAMVA, ICAO and EU lists (src/pkd). *)
(* Jurisdiction and member state codes are members of a small set, some of *)
(* them other spellings of one that is in upper case.                      *)
(***************************************************************************)
EXTENDS Integers, Sequences, SequencesExt, FiniteSets

CONSTANTS
    Jurisdictions,  \* Jurisdiction, EuMemberState and country codes
    Upper,          \* Upper[j]: to_uppercase of a code
    Subjects,       \* subject names of anchors
    Matching,       \* Matching[s]: the subjects whose text contains s
    Kinds,          \* which registries: "iaca", "csca", "eudi"
    Feeds,          \* the lists a feed may deliver: sequences of entries
    MaxAnchors      \* bound on the anchors held, and on the positions an index entry holds

\* TrustAnchor; an anchor of another purpose has no jurisdiction
NoJurisdiction == "none"
Anchor == [subject : Subjects, purpose : {"iaca", "csca", "eudi", "other"},
           jurisdiction : Jurisdictions \cup {NoJurisdiction}]

\* An entry of a feed (VicalCertificate, MasterListEntry, TrustService): "state"
\* is what becomes of it; a member state's list that cannot be fetched is there
\* as one entry.
Entry == [jurisdiction : Jurisdictions, subject : Subjects,
          state : {"usable", "inactive", "badCertificate", "badBase64", "unfetched"}]

VARIABLES
    kind,       \* IacaRegistry, CscaRegistry or EudiRegistry
    list,       \* BasicTrustRegistry.anchors
    index,      \* jurisdiction_index, country_index, member_state_index: positions, oldest first
    token,      \* AamvaDtsClient.access_token: "none", "good", or "expired" at the server
    outcome     \* of the last sync_registry: the feed and whether it succeeded

vars == <<kind, list, index, token, outcome>>

NoOutcome == [feed |-> <<>>, succeeded |-> FALSE]

Init ==
    /\ kind \in Kinds
    /\ list = <<>>
    /\ index = [j \in Jurisdictions |-> <<>>]
    /\ token = "none"
    /\ outcome = NoOutcome

-----------------------------------------------------------------------------
(* The registry as a value.                                                *)

Registry == [list |-> list, index |-> index]

\* The numbers of P up to n in order, and what stands there in a sequence.
InOrder(P, n) ==
    LET upto[m \in 0 .. n] ==
            IF m = 0 THEN <<>> ELSE IF m \in P THEN Append(upto[m - 1], m) ELSE upto[m - 1]
    IN upto[n]
At(s, positions) == [k \in 1 .. Len(positions) |-> s[positions[k]]]

Of(anchors, j) == {i \in 1 .. Len(anchors) : anchors[i].jurisdiction = j}

\* rebuild_index; the IACA index keeps the last position only
Rebuilt(anchors) ==
    [j \in Jurisdictions |->
        LET all == InOrder(Of(anchors, j), Len(anchors))
        IN IF kind = "iaca" /\ all # <<>> THEN <<Last(all)>> ELSE all]

\* add_anchor, add_jurisdiction_iaca, add_country_csca, add_member_state_anchor:
\* the position indexed is the length before the push.
Pushed(r, a) ==
    [list |-> Append(r.list, a),
     index |-> IF a.jurisdiction = NoJurisdiction THEN r.index
               ELSE [r.index EXCEPT ![a.jurisdiction] =
                        IF kind = "iaca" THEN <<Len(r.list) + 1>> ELSE Append(@, Len(r.list) + 1)]]

\* The anchors whose subject does not contain the text
Left(anchors, text) ==
    At(anchors, InOrder({i \in 1 .. Len(anchors) : anchors[i].subject \notin Matching[text]}, Len(anchors)))

\* Mutant of Removed: the index is left as it was.
RemovedUnindexed(r, text) == [r EXCEPT !.list = Left(r.list, text)]

\* remove_anchor: every anchor whose subject contains the text goes, and the
\* IACA and CSCA registries rebuild their index when one went. The EUDI
\* registry does not: "Would need to rebuild the index after removal".
Removed(r, text) ==
    LET left == Left(r.list, text)
    IN [list |-> left,
        index |-> IF kind # "eudi" /\ Len(left) < Len(r.list) THEN Rebuilt(left) ELSE r.index]

\* get_jurisdiction_iaca, get_country_cscas, get_member_state_anchors: what the
\* index points at, a position past the end being skipped. The code asked for
\* is one of Jurisdiction or EuMemberState, or is put in upper case; the index
\* has the codes as they were added.
Lookup(j) ==
    LET positions == index[Upper[j]]
        held == {p \in 1 .. Len(positions) : positions[p] <= Len(list)}
    IN At(list, At(positions, InOrder(held, Len(positions))))

\* get_anchors_by_jurisdiction: the list itself is searched.
ByJurisdiction(j) == At(list, InOrder(Of(list, j), Len(list)))

-----------------------------------------------------------------------------
(* Operations of an administrator.                                         *)

Bounded(r) == Len(r.list) <= MaxAnchors /\ \A j \in Jurisdictions : Len(r.index[j]) <= MaxAnchors

Become(r) == list' = r.list /\ index' = r.index

\* TrustRegistry::add_anchor takes the jurisdiction as it is spelled; the
\* others add one in upper case.
AddAnchor(a) ==
    /\ Bounded(Pushed(Registry, a))
    /\ Become(Pushed(Registry, a))
    /\ outcome' = NoOutcome
    /\ UNCHANGED <<kind, token>>

RemoveAnchor(text) ==
    /\ Become(Removed(Registry, text))
    /\ outcome' = NoOutcome
    /\ UNCHANGED <<kind, token>>

\* EudiRegistry::clear
Clear ==
    /\ kind = "eudi"
    /\ Become([list |-> <<>>, index |-> [j \in Jurisdictions |-> <<>>]])
    /\ outcome' = NoOutcome
    /\ UNCHANGED <<kind, token>>

-----------------------------------------------------------------------------
(* The feeds.                                                              *)

AnchorOf(e) == [subject |-> e.subject, purpose |-> kind, jurisdiction |-> e.jurisdiction]

\* add_country_csca and EuMemberState::from_code file an entry under its code in
\* upper case.
InUpperCase(feed) == [i \in 1 .. Len(feed) |-> [feed[i] EXCEPT !.jurisdiction = Upper[@]]]

\* parse_tl_xml keeps a service's status and sync_registry does not look at it:
\* a withdrawn service's certificate is taken as well. AAMVA's status counts.
Takes(e) == e.state = "usable" \/ (kind = "eudi" /\ e.state = "inactive")

\* A taken certificate joins the list; in AAMVA's feed the anchors whose subject
\* contains its jurisdiction make way for it.
Taken(registry, anchor) ==
    Pushed(IF kind = "iaca" THEN Removed(registry, anchor.jurisdiction) ELSE registry, anchor)

\* One entry of a feed: it is skipped, taken, or ends the walk with an error
\* that leaves what was taken before it.
Step(walk, e, fatal) ==
    IF walk.failed \/ (e.state \notin fatal /\ ~Takes(e)) THEN walk
    ELSE IF e.state \in fatal THEN [walk EXCEPT !.failed = TRUE]
    ELSE [walk EXCEPT !.registry = Taken(@, AnchorOf(e))]

\* The loop over a feed.
Walk(feed, fatal) ==
    LET walk[k \in 0 .. Len(feed)] ==
            IF k = 0 THEN [registry |-> Registry, failed |-> FALSE] ELSE Step(walk[k - 1], feed[k], fatal)
    IN walk[Len(feed)]

\* The effect of a walk and the result: the feed as its entries were filed.
Synced(feed, w) ==
    /\ Bounded(w.registry)
    /\ Become(w.registry)
    /\ outcome' = IF w.failed THEN NoOutcome ELSE [feed |-> feed, succeeded |-> TRUE]

\* ensure_authenticated: a token is fetched when there is none, and never again.
EnsureAuthenticated == IF token = "none" THEN "good" ELSE token

\* AamvaDtsClient::sync_registry: only active certificates count.
SyncAamva(feed) ==
    /\ kind = "iaca"
    /\ EnsureAuthenticated = "good"
    /\ token' = "good"
    /\ Synced(feed, Walk(feed, {}))
    /\ UNCHANGED kind

\* The server answers 401 to an expired token; nothing clears it.
SyncAamvaRefused ==
    /\ kind = "iaca" /\ EnsureAuthenticated = "expired"
    /\ outcome' = NoOutcome
    /\ UNCHANGED <<kind, list, index, token>>

\* IcaoPkdClient::sync_registry with merge_master_list_entries: an empty list
\* or a certificate that does not parse is an error.
SyncIcao(feed) ==
    /\ kind = "csca"
    /\ Synced(InUpperCase(feed), IF feed = <<>> THEN [registry |-> Registry, failed |-> TRUE]
                                 ELSE Walk(InUpperCase(feed), {"badCertificate"}))
    /\ UNCHANGED <<kind, token>>

\* ... with offline_dir: merge_from_directory skips what does not parse, the
\* stem of a file being its jurisdiction as it is spelled; nothing at all is an
\* error.
MergeFromDirectory(feed) ==
    /\ kind = "csca"
    /\ Synced(feed, IF \A i \in DOMAIN feed : feed[i].state # "usable"
                    THEN [registry |-> Registry, failed |-> TRUE]
                    ELSE Walk(feed, {}))
    /\ UNCHANGED <<kind, token>>

\* EudiLotlClient::sync_registry: a member state whose list cannot be fetched
\* and a certificate that does not parse are skipped, one that is not base64
\* ends the synchronisation.
SyncEudi(feed) ==
    /\ kind = "eudi"
    /\ Synced(InUpperCase(feed), Walk(InUpperCase(feed), {"badBase64"}))
    /\ UNCHANGED <<kind, token>>

ExpireToken ==
    /\ token = "good"
    /\ token' = "expired"
    /\ UNCHANGED <<kind, list, index, outcome>>

Next ==
    \/ \E s \in Subjects, j \in Jurisdictions :
        AddAnchor([subject |-> s, purpose |-> kind, jurisdiction |-> j])
    \/ \E s \in Subjects :
        AddAnchor([subject |-> s, purpose |-> "other", jurisdiction |-> NoJurisdiction])
    \/ \E s \in Subjects : RemoveAnchor(s)
    \/ Clear
    \/ \E f \in Feeds : SyncAamva(f) \/ SyncIcao(f) \/ MergeFromDirectory(f) \/ SyncEudi(f)
    \/ SyncAamvaRefused \/ ExpireToken

Spec == Init /\ [][Next]_vars

-----------------------------------------------------------------------------
(* Properties.                                                             *)

\* After any additions, synchronisations and removals the index of an mDL or
\* passport registry agrees with its list: an IACA lookup gives the latest
\* anchor filed under the code in upper case, a CSCA lookup all of them in
\* order. One that was filed under another spelling is found by no lookup. The
\* EUDI registry is left out: its remove_anchor leaves the index as it was.
IndexFaithful ==
    \A j \in Jurisdictions :
        LET all == ByJurisdiction(Upper[j]) IN
        /\ kind = "csca" => Lookup(j) = all
        /\ kind = "iaca" => Lookup(j) = (IF all = <<>> THEN <<>> ELSE <<Last(all)>>)

\* An mDL registry keeps of several entries for one jurisdiction the last, and
\* an entry makes those before it go whose subject contains its jurisdiction.
Superseded(feed, i, n) ==
    /\ kind = "iaca"
    /\ \E k \in i + 1 .. n :
        /\ feed[k].state = "usable"
        /\ feed[k].jurisdiction = feed[i].jurisdiction \/ feed[i].subject \in Matching[feed[k].jurisdiction]

\* A synchronisation that reports success, at once or after earlier ones
\* failed half way, has put every usable entry that no later one supersedes
\* where a lookup by its jurisdiction finds it, unless it was filed under a
\* code that is not in upper case (a file of merge_from_directory, or AAMVA's).
SyncedIsFound ==
    outcome.succeeded =>
        \A i \in DOMAIN outcome.feed :
            LET e == outcome.feed[i]
            IN /\ e.state = "usable" /\ Upper[e.jurisdiction] = e.jurisdiction
               /\ ~Superseded(outcome.feed, i, Len(outcome.feed))
               => \E p \in DOMAIN Lookup(e.jurisdiction) : Lookup(e.jurisdiction)[p].subject = e.subject

\* Both: lookups in a registry tell the truth about its list and its feeds.
RegistryFaithful == IndexFaithful /\ SyncedIsFound
=============================================================================
