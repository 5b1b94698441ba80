------------------------------- MODULE TrustSync -------------------------------
(***************************************************************************)
(* Synchronisation with a remote trust registry (src/trust_sync.rs of      *)
(* marty-verification): the client asks for the changes since its token,   *)
(* page by page, and replaces its state when the last page has come. The   *)
(* registry goes on publishing meanwhile, and a page may be of a later     *)
(* state of it than the page before; a cache on the way may answer with an *)
(* older state or with the page just sent; the client may stop between     *)
(* pages. The registry is external, its metadata as public_sync_metadata   *)
(* makes it.                                                               *)
(***************************************************************************)
EXTENDS Integers, Sequences, FiniteSets, SequencesExt, FiniteSetsExt

CONSTANTS
    EntryIds,       \* entry_id of an anchor
    Lives,          \* how long a published certificate is valid
    PageSize,       \* entries the registry puts on a page
    MaxPages,       \* MAX_PAGES
    Interval,       \* refresh_interval_hours
    Addresses,      \* what DNS may answer for the registry's host
    MaxSequence,    \* bound on the changes published
    SyncEnd         \* bound on the clock

\* ImportedRegistryEntry, reduced to when its certificate ends and whether it
\* has the profile of its anchor type; Absent for no entry.
Absent == [until |-> 0, profile |-> FALSE]

\* A sync token. The client that has it holds each entry as it was at some
\* sequence from "since" to "upto"; where a synchronisation is under way,
\* "first" is the sequence of its first page and "sent" what came so far.
Token(since, upto, first, sent) == [since |-> since, upto |-> upto, first |-> first, sent |-> sent]
NoToken == Token(-1, -1, -1, {})

VARIABLES
    hour,           \* the clock
    history,        \* history[q + 1]: the registry's entries at sequence q
    state,          \* RegistryImportState
    pages,          \* the pages of the synchronisation under way
    failure         \* why the last one failed: "none" or an error code

vars == <<hour, history, state, pages, failure>>

NoEntries == [i \in EntryIds |-> Absent]

Init ==
    /\ hour = 1
    /\ history = <<NoEntries>>
    /\ state = [token |-> NoToken, sequence |-> 0, entries |-> NoEntries, at |-> 0]
    /\ pages = <<>>
    /\ failure = "none"

-----------------------------------------------------------------------------
(* The registry's answer to a request.                                     *)

\* The states of the registry that the holder of a token may have entries of.
Held(t) == IF t.since = -1 THEN {NoEntries} ELSE {history[p + 1] : p \in t.since .. t.upto}

\* What may have to change to get from those to a state; a first request
\* (current_only) gets the entries there are.
Changes(held, to) ==
    {[id |-> i, op |-> IF to[i] = Absent THEN "REMOVE" ELSE "ADD", cert |-> to[i]] :
        i \in {j \in EntryIds : \E h \in held : to[j] # h[j]}}

\* The page for a token from the registry at sequence q: what was not sent yet
\* of the changes, as they are then.
Page(t, q) ==
    LET first == IF t.first = -1 THEN q ELSE t.first
        left == SetToSeq({c \in Changes(Held(t), history[q + 1]) : c.id \notin t.sent})
    IN IF Len(left) <= PageSize
       THEN [token |-> Token(first, q, -1, {}), sequence |-> q, entries |-> left, more |-> FALSE]
       ELSE [token |-> Token(t.since, t.upto, first, t.sent \cup {left[k].id : k \in 1 .. PageSize}),
             sequence |-> q, entries |-> SubSeq(left, 1, PageSize), more |-> TRUE]

-----------------------------------------------------------------------------
(* The client.                                                             *)

\* validate_certificate: current, and of its anchor type's profile
CertificateFailure(c) ==
    IF hour >= c.until THEN "CERTIFICATE_NOT_CURRENT"
    ELSE IF ~c.profile THEN "INVALID_PROFILE" ELSE "none"

\* validate_feed of a page's entries: an ADD has a certificate, a REMOVE none.
ShapeFailure(f) ==
    IF \E k \in DOMAIN f.entries : (f.entries[k].op = "ADD") = (f.entries[k].cert = Absent)
    THEN "INVALID_ENTRY" ELSE "none"

\* Where an entry stands: its page and its place there, in the order of reading.
Places(all) == UNION {{k} \X DOMAIN all[k].entries : k \in DOMAIN all}
EntryAt(all, x) == all[x[1]].entries[x[2]]
Before(x, y) == x[1] < y[1] \/ (x[1] = y[1] /\ x[2] < y[2])

\* Mutant of Start: every synchronisation starts from nothing.
StartEmpty(initial) == NoEntries

\* A first synchronisation starts from nothing, a later one from what is stored.
Start(initial) == IF initial THEN NoEntries ELSE state.entries

\* One entry: none may come twice, and only what is there can be removed.
EntryFailure(all, x, initial) ==
    LET e == EntryAt(all, x) IN
    IF \E y \in Places(all) : Before(y, x) /\ EntryAt(all, y).id = e.id THEN "DUPLICATE_ENTRY"
    ELSE IF e.op = "ADD" THEN CertificateFailure(e.cert)
    ELSE IF initial THEN "INITIAL_REMOVAL"
    ELSE IF Start(initial)[e.id] = Absent THEN "UNKNOWN_REMOVAL" ELSE "none"

\* The checks evaluate_pages makes of a page before its entries
PageFailure(all, k, initial) ==
    IF ShapeFailure(all[k]) # "none" THEN ShapeFailure(all[k])
    ELSE IF k < Len(all) /\ ~all[k].more THEN "UNEXPECTED_PAGE"
    ELSE IF all[k].sequence < (IF k = 1 THEN state.sequence ELSE all[k - 1].sequence) THEN "SEQUENCE_ROLLBACK"
    ELSE IF k = 1 /\ ~initial /\ all[k].entries # <<>> /\ all[k].sequence = state.sequence
         THEN "SEQUENCE_NOT_ADVANCED"
    ELSE IF k > 1 /\ all[k].token = all[k - 1].token THEN "REPEATED_TOKEN"
    ELSE "none"

\* Page k: its own failure, or that of the first of its entries with one
FailureOf(all, k, initial) ==
    LET bad == {n \in DOMAIN all[k].entries : EntryFailure(all, <<k, n>>, initial) # "none"} IN
    IF PageFailure(all, k, initial) # "none" THEN PageFailure(all, k, initial)
    ELSE IF bad = {} THEN "none" ELSE EntryFailure(all, <<k, Min(bad)>>, initial)

\* What the entries of the pages make of those at the start, where none fails
ApplyEntries(all, initial) ==
    [i \in EntryIds |->
        LET named == {x \in Places(all) : EntryAt(all, x).id = i}
        IN IF named = {} THEN Start(initial)[i] ELSE EntryAt(all, CHOOSE x \in named : TRUE).cert]

\* revalidate_entries
RevalidationFailure(entries) ==
    IF \E i \in EntryIds : entries[i] # Absent /\ CertificateFailure(entries[i]) # "none"
    THEN "CERTIFICATE_NOT_CURRENT" ELSE "none"

\* evaluate_pages: all pages so far, and the state they lead to; the first
\* failure is the answer.
EvaluatePages(all) ==
    LET initial == state.token = NoToken
        failing == {k \in DOMAIN all : FailureOf(all, k, initial) # "none"}
        entries == ApplyEntries(all, initial)
        last == all[Len(all)]
    IN [entries |-> entries, sequence |-> last.sequence,
        failure |-> IF failing # {} THEN FailureOf(all, Min(failing), initial)
                    ELSE IF ~last.more THEN RevalidationFailure(entries)
                    ELSE IF Len(all) = MaxPages THEN "PAGE_LIMIT" ELSE "none"]

\* sync_is_due: four fifths of the refresh interval have passed.
SyncIsDue == state.at = 0 \/ hour >= state.at + (Interval * 4) \div 5

\* validate_destination: DNS answers with nothing but public addresses, or
\* with private ones for a host that is allowlisted; one of them is pinned.
ValidateDestination(answer) ==
    /\ answer # {}
    /\ \A a \in answer : a.global \/ (a.private /\ a.allowlisted)

\* A page arrives and all pages so far are evaluated. An error ends the
\* synchronisation and leaves the state as it was.
Arrive(f) ==
    LET all == Append(pages, f)
        result == EvaluatePages(all)
    IN /\ failure' = result.failure
       /\ pages' = IF result.failure = "none" /\ f.more THEN all ELSE <<>>
       /\ state' = IF result.failure = "none" /\ ~f.more
                   THEN [token |-> f.token, sequence |-> result.sequence,
                         entries |-> result.entries, at |-> hour]
                   ELSE state
       /\ UNCHANGED <<hour, history>>

CurrentToken == IF pages = <<>> THEN state.token ELSE pages[Len(pages)].token

\* plan_request and the answer: of the registry as it is now, or as it was when
\* the token was given or later, from a cache or a replica that is behind.
Request(q) ==
    /\ pages # <<>> \/ SyncIsDue
    /\ \E answer \in SUBSET Addresses : ValidateDestination(answer)
    /\ q \in Max({0, CurrentToken.since, CurrentToken.first}) .. Len(history) - 1
    /\ Arrive(Page(CurrentToken, q))

\* A cache that goes by the path only sends the page before once more.
RequestRepeated ==
    /\ pages # <<>>
    /\ Arrive(pages[Len(pages)])

\* The client stops between two pages.
Interrupt ==
    /\ pages # <<>>
    /\ pages' = <<>>
    /\ UNCHANGED <<hour, history, state, failure>>

\* The registry publishes a change of one entry.
Publish(i, cert) ==
    /\ Len(history) <= MaxSequence
    /\ cert # history[Len(history)][i]
    /\ history' = Append(history, [history[Len(history)] EXCEPT ![i] = cert])
    /\ UNCHANGED <<hour, state, pages, failure>>

Pass ==
    /\ hour < SyncEnd
    /\ hour' = hour + 1
    /\ UNCHANGED <<history, state, pages, failure>>

Next ==
    \/ \E q \in 0 .. MaxSequence : Request(q)
    \/ RequestRepeated \/ Interrupt \/ Pass
    \/ \E i \in EntryIds, l \in Lives : Publish(i, [until |-> hour + l, profile |-> TRUE])
    \/ \E i \in EntryIds : Publish(i, Absent)

Spec == Init /\ [][Next]_vars

-----------------------------------------------------------------------------
(* Properties.                                                             *)

\* What is stored of an entry is what the registry had of it at a sequence
\* from that of the first page to that of the last, whatever it published
\* between pages, whichever answers were old or came twice, and wherever the
\* client stopped.  Where all pages were of one state this is that state: but
\* evaluate_pages takes a page of a later state than the one before it, and
\* then what is stored need not have been the registry's at any one moment.
MirrorFaithful ==
    state.token # NoToken =>
        \A i \in EntryIds : \E p \in state.token.since .. state.sequence :
            state.entries[i] = history[p + 1][i]

=============================================================================
