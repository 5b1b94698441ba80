--------------------------- MODULE MCTrustPackages ---------------------------
(***************************************************************************)
(* Instances of TrustPackages for TLC.                                     *)
(***************************************************************************)
EXTENDS TrustPackages

CONSTANTS d1, d2, a1, m1, s1, s2, r1, r2

NoPolicy == [given |-> FALSE, next |-> NoSigner, recovery |-> NoSigner]
Allow(next, recovery) == [given |-> TRUE, next |-> next, recovery |-> recovery]

\* Versions and digests repeat after two and three packages, so that a newer
\* package may carry a used version or a used digest.
Base(d, n, signer, policy) ==
    [domain |-> d, sequence |-> n, version |-> n % 2, digest |-> n % 3,
     created |-> n, expires |-> 4, signer |-> signer, policy |-> policy,
     content |-> {}, wellformed |-> TRUE]

\* One domain, every signer with every policy: rotation and recovery.
RotationPolicies ==
    {NoPolicy, Allow(s2, r1), Allow(NoSigner, r1), Allow(s1, r1), Allow(r1, r1),
     Allow(s2, r2)}
RotationPackages ==
    {Base(d1, n, s, q) : n \in 1 .. 3, s \in {s1, s2, r1}, q \in RotationPolicies}

\* Two domains that want the same records, with short-lived packages,
\* repeated creation times, versions and digests, a package past the largest
\* sequence and a malformed one.
First == [Base(d1, 1, s1, NoPolicy) EXCEPT !.content = {a1, m1}, !.expires = 3]
Second == [Base(d1, 2, s1, NoPolicy) EXCEPT !.content = {m1}]
ContestPackages ==
    {First, Second,
     [Second EXCEPT !.sequence = 3, !.version = 3, !.digest = 3],
     [Second EXCEPT !.sequence = 3, !.version = 3],
     [Second EXCEPT !.content = {a1}, !.digest = 3],
     [Base(d2, 1, s2, NoPolicy) EXCEPT !.content = {a1}],
     [Base(d2, 3, s2, NoPolicy) EXCEPT !.content = {}],
     [Base(d2, 0, s2, NoPolicy) EXCEPT !.created = 1],
     [Second EXCEPT !.sequence = 4, !.version = 0, !.digest = 0, !.created = 3],
     [Second EXCEPT !.wellformed = FALSE, !.sequence = 3]}

Four == 0 .. 3

\* The two stories are explored in one run, one or the other from the start.
VARIABLE story

Rotation == INSTANCE TrustPackages WITH Packages <- RotationPackages, Skew <- 0, MaxInflight <- 1

StoriesInit ==
    \/ story = "contest" /\ Init
    \/ story = "rotation" /\ Rotation!Init
StoriesNext ==
    /\ \/ story = "contest" /\ Next
       \/ story = "rotation" /\ Rotation!Next
    /\ UNCHANGED story
StoriesSpec == StoriesInit /\ [][StoriesNext]_<<vars, story>>
=============================================================================
