----------------------------- MODULE MCCompare -----------------------------
(* Instances of Compare for TLC. *)
EXTENDS Compare

Request(offline, refresh, pin) ==
    [offline |-> offline, refresh |-> refresh, pinned |-> Each(pin)]

\* Runs of the latest revisions, one that is pinned to the first revisions and
\* fetches afresh, and one that may only read the cache.
SomeRequests == {Request(FALSE, FALSE, NoRev), Request(FALSE, TRUE, 1),
                 Request(TRUE, FALSE, NoRev)}
OnlinePinned == {Request(FALSE, FALSE, 1)}
=============================================================================
