----------------------------- MODULE MCCookies ------------------------------
(***************************************************************************)
(* Instances of Cookies for TLC: two hosts of one domain, jars and request *)
(* sets of two cookies, a directory in the root.                           *)
(***************************************************************************)
EXTENDS Cookies, TLC

CONSTANTS h1, h2, dom, a, n1, n2

MCPaths == {<<>>, <<a>>}

\* What comes for the session is long: a cookie that stays grows when it is
\* sent again for the session, and shrinks when one of the session is to stay.
MCContents == {<<1, 2>>, <<2, 0>>}

\* Names and hosts do nothing that tells one from another.
Alike == Permutations(Name) \cup Permutations(Host)

MCMembers == [d \in {dom} |-> {h1, h2}]

=============================================================================
